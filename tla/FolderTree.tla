----------------------------- MODULE FolderTree -----------------------------
(***************************************************************************)
(* The tree that parent_id spans over the assets of one organization:      *)
(* requests that insert folders, uploads and mirrored repository files,    *)
(* requests that delete folders, and one request that lists the whole tree *)
(* (GET /files/tree).  parent_id is written by the insert only.            *)
(*                                                                         *)
(* Every query is a statement of its own at READ COMMITTED.  A request's   *)
(* writes are seen by others from its commit on, and a soft delete by id   *)
(* commutes with another, so they are applied at the commit.               *)
(***************************************************************************)
EXTENDS Naturals, FiniteSets

CONSTANTS
    Assets,      \* asset ids
    Root,        \* what parent_id IS NULL stands for
    Deletes,     \* DELETE /folders/{id} requests
    PageLimit,   \* the tree's limit per listing (500)
    DeleteLimit, \* the recursive delete's limit (1000)
    MaxDepth     \* the max_depth the tree request asks for

ASSUME TreeAssumption ==
    /\ IsFiniteSet(Assets) /\ Root \notin Assets
    /\ PageLimit \in Nat \ {0} /\ DeleteLimit \in Nat \ {0}
    /\ MaxDepth \in Nat

VARIABLES
    kind,      \* asset_type: "folder", "file" or "repo"; "none" before
    state,     \* "absent", "checked" (the handler has accepted the parent),
               \* "live" or "deleted"
    parent,    \* parent_id
    delPc,     \* how far a delete has come
    target,    \* the folder a delete names
    recursive, \* the deletes with recursive=true
    items,     \* what a delete has listed of its contents
    walk,      \* how far the tree request has come
    top,       \* its root_id
    todo,      \* the listings it still has to make: <<parent, depth>>
    current,   \* the one it is making: <<parent, depth, total>>
    listed,    \* the nodes it has built
    truncated, \* the nodes whose children_truncated it has set
    \* history
    overtaken, \* the nodes whose children outgrew a page after they were counted
    steady,    \* the assets that have been live ever since it began
    inside     \* the descendants of a delete's folder when it arrived

rowVars  == <<kind, state, parent>>
delVars  == <<delPc, target, recursive, items, inside>>
walkVars == <<walk, top, todo, current, listed, truncated, overtaken>>
treeVars == <<rowVars, delVars, walkVars, steady>>

Nodes == Assets \cup {Root}

TreeTypeOK ==
    /\ kind   \in [Assets -> {"none", "folder", "file", "repo"}]
    /\ state  \in [Assets -> {"absent", "checked", "live", "deleted"}]
    /\ parent \in [Assets -> Nodes]
    /\ delPc  \in [Deletes -> {"idle", "found", "listed", "done", "refused"}]
    /\ target \in [Deletes -> Nodes]
    /\ recursive \subseteq Deletes
    /\ items  \in [Deletes -> SUBSET Assets]
    /\ inside \in [Deletes -> SUBSET Assets]
    /\ walk   \in {"idle", "walking", "done"}
    /\ top    \in Nodes
    /\ todo    \subseteq Nodes \X (1 .. MaxDepth)
    /\ current \subseteq Nodes \X (1 .. MaxDepth) \X (0 .. Cardinality(Assets))
    /\ listed \subseteq Assets
    /\ truncated \subseteq Nodes /\ overtaken \subseteq Nodes
    /\ steady \subseteq Assets

TreeInit ==
    /\ kind   = [a \in Assets |-> "none"]
    /\ state  = [a \in Assets |-> "absent"]
    /\ parent = [a \in Assets |-> Root]
    /\ delPc  = [d \in Deletes |-> "idle"]
    /\ target = [d \in Deletes |-> Root]
    /\ recursive = {}
    /\ items  = [d \in Deletes |-> {}]
    /\ inside = [d \in Deletes |-> {}]
    /\ walk   = "idle"
    /\ top    = Root
    /\ todo   = {}
    /\ current = {}
    /\ listed = {}
    /\ truncated = {} /\ overtaken = {}
    /\ steady = {}

-----------------------------------------------------------------------------
Live == {a \in Assets : state[a] = "live"}

\* asset_repo.list by parent_id: total, and the page that is returned.  The
\* newest come first; which those are does not matter here.
Children(p) == {a \in Live : parent[a] = p}
Page(p, limit, page) ==
    /\ page \subseteq Children(p)
    /\ LET total == Cardinality(Children(p))
       IN  Cardinality(page) = IF total < limit THEN total ELSE limit

\* c[0] is p, and each of c[1], ..., c[n] a row of A directly below the one before.
Leads(c, n, p, A) ==
    /\ c[0] = p
    /\ \A i \in 1 .. n : c[i] \in A /\ parent[c[i]] = c[i - 1]

\* Everything below p.
Below(p) ==
    {a \in Live : \E n \in 1 .. Cardinality(Assets) :
                    \E c \in [0 .. n -> Live \cup {p}] : c[n] = a /\ Leads(c, n, p, Live)}

Insert(a, k, p) ==
    /\ kind'   = [kind EXCEPT ![a] = k]
    /\ parent' = [parent EXCEPT ![a] = p]

Delete(A) ==
    /\ state'  = [a \in Assets |-> IF a \in A THEN "deleted" ELSE state[a]]
    /\ steady' = steady \ A

-----------------------------------------------------------------------------
(* create_folder: a parent that is given must be a live folder. *)
CheckParent(a, p) ==
    /\ state[a] = "absent"
    /\ p \in {Root} \cup {b \in Live : kind[b] = "folder"}
    /\ Insert(a, "folder", p)
    /\ state' = [state EXCEPT ![a] = "checked"]
    /\ UNCHANGED <<delVars, walkVars, steady>>

InsertFolder(a) ==
    /\ state[a] = "checked"
    /\ state' = [state EXCEPT ![a] = "live"]
    /\ UNCHANGED <<kind, parent, delVars, walkVars, steady>>

\* init_upload takes any parent_id that the foreign key takes.
InitUpload(a, p) ==
    /\ state[a] = "absent"
    /\ p \in {Root} \cup {b \in Assets : state[b] \in {"live", "deleted"}}
    /\ Insert(a, "file", p)
    /\ state' = [state EXCEPT ![a] = "live"]
    /\ UNCHANGED <<delVars, walkVars, steady>>

\* The GitHub connector: a repo asset at the top, its files below it.
SyncRepo(a, p) ==
    /\ state[a] = "absent"
    /\ \/ p = Root /\ Insert(a, "repo", p)
       \/ p \in {b \in Live : kind[b] = "repo"} /\ Insert(a, "file", p)
    /\ state' = [state EXCEPT ![a] = "live"]
    /\ UNCHANGED <<delVars, walkVars, steady>>

-----------------------------------------------------------------------------
(* delete_folder *)

\* 404 unless the row is live; nothing asks whether it is a folder.
DeleteLookup(d, f) ==
    /\ delPc[d] = "idle"
    /\ delPc' = [delPc EXCEPT ![d] = IF f \in Live THEN "found" ELSE "refused"]
    /\ target' = [target EXCEPT ![d] = f]
    /\ recursive' \in {recursive, recursive \cup {d}}
    /\ inside' = [inside EXCEPT ![d] = Below(f)]
    /\ UNCHANGED <<rowVars, items, walkVars, steady>>

\* Mutation: the plain delete does not look for contents.
ListContentsUnchecked(d) ==
    /\ delPc[d] = "found"
    /\ delPc' = [delPc EXCEPT ![d] = "listed"]
    /\ \E page \in SUBSET Assets :
          /\ IF d \in recursive THEN Page(target[d], DeleteLimit, page)
                                ELSE page = {}
          /\ items' = [items EXCEPT ![d] = page]
    /\ UNCHANGED <<rowVars, target, recursive, inside, walkVars, steady>>

\* Recursive: the children to delete with it.  Otherwise: 400 if there are any.
ListContents(d) ==
    /\ delPc[d] = "found"
    /\ \E page \in SUBSET Assets :
          /\ IF d \in recursive THEN Page(target[d], DeleteLimit, page)
                                ELSE Page(target[d], 1, page)
          /\ IF d \in recursive \/ page = {}
             THEN delPc' = [delPc EXCEPT ![d] = "listed"]
             ELSE delPc' = [delPc EXCEPT ![d] = "refused"]
          /\ items' = [items EXCEPT ![d] = page]
    /\ UNCHANGED <<rowVars, target, recursive, inside, walkVars, steady>>

\* soft_delete of each child and of the folder, and the commit.
CommitDelete(d) ==
    /\ delPc[d] = "listed"
    /\ delPc' = [delPc EXCEPT ![d] = "done"]
    /\ Delete(items[d] \cup {target[d]})
    /\ UNCHANGED <<kind, parent, target, recursive, items, inside, walkVars>>

\* A statement or the commit fails and the transaction is rolled back.
DeleteFails(d) ==
    /\ delPc[d] \in {"found", "listed"}
    /\ delPc' = [delPc EXCEPT ![d] = "refused"]
    /\ UNCHANGED <<rowVars, target, recursive, items, inside, walkVars, steady>>

\* DELETE /files/{id} and GraphQL deleteAsset take the id of a folder too.
DeleteAsset(a) ==
    /\ a \in Live
    /\ Delete({a})
    /\ UNCHANGED <<kind, parent, delVars, walkVars>>

-----------------------------------------------------------------------------
(* get_full_tree *)

\* Mutation: the bound is off by one.
DueShallow(listings) == {x \in listings : x[2] < MaxDepth}

\* walk returns at once beyond max_depth.
Due(listings) == {x \in listings : x[2] <= MaxDepth}

StartWalk(r) ==
    /\ walk = "idle"
    /\ r \in Live \cup {Root}
    /\ walk'   = "walking"
    /\ top'    = r
    /\ todo'   = Due({<<r, 1>>})
    /\ steady' = Live
    /\ UNCHANGED <<rowVars, delVars, current, listed, truncated, overtaken>>

\* asset_repo.list counts, and then fetches a page.  The code recurses depth
\* first; here any listing that is due may be next.
CountChildren(p, depth) ==
    /\ current = {} /\ <<p, depth>> \in todo
    /\ current' = {<<p, depth, Cardinality(Children(p))>>}
    /\ todo' = todo \ {<<p, depth>>}
    /\ UNCHANGED <<rowVars, delVars, walk, top, listed, truncated, overtaken, steady>>

\* children_truncated compares the page with the count; a folder on the page
\* is walked in turn.
FetchChildren(p, depth, total) ==
    /\ <<p, depth, total>> \in current
    /\ current' = {}
    /\ \E page \in SUBSET Assets :
          /\ Page(p, PageLimit, page)
          /\ listed' = listed \cup page
          /\ todo' = todo \cup
                Due({<<a, depth + 1>> : a \in {b \in page : kind[b] = "folder"}})
          /\ truncated' = IF total > Cardinality(page) THEN truncated \cup {p}
                                                       ELSE truncated
    /\ LET now == Cardinality(Children(p))
       IN  overtaken' = IF total < now /\ PageLimit < now THEN overtaken \cup {p}
                                                         ELSE overtaken
    /\ UNCHANGED <<rowVars, delVars, walk, top, steady>>

EndWalk ==
    /\ walk = "walking" /\ todo = {} /\ current = {}
    /\ walk' = "done"
    /\ UNCHANGED <<rowVars, delVars, top, todo, current, listed, truncated,
                   overtaken, steady>>

Walk ==
    \/ \E p \in Nodes, depth \in 1 .. MaxDepth :
          \/ CountChildren(p, depth)
          \/ \E total \in 0 .. Cardinality(Assets) :
                FetchChildren(p, depth, total)
    \/ EndWalk

-----------------------------------------------------------------------------
TreeNext ==
    \/ \E a \in Assets :
          \/ \E p \in Nodes : CheckParent(a, p) \/ InitUpload(a, p)
                                                \/ SyncRepo(a, p)
          \/ InsertFolder(a) \/ DeleteAsset(a)
    \/ \E d \in Deletes :
          \/ \E f \in Assets : DeleteLookup(d, f)
          \/ ListContents(d) \/ CommitDelete(d) \/ DeleteFails(d)
    \/ \E r \in Nodes : StartWalk(r)
    \/ Walk

TreeSpec == TreeInit /\ [][TreeNext]_treeVars

-----------------------------------------------------------------------------
\* The assets that `folders' lead to, down to depth, of those that have been live
\* during the whole request and whose listing is not among those cut off.
Reachable(folders, depth, cut) ==
    {a \in steady : \E n \in 1 .. depth : \E c \in [0 .. n -> steady \cup {top}] :
        /\ c[n] = a /\ Leads(c, n, top, steady)
        /\ \A i \in 1 .. n : c[i - 1] \notin cut /\ (i > 1 => c[i - 1] \in folders)}

Folders == {a \in Assets : kind[a] = "folder"}

\* However the tree changes while it is walked, one statement at a time, it
\* has every asset that was there throughout, down to max_depth, unless the
\* listing it belongs to says that it is truncated, or outgrew its page between
\* the count and the page.
TreeComplete ==
    walk = "done" => Reachable(Folders, MaxDepth, truncated \cup overtaken) \subseteq listed

\* Of what was directly in a folder when its delete arrived, a plain delete
\* leaves nothing live without its folder, and a recursive one leaves nothing
\* live at all, unless its listing was full.
DeletesFitContents ==
    [][\A d \in Deletes : delPc[d] = "listed" /\ delPc'[d] = "done" =>
          \A a \in inside[d] : parent[a] = target[d] =>
              IF d \in recursive
              THEN Cardinality(items[d]) < DeleteLimit => state'[a] # "live"
              ELSE state[a] # "live"]_treeVars

-----------------------------------------------------------------------------
(* What docstrings and messages of the code say, and the code does not do. *)

\* folders.py: "recursive=True also soft-deletes all contents".
RecursiveDeletesContents ==
    [][\A d \in recursive :
          /\ delPc[d] = "listed" /\ delPc'[d] = "done"
          /\ kind[target[d]] = "folder"
          => \A a \in inside[d] : state'[a] = "deleted"]_treeVars

\* folders.py: "Folder is not empty.  Use recursive=true to delete anyway":
\* without recursive a folder with contents is not deleted.
PlainDeleteOfEmpty ==
    [][\A d \in Deletes \ recursive :
          /\ delPc[d] = "listed" /\ delPc'[d] = "done"
          /\ kind[target[d]] = "folder"
          => Children(target[d]) = {}]_treeVars

\* files.py: "the FULL nested tree ... (bounded by max_depth)".
TreeIsFull ==
    walk = "done" => Reachable(Assets, MaxDepth, truncated) \subseteq listed

\* children_truncated: what a listing leaves out is told.
CutIsMarked ==
    walk = "done" => Reachable(Folders, MaxDepth, truncated) \subseteq listed

=============================================================================
