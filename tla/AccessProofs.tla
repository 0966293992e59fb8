---------------------------- MODULE AccessProofs ----------------------------
(***************************************************************************)
(* Proofs about what a request may do and what its path names: the two     *)
(* halves of POST /orgs/{id}/acl/check.  About FolderTree and              *)
(* PathResolution, for any assets, any page limits, any depth and any      *)
(* deletes; and about AccessTokens, for any users, organizations, requests *)
(* and lives of tokens.                                                    *)
(***************************************************************************)
EXTENDS AccessTokens, PathResolution, FiniteSetTheorems, TLAPS

-----------------------------------------------------------------------------
(* FolderTree. *)

Total == 0 .. Cardinality(Assets)

LEMMA ChildrenFacts ==
    ASSUME NEW p
    PROVE  /\ Children(p) \subseteq Assets /\ IsFiniteSet(Children(p))
           /\ Cardinality(Children(p)) \in Total
<1>1. Children(p) \in SUBSET Assets
  BY DEF Children, Live
<1>2. IsFiniteSet(Assets) /\ IsFiniteSet(Children(p))
  BY <1>1, TreeAssumption, FS_Subset
<1>3. /\ Cardinality(Assets) \in Nat /\ Cardinality(Children(p)) \in Nat
      /\ Cardinality(Children(p)) <= Cardinality(Assets)
  BY <1>1, <1>2, FS_CardinalityType, FS_Subset
<1>4. QED
  BY <1>1, <1>2, <1>3 DEF Total

\* A page that holds as many rows as there are leaves none of them out.
LEMMA FullPage ==
    ASSUME NEW p, NEW limit \in Nat, NEW page, Page(p, limit, page),
           \/ Cardinality(page) < limit
           \/ Cardinality(Children(p)) <= limit
           \/ Cardinality(Children(p)) <= Cardinality(page)
    PROVE  page = Children(p)
<1>1. page \in SUBSET Children(p) /\ IsFiniteSet(Children(p)) /\ Cardinality(Children(p)) \in Nat
  BY ChildrenFacts DEF Page, Total
<1>2. Cardinality(page) \in Nat /\ Cardinality(page) <= Cardinality(Children(p))
  BY <1>1, FS_Subset, FS_CardinalityType
<1>3. Cardinality(page) = IF Cardinality(Children(p)) < limit THEN Cardinality(Children(p)) ELSE limit
  BY DEF Page
<1>4. Cardinality(page) = Cardinality(Children(p))
  BY <1>1, <1>2, <1>3
<1>5. QED
  BY <1>1, <1>4, FS_Subset

-----------------------------------------------------------------------------
(* Types of the tree. *)

LEMMA TreeTypeInit == TreeInit => TreeTypeOK
BY DEF TreeInit, TreeTypeOK, Nodes

LEMMA TreeTypeNext ==
    ASSUME TreeTypeOK, [TreeNext]_treeVars
    PROVE  TreeTypeOK'
<1> USE DEF TreeTypeOK
<1>1. ASSUME NEW a \in Assets, NEW p \in Nodes, CheckParent(a, p) PROVE TreeTypeOK'
  BY <1>1 DEF CheckParent, Insert, delVars, walkVars
<1>2. ASSUME NEW a \in Assets, NEW p \in Nodes, InitUpload(a, p) PROVE TreeTypeOK'
  BY <1>2 DEF InitUpload, Insert, delVars, walkVars
<1>3. ASSUME NEW a \in Assets, NEW p \in Nodes, SyncRepo(a, p) PROVE TreeTypeOK'
  BY <1>3 DEF SyncRepo, Insert, delVars, walkVars
<1>4. ASSUME NEW a \in Assets, InsertFolder(a) PROVE TreeTypeOK'
  BY <1>4 DEF InsertFolder, delVars, walkVars
<1>5. ASSUME NEW a \in Assets, DeleteAsset(a) PROVE TreeTypeOK'
  BY <1>5 DEF DeleteAsset, Delete, delVars, walkVars
<1>6. ASSUME NEW d \in Deletes, NEW f \in Assets, DeleteLookup(d, f) PROVE TreeTypeOK'
  <2>1. Below(f) \subseteq Assets
    BY DEF Below, Live
  <2>2. QED
    BY <1>6, <2>1 DEF DeleteLookup, rowVars, walkVars, Nodes
<1>7. ASSUME NEW d \in Deletes, ListContents(d) PROVE TreeTypeOK'
  BY <1>7 DEF ListContents, rowVars, walkVars
<1>8. ASSUME NEW d \in Deletes, CommitDelete(d) PROVE TreeTypeOK'
  BY <1>8 DEF CommitDelete, Delete, walkVars
<1>9. ASSUME NEW d \in Deletes, DeleteFails(d) PROVE TreeTypeOK'
  BY <1>9 DEF DeleteFails, rowVars, walkVars
<1>10. ASSUME NEW r \in Nodes, StartWalk(r) PROVE TreeTypeOK'
  <2>1. Due({<<r, 1>>}) \subseteq Nodes \X (1 .. MaxDepth)
    BY TreeAssumption DEF Due
  <2>2. Live \subseteq Assets
    BY DEF Live
  <2>3. QED
    BY <1>10, <2>1, <2>2 DEF StartWalk, rowVars, delVars
<1>11. ASSUME NEW p \in Nodes, NEW n \in 1 .. MaxDepth, CountChildren(p, n) PROVE TreeTypeOK'
  BY <1>11, ChildrenFacts DEF CountChildren, rowVars, delVars, Total
<1>12. ASSUME NEW p \in Nodes, NEW n \in 1 .. MaxDepth, NEW total \in Total, FetchChildren(p, n, total)
       PROVE  TreeTypeOK'
  <2>1. PICK page \in SUBSET Assets :
          /\ listed' = listed \cup page
          /\ todo' = todo \cup Due({<<a, n + 1>> : a \in {b \in page : kind[b] = "folder"}})
    BY <1>12 DEF FetchChildren
  <2>2. Due({<<a, n + 1>> : a \in {b \in page : kind[b] = "folder"}}) \subseteq Nodes \X (1 .. MaxDepth)
    BY TreeAssumption DEF Due, Nodes
  <2>3. todo' \subseteq Nodes \X (1 .. MaxDepth) /\ listed' \subseteq Assets
    BY <2>1, <2>2
  <2>4. truncated' \subseteq Nodes /\ overtaken' \subseteq Nodes /\ current' = {}
    BY <1>12 DEF FetchChildren
  <2>5. UNCHANGED <<rowVars, delVars, walk, top, steady>>
    BY <1>12 DEF FetchChildren
  <2>6. QED
    BY <2>3, <2>4, <2>5 DEF rowVars, delVars
<1>13. CASE EndWalk
  BY <1>13 DEF EndWalk, rowVars, delVars
<1>14. CASE UNCHANGED treeVars
  BY <1>14 DEF treeVars, rowVars, delVars, walkVars
<1>15. QED
  BY <1>1, <1>2, <1>3, <1>4, <1>5, <1>6, <1>7, <1>8, <1>9, <1>10, <1>11, <1>12, <1>13, <1>14
  DEF TreeNext, Walk, Total

-----------------------------------------------------------------------------
(* What never changes: a row's type and parent from its insert on, and that  *)
(* it is there, live or deleted.                                              *)

RowsKept ==
    \A a \in Assets :
        /\ state[a] # "absent" => kind'[a] = kind[a] /\ parent'[a] = parent[a]
        /\ state[a] \in {"live", "deleted"} => state'[a] \in {"live", "deleted"}
        /\ state[a] = "deleted" => state'[a] = "deleted"

SteadyIsLive == steady \subseteq Live

LEMMA TreeRowsKept ==
    ASSUME TreeTypeOK, [TreeNext]_treeVars
    PROVE  RowsKept
<1> USE DEF TreeTypeOK, RowsKept
<1>1. ASSUME NEW a \in Assets, NEW p \in Nodes, CheckParent(a, p) PROVE RowsKept
  BY <1>1 DEF CheckParent, Insert
<1>2. ASSUME NEW a \in Assets, NEW p \in Nodes, InitUpload(a, p) PROVE RowsKept
  BY <1>2 DEF InitUpload, Insert
<1>3. ASSUME NEW a \in Assets, NEW p \in Nodes, SyncRepo(a, p) PROVE RowsKept
  BY <1>3 DEF SyncRepo, Insert
<1>4. ASSUME NEW a \in Assets, InsertFolder(a) PROVE RowsKept
  BY <1>4 DEF InsertFolder
<1>5. ASSUME NEW a \in Assets, DeleteAsset(a) PROVE RowsKept
  BY <1>5 DEF DeleteAsset, Delete
<1>6. ASSUME NEW d \in Deletes, CommitDelete(d) PROVE RowsKept
  BY <1>6 DEF CommitDelete, Delete
<1>7. ASSUME UNCHANGED rowVars PROVE RowsKept
  BY <1>7 DEF rowVars
<1>8. QED
  BY <1>1, <1>2, <1>3, <1>4, <1>5, <1>6, <1>7
  DEF TreeNext, Walk, DeleteLookup, ListContents, DeleteFails, StartWalk, CountChildren,
      FetchChildren, EndWalk, treeVars

\* What is steady is live, and nothing becomes steady while the tree is walked.
LEMMA TreeSteady ==
    ASSUME TreeTypeOK, SteadyIsLive, [TreeNext]_treeVars
    PROVE  /\ SteadyIsLive'
           /\ walk' = "idle" \/ walk # "idle" => steady' \subseteq steady
<1> USE DEF TreeTypeOK, SteadyIsLive, Live
<1>1. ASSUME NEW a \in Assets, NEW p \in Nodes, CheckParent(a, p) \/ InitUpload(a, p) \/ SyncRepo(a, p)
      PROVE  SteadyIsLive' /\ steady' \subseteq steady
  BY <1>1 DEF CheckParent, InitUpload, SyncRepo, Insert
<1>2. ASSUME NEW a \in Assets, InsertFolder(a) PROVE SteadyIsLive' /\ steady' \subseteq steady
  BY <1>2 DEF InsertFolder
<1>3. ASSUME NEW a \in Assets, DeleteAsset(a) PROVE SteadyIsLive' /\ steady' \subseteq steady
  BY <1>3 DEF DeleteAsset, Delete
<1>4. ASSUME NEW d \in Deletes, CommitDelete(d) PROVE SteadyIsLive' /\ steady' \subseteq steady
  BY <1>4 DEF CommitDelete, Delete
<1>5. ASSUME NEW r \in Nodes, StartWalk(r) PROVE SteadyIsLive' /\ walk = "idle" /\ walk' # "idle"
  BY <1>5 DEF StartWalk, rowVars
<1>6. ASSUME UNCHANGED <<rowVars, steady>> PROVE SteadyIsLive' /\ steady' \subseteq steady
  BY <1>6 DEF rowVars
<1>7. QED
  BY <1>1, <1>2, <1>3, <1>4, <1>5, <1>6
  DEF TreeNext, Walk, DeleteLookup, ListContents, DeleteFails, CountChildren, FetchChildren, EndWalk, treeVars

-----------------------------------------------------------------------------
(* Deletes. *)

\* What was in the folder when the delete arrived is there still, live or deleted.
\* Once the contents are listed, what is directly in it is on the list of a
\* recursive delete, unless that was full, or else deleted; for a plain delete it
\* is deleted.
DeleteInv ==
    \A d \in Deletes : \A a \in inside[d] :
        /\ delPc[d] \in {"found", "listed"} => state[a] \in {"live", "deleted"}
        /\ delPc[d] = "listed" /\ parent[a] = target[d] =>
              IF d \in recursive
              THEN Cardinality(items[d]) < DeleteLimit => a \in items[d] \/ state[a] = "deleted"
              ELSE state[a] = "deleted"

LEMMA DeleteInvKept ==
    ASSUME TreeTypeOK, DeleteInv, RowsKept, UNCHANGED <<target, recursive, items, inside>>,
           \A d \in Deletes : delPc'[d] \in {"found", "listed"} => delPc[d] = delPc'[d]
    PROVE  DeleteInv'
<1> SUFFICES ASSUME NEW d \in Deletes, NEW a \in inside[d], delPc[d] \in {"found", "listed"}, delPc'[d] = delPc[d]
             PROVE  /\ state'[a] \in {"live", "deleted"}
                    /\ delPc[d] = "listed" /\ parent'[a] = target[d] =>
                          IF d \in recursive
                          THEN Cardinality(items[d]) < DeleteLimit => a \in items[d] \/ state'[a] = "deleted"
                          ELSE state'[a] = "deleted"
  BY DEF DeleteInv
<1>1. a \in Assets /\ state[a] \in {"live", "deleted"}
  BY DEF TreeTypeOK, DeleteInv
<1>2. parent'[a] = parent[a] /\ state'[a] \in {"live", "deleted"} /\ (state[a] = "deleted" => state'[a] = "deleted")
  BY <1>1 DEF RowsKept
<1>3. QED
  BY <1>1, <1>2 DEF DeleteInv

LEMMA DeleteInvNext ==
    ASSUME TreeTypeOK, DeleteInv, [TreeNext]_treeVars
    PROVE  DeleteInv'
<1> USE DEF TreeTypeOK
<1>1. RowsKept
  BY TreeRowsKept
<1>2. CASE UNCHANGED delVars
  BY <1>1, <1>2, DeleteInvKept DEF delVars
<1>3. ASSUME NEW d \in Deletes, NEW f \in Assets, DeleteLookup(d, f) PROVE DeleteInv'
  <2>1. SUFFICES ASSUME NEW e \in Deletes, NEW a \in inside'[e]
                 PROVE  /\ delPc'[e] \in {"found", "listed"} => state'[a] \in {"live", "deleted"}
                        /\ delPc'[e] = "listed" /\ parent'[a] = target'[e] =>
                              IF e \in recursive'
                              THEN Cardinality(items'[e]) < DeleteLimit' => a \in items'[e] \/ state'[a] = "deleted"
                              ELSE state'[a] = "deleted"
    BY DEF DeleteInv
  <2>2. UNCHANGED <<kind, state, parent, items>> /\ recursive' \in {recursive, recursive \cup {d}}
    BY <1>3 DEF DeleteLookup, rowVars
  <2>3. CASE e = d
    <3>1. state[a] = "live"
      BY <1>3, <2>3 DEF DeleteLookup, Below, Live
    <3>2. delPc'[e] # "listed"
      BY <1>3, <2>3 DEF DeleteLookup
    <3>3. QED
      BY <2>2, <3>1, <3>2
  <2>4. CASE e # d
    <3>1. delPc'[e] = delPc[e] /\ target'[e] = target[e] /\ inside'[e] = inside[e]
      BY <1>3, <2>4 DEF DeleteLookup
    <3>2. e \in recursive' <=> e \in recursive
      BY <2>2, <2>4
    <3>3. QED
      BY <2>2, <3>1, <3>2 DEF DeleteInv
  <2>5. QED
    BY <2>3, <2>4
<1>4. ASSUME NEW d \in Deletes, ListContents(d) PROVE DeleteInv'
  <2>1. PICK page \in SUBSET Assets :
          /\ IF d \in recursive THEN Page(target[d], DeleteLimit, page) ELSE Page(target[d], 1, page)
          /\ IF d \in recursive \/ page = {}
             THEN delPc' = [delPc EXCEPT ![d] = "listed"]
             ELSE delPc' = [delPc EXCEPT ![d] = "refused"]
          /\ items' = [items EXCEPT ![d] = page]
    BY <1>4 DEF ListContents
  <2>2. delPc[d] = "found" /\ UNCHANGED <<kind, state, parent, target, recursive, inside>>
    BY <1>4 DEF ListContents, rowVars
  <2>3. ASSUME NEW a \in inside[d], delPc'[d] = "listed", parent[a] = target[d]
        PROVE  IF d \in recursive
               THEN Cardinality(page) < DeleteLimit => a \in page \/ state[a] = "deleted"
               ELSE state[a] = "deleted"
    <3>1. a \in Assets /\ state[a] \in {"live", "deleted"}
      BY <2>2 DEF DeleteInv
    <3>2. state[a] = "live" => a \in Children(target[d])
      BY <2>3, <3>1 DEF Children, Live
    <3>3. CASE d \in recursive
      <4>1. Cardinality(page) < DeleteLimit => page = Children(target[d])
        BY <2>1, <3>3, FullPage, TreeAssumption
      <4>2. QED
        BY <3>1, <3>2, <3>3, <4>1
    <3>4. CASE d \notin recursive
      <4>1. page = {} /\ Page(target[d], 1, page)
        BY <2>1, <2>3, <3>4
      <4>2. Cardinality(page) < 1
        BY <4>1, FS_EmptySet
      <4>3. page = Children(target[d])
        BY <4>1, <4>2, FullPage
      <4>4. QED
        BY <3>1, <3>2, <3>4, <4>1, <4>3
    <3>5. QED
      BY <3>3, <3>4
  <2>4. SUFFICES ASSUME NEW e \in Deletes, NEW a \in inside[e], delPc'[e] \in {"found", "listed"}
                 PROVE  /\ state[a] \in {"live", "deleted"}
                        /\ delPc'[e] = "listed" /\ parent[a] = target[e] =>
                              IF e \in recursive
                              THEN Cardinality(items'[e]) < DeleteLimit => a \in items'[e] \/ state[a] = "deleted"
                              ELSE state[a] = "deleted"
    BY <2>2 DEF DeleteInv
  <2>5. CASE e = d
    BY <2>1, <2>2, <2>3, <2>5 DEF DeleteInv
  <2>6. CASE e # d
    <3>1. delPc'[e] = delPc[e] /\ items'[e] = items[e]
      BY <2>1, <2>6
    <3>2. QED
      BY <2>4, <3>1 DEF DeleteInv
  <2>7. QED
    BY <2>5, <2>6
<1>5. ASSUME NEW d \in Deletes, CommitDelete(d) \/ DeleteFails(d) PROVE DeleteInv'
  <2>1. \A e \in Deletes : delPc'[e] \in {"found", "listed"} => delPc[e] = delPc'[e]
    BY <1>5 DEF CommitDelete, DeleteFails
  <2>2. UNCHANGED <<target, recursive, items, inside>>
    BY <1>5 DEF CommitDelete, DeleteFails
  <2>3. QED
    BY <1>1, <2>1, <2>2, DeleteInvKept
<1>6. QED
  BY <1>2, <1>3, <1>4, <1>5
  DEF TreeNext, Walk, CheckParent, InitUpload, SyncRepo, InsertFolder, DeleteAsset, StartWalk,
      CountChildren, FetchChildren, EndWalk, treeVars

\* The action of the property.
DeletesFit ==
    \A d \in Deletes : delPc[d] = "listed" /\ delPc'[d] = "done" =>
        \A a \in inside[d] : parent[a] = target[d] =>
            IF d \in recursive
            THEN Cardinality(items[d]) < DeleteLimit => state'[a] # "live"
            ELSE state[a] # "live"

LEMMA DeletesFitNext ==
    ASSUME TreeTypeOK, DeleteInv, [TreeNext]_treeVars
    PROVE  DeletesFit
<1> SUFFICES ASSUME NEW d \in Deletes, delPc[d] = "listed", delPc'[d] = "done",
                    NEW a \in inside[d], parent[a] = target[d]
             PROVE  IF d \in recursive
                    THEN Cardinality(items[d]) < DeleteLimit => state'[a] # "live"
                    ELSE state[a] # "live"
  BY DEF DeletesFit
<1>1. a \in Assets
  BY DEF TreeTypeOK
<1>2. CASE d \notin recursive
  BY <1>2 DEF DeleteInv
<1>3. CASE d \in recursive /\ Cardinality(items[d]) < DeleteLimit
  <2>1. RowsKept
    BY TreeRowsKept
  <2>2. a \in items[d] \/ state[a] = "deleted"
    BY <1>3 DEF DeleteInv
  <2>3. CommitDelete(d)
    BY DEF TreeTypeOK, TreeNext, Walk, CheckParent, InitUpload, SyncRepo, InsertFolder, DeleteAsset,
       DeleteLookup, ListContents, CommitDelete, DeleteFails, StartWalk, CountChildren,
       FetchChildren, EndWalk, treeVars, delVars
  <2>4. CASE a \in items[d]
    BY <1>1, <1>3, <2>3, <2>4 DEF CommitDelete, Delete
  <2>5. CASE state[a] = "deleted"
    BY <1>1, <1>3, <2>1, <2>5 DEF RowsKept
  <2>6. QED
    BY <1>3, <2>2, <2>4, <2>5
<1>4. QED
  BY <1>2, <1>3

-----------------------------------------------------------------------------
(* The tree request. *)

Pending(p, n) == <<p, n>> \in todo \/ \E total \in Total : <<p, n, total>> \in current

\* The chain c leads from the top through what is steady, past no listing cut off,
\* and through folders.
Followed(c, n) ==
    /\ Leads(c, n, top, steady)
    /\ \A i \in 1 .. n : c[i - 1] \notin truncated \cup overtaken /\ (i > 1 => c[i - 1] \in Folders)

Chains(n) == [0 .. n -> Nodes]

\* Such a chain has been listed to its end, or one of its listings is yet to be made.
ChainsCovered ==
    \A n \in 1 .. MaxDepth : \A c \in Chains(n) :
        Followed(c, n) => c[n] \in listed \/ \E i \in 0 .. n - 1 : Pending(c[i], i + 1)

WalkInv ==
    /\ walk # "idle" => ChainsCovered
    /\ walk # "walking" => todo = {} /\ current = {}
    /\ \A x, y \in current : x = y

\* A chain that is followed after a step was so before it.
LEMMA FollowedBefore ==
    ASSUME TreeTypeOK, SteadyIsLive, RowsKept, steady' \subseteq steady, top' = top,
           truncated \subseteq truncated', overtaken \subseteq overtaken',
           NEW n \in Nat, NEW c, Followed(c, n)'
    PROVE  Followed(c, n)
<1>1. /\ c[0] = top
      /\ \A i \in 1 .. n : /\ c[i] \in steady' /\ parent'[c[i]] = c[i - 1]
                           /\ c[i - 1] \notin truncated' \cup overtaken'
                           /\ i > 1 => c[i - 1] \in Folders'
  BY DEF Followed, Leads
<1>2. \A a \in steady' : a \in steady /\ a \in Assets /\ parent'[a] = parent[a] /\ kind'[a] = kind[a]
  BY DEF TreeTypeOK, SteadyIsLive, Live, RowsKept
<1>3. SUFFICES ASSUME NEW i \in 1 .. n
               PROVE  /\ c[i] \in steady /\ parent[c[i]] = c[i - 1]
                      /\ c[i - 1] \notin truncated \cup overtaken
                      /\ i > 1 => c[i - 1] \in Folders
  BY <1>1 DEF Followed, Leads
<1>4. c[i] \in steady /\ parent[c[i]] = c[i - 1] /\ c[i - 1] \notin truncated \cup overtaken
  BY <1>1, <1>2, <1>3
<1>5. ASSUME i > 1 PROVE c[i - 1] \in Folders
  <2>1. i - 1 \in 1 .. n
    BY <1>3, <1>5
  <2>2. c[i - 1] \in steady' /\ c[i - 1] \in Folders'
    BY <1>1, <1>5, <2>1
  <2>3. QED
    BY <1>2, <2>2 DEF Folders
<1>6. QED
  BY <1>4, <1>5

\* A step that lists nothing and forgets no listing.
LEMMA ChainsCoveredKept ==
    ASSUME TreeTypeOK, SteadyIsLive, RowsKept, ChainsCovered, steady' \subseteq steady,
           top' = top, truncated' = truncated, overtaken' = overtaken, listed' = listed,
           \A p \in Nodes, n \in 1 .. MaxDepth : Pending(p, n) => Pending(p, n)'
    PROVE  ChainsCovered'
<1> SUFFICES ASSUME NEW n \in 1 .. MaxDepth, NEW c \in Chains(n), Followed(c, n)'
             PROVE  c[n] \in listed \/ \E i \in 0 .. n - 1 : Pending(c[i], i + 1)'
  BY DEF ChainsCovered, Chains, Nodes
<1>1. n \in Nat /\ MaxDepth \in Nat
  BY TreeAssumption
<1>2. Followed(c, n)
  BY <1>1, FollowedBefore
<1>3. \A i \in 0 .. n - 1 : c[i] \in Nodes /\ i + 1 \in 1 .. MaxDepth
  BY <1>1 DEF Chains
<1>4. QED
  BY <1>2, <1>3 DEF ChainsCovered

LEMMA StartCovers ==
    ASSUME TreeTypeOK, NEW r \in Nodes, StartWalk(r)
    PROVE  ChainsCovered'
<1> SUFFICES ASSUME NEW n \in 1 .. MaxDepth, NEW c \in Chains(n), Followed(c, n)'
             PROVE  \E i \in 0 .. n - 1 : Pending(c[i], i + 1)'
  BY DEF ChainsCovered, Chains, Nodes
<1>1. n \in Nat /\ MaxDepth \in Nat /\ 1 <= MaxDepth /\ 0 \in 0 .. n - 1
  BY TreeAssumption
<1>2. c[0] = r
  BY DEF StartWalk, Followed, Leads
<1>3. <<c[0], 0 + 1>> \in todo'
  BY <1>1, <1>2 DEF StartWalk, Due
<1>4. Pending(c[0], 0 + 1)'
  BY <1>3 DEF Pending
<1>5. QED
  BY <1>1, <1>4

\* A page leaves out nothing that is there, unless the node is marked.
LEMMA PageIsWhole ==
    ASSUME NEW p, NEW total \in Total, NEW page, Page(p, PageLimit, page),
           total <= Cardinality(page),
           ~(total < Cardinality(Children(p)) /\ PageLimit < Cardinality(Children(p)))
    PROVE  page = Children(p)
<1>1. Cardinality(Children(p)) \in Nat /\ Cardinality(Assets) \in Nat /\ PageLimit \in Nat
  BY ChildrenFacts, FS_CardinalityType, TreeAssumption DEF Total
<1>2. total \in Nat
  BY <1>1 DEF Total
<1>3. Cardinality(page) \in Nat
  BY <1>1 DEF Page
<1>4. \/ Cardinality(Children(p)) <= PageLimit
      \/ Cardinality(Children(p)) <= Cardinality(page)
  BY <1>1, <1>2, <1>3
<1>5. QED
  BY <1>1, <1>4, FullPage

LEMMA FetchCovers ==
    ASSUME TreeTypeOK, SteadyIsLive, WalkInv, walk # "idle", NEW p \in Nodes, NEW m \in 1 .. MaxDepth,
           NEW total \in Total, FetchChildren(p, m, total)
    PROVE  ChainsCovered'
<1> SUFFICES ASSUME NEW n \in 1 .. MaxDepth, NEW c \in Chains(n), Followed(c, n)'
             PROVE  c[n] \in listed' \/ \E i \in 0 .. n - 1 : Pending(c[i], i + 1)'
  BY DEF ChainsCovered, Chains, Nodes
<1>1. n \in Nat /\ MaxDepth \in Nat /\ n <= MaxDepth /\ m \in Nat
  BY TreeAssumption
<1>2. PICK page \in SUBSET Assets :
        /\ Page(p, PageLimit, page)
        /\ listed' = listed \cup page
        /\ todo' = todo \cup Due({<<a, m + 1>> : a \in {b \in page : kind[b] = "folder"}})
        /\ truncated' = IF total > Cardinality(page) THEN truncated \cup {p} ELSE truncated
  BY DEF FetchChildren
<1>3. /\ overtaken' = IF total < Cardinality(Children(p)) /\ PageLimit < Cardinality(Children(p))
                      THEN overtaken \cup {p} ELSE overtaken
      /\ <<p, m, total>> \in current /\ current' = {}
      /\ UNCHANGED <<kind, state, parent, top, steady>>
  BY DEF FetchChildren, rowVars
<1>4. Followed(c, n)
  <2>1. RowsKept
    BY <1>3 DEF RowsKept
  <2>2. truncated \subseteq truncated' /\ overtaken \subseteq overtaken' /\ steady' \subseteq steady
    BY <1>2, <1>3
  <2>3. QED
    BY <1>1, <1>3, <2>1, <2>2, FollowedBefore
<1>5. c[n] \in listed \/ \E i \in 0 .. n - 1 : Pending(c[i], i + 1)
  BY <1>4 DEF WalkInv, ChainsCovered
<1>6. CASE c[n] \in listed
  BY <1>2, <1>6
<1>7. ASSUME NEW i \in 0 .. n - 1, <<c[i], i + 1>> \in todo
      PROVE  Pending(c[i], i + 1)'
  BY <1>2, <1>7 DEF Pending
<1>8. ASSUME NEW i \in 0 .. n - 1, NEW t \in Total, <<c[i], i + 1, t>> \in current
      PROVE  c[n] \in listed' \/ \E j \in 0 .. n - 1 : Pending(c[j], j + 1)'
  <2>1. c[i] = p /\ i + 1 = m /\ t = total
    BY <1>3, <1>8 DEF WalkInv
  <2>2. i \in Nat /\ i + 1 \in 1 .. n /\ (i + 1) - 1 = i
    BY <1>1
  <2>3. c[i + 1] \in steady /\ parent[c[i + 1]] = p /\ p \notin truncated' \cup overtaken'
    <3>1. c[i + 1] \in steady' /\ parent'[c[i + 1]] = c[i] /\ c[i] \notin truncated' \cup overtaken'
      BY <2>2 DEF Followed, Leads
    <3>2. QED
      BY <1>3, <2>1, <3>1
  <2>4. c[i + 1] \in Children(p)
    BY <2>3 DEF Children, Live, SteadyIsLive
  <2>5. page = Children(p)
    <3>1. total \in Nat /\ Cardinality(page) \in Nat /\ ~(total > Cardinality(page))
      <4>1. Cardinality(Assets) \in Nat /\ Cardinality(Children(p)) \in Nat
        BY ChildrenFacts, FS_CardinalityType, TreeAssumption DEF Total
      <4>2. QED
        BY <1>2, <2>3, <4>1, TreeAssumption DEF Page, Total
    <3>2. total <= Cardinality(page)
      BY <3>1
    <3>3. QED
      BY <1>2, <1>3, <2>3, <3>2, PageIsWhole
  <2>6. CASE i + 1 = n
    BY <1>2, <2>4, <2>5, <2>6
  <2>7. CASE i + 1 # n
    <3>1. i + 2 \in 1 .. n /\ (i + 2) - 1 = i + 1 /\ i + 2 > 1 /\ i + 1 \in 0 .. n - 1
      BY <1>1, <2>2, <2>7
    <3>2. c[i + 1] \in Folders
      BY <1>4, <3>1 DEF Followed
    <3>3. <<c[i + 1], m + 1>> \in Due({<<a, m + 1>> : a \in {b \in page : kind[b] = "folder"}})
      <4>1. c[i + 1] \in {b \in page : kind[b] = "folder"}
        BY <2>4, <2>5, <3>2 DEF Folders
      <4>2. m + 1 <= MaxDepth
        BY <1>1, <2>1, <3>1
      <4>3. QED
        BY <4>1, <4>2 DEF Due
    <3>4. <<c[i + 1], (i + 1) + 1>> \in todo'
      BY <1>2, <2>1, <3>3
    <3>5. Pending(c[i + 1], (i + 1) + 1)'
      BY <3>4 DEF Pending
    <3>6. QED
      BY <3>1, <3>5
  <2>8. QED
    BY <2>6, <2>7
<1>9. QED
  BY <1>5, <1>6, <1>7, <1>8 DEF Pending

LEMMA WalkInvNext ==
    ASSUME TreeTypeOK, SteadyIsLive, WalkInv, [TreeNext]_treeVars
    PROVE  WalkInv'
<1> USE DEF TreeTypeOK
<1>1. RowsKept
  BY TreeRowsKept
<1>2. walk' = "idle" \/ walk # "idle" => steady' \subseteq steady
  BY TreeSteady
<1>3. CASE UNCHANGED walkVars
  <2>1. /\ UNCHANGED <<walk, top, todo, current, listed, truncated, overtaken>>
        /\ \A q, i : Pending(q, i) => Pending(q, i)'
    BY <1>3 DEF walkVars, Pending, Total
  <2>2. walk' # "idle" => ChainsCovered'
    BY <1>1, <1>2, <2>1, ChainsCoveredKept DEF WalkInv
  <2>3. QED
    BY <2>1, <2>2 DEF WalkInv
<1>4. ASSUME NEW r \in Nodes, StartWalk(r) PROVE WalkInv'
  <2>1. ChainsCovered'
    BY <1>4, StartCovers
  <2>2. walk' = "walking" /\ current' = {}
    BY <1>4 DEF StartWalk, WalkInv
  <2>3. QED
    BY <2>1, <2>2 DEF WalkInv
<1>5. ASSUME NEW p \in Nodes, NEW m \in 1 .. MaxDepth, CountChildren(p, m) PROVE WalkInv'
  <2>1. /\ current = {} /\ current' = {<<p, m, Cardinality(Children(p))>>}
        /\ <<p, m>> \in todo /\ todo' = todo \ {<<p, m>>}
        /\ UNCHANGED <<walk, top, listed, truncated, overtaken, steady>>
    BY <1>5 DEF CountChildren
  <2>2. walk = "walking"
    BY <2>1 DEF WalkInv
  <2>3. Cardinality(Children(p)) \in Total
    BY ChildrenFacts
  <2>4. ASSUME NEW q \in Nodes, NEW i \in 1 .. MaxDepth, Pending(q, i) PROVE Pending(q, i)'
    <3>1. <<q, i>> \in todo
      BY <2>1, <2>4 DEF Pending
    <3>2. CASE <<q, i>> = <<p, m>>
      BY <2>1, <2>3, <3>2 DEF Pending, Total
    <3>3. CASE <<q, i>> # <<p, m>>
      BY <2>1, <3>1, <3>3 DEF Pending
    <3>4. QED
      BY <3>2, <3>3
  <2>5. ChainsCovered'
    BY <1>1, <2>1, <2>2, <2>4, ChainsCoveredKept DEF WalkInv
  <2>6. QED
    BY <2>1, <2>2, <2>5 DEF WalkInv
<1>6. ASSUME NEW p \in Nodes, NEW m \in 1 .. MaxDepth, NEW total \in Total, FetchChildren(p, m, total)
      PROVE  WalkInv'
  <2>1. current # {} /\ current' = {} /\ walk' = walk
    BY <1>6 DEF FetchChildren
  <2>2. walk = "walking"
    BY <2>1 DEF WalkInv
  <2>3. ChainsCovered'
    BY <1>6, <2>2, FetchCovers
  <2>4. QED
    BY <2>1, <2>2, <2>3 DEF WalkInv
<1>7. CASE EndWalk
  <2>1. /\ walk = "walking" /\ walk' = "done" /\ todo = {} /\ current = {}
        /\ UNCHANGED <<top, todo, current, listed, truncated, overtaken, steady>>
        /\ \A q, i : Pending(q, i) => Pending(q, i)'
    BY <1>7 DEF EndWalk, Pending, Total
  <2>2. ChainsCovered'
    BY <1>1, <2>1, ChainsCoveredKept DEF WalkInv
  <2>3. QED
    BY <2>1, <2>2 DEF WalkInv
<1>8. QED
  BY <1>3, <1>4, <1>5, <1>6, <1>7
  DEF TreeNext, Walk, CheckParent, InitUpload, SyncRepo, InsertFolder, DeleteAsset, DeleteLookup,
      ListContents, CommitDelete, DeleteFails, treeVars, Total

\* The tree that is given has all that a chain of what is steady leads to.
LEMMA CoveredIsComplete ==
    ASSUME TreeTypeOK, WalkInv
    PROVE  TreeComplete
<1> SUFFICES ASSUME walk = "done", NEW a \in steady, NEW n \in 1 .. MaxDepth,
                    NEW c \in [0 .. n -> steady \cup {top}], c[n] = a, Leads(c, n, top, steady),
                    \A i \in 1 .. n : c[i - 1] \notin truncated \cup overtaken
                                      /\ (i > 1 => c[i - 1] \in Folders)
             PROVE  a \in listed
  BY DEF TreeComplete, Reachable
<1>1. c \in Chains(n)
  BY DEF TreeTypeOK, Chains, Nodes
<1>2. Followed(c, n)
  BY DEF Followed
<1>3. QED
  BY <1>1, <1>2 DEF WalkInv, ChainsCovered, Pending

-----------------------------------------------------------------------------
TreeInv == TreeTypeOK /\ SteadyIsLive /\ DeleteInv /\ WalkInv

LEMMA TreeInvInit == TreeInit => TreeInv
<1> SUFFICES ASSUME TreeInit PROVE TreeInv
  OBVIOUS
<1>1. TreeTypeOK
  BY TreeTypeInit
<1>2. SteadyIsLive /\ DeleteInv /\ WalkInv
  BY DEF TreeInit, SteadyIsLive, DeleteInv, WalkInv
<1>3. QED
  BY <1>1, <1>2 DEF TreeInv

LEMMA TreeInvNext == TreeInv /\ [TreeNext]_treeVars => TreeInv'
BY TreeTypeNext, TreeSteady, DeleteInvNext, WalkInvNext DEF TreeInv

\* However requests insert, delete and list, FolderTree's variables keep their types.
THEOREM TreeTypeCorrect == TreeSpec => []TreeTypeOK
<1>1. TreeInv => TreeTypeOK
  BY DEF TreeInv
<1>2. QED
  BY <1>1, TreeInvInit, TreeInvNext, PTL DEF TreeSpec

\* get_full_tree: what has been live throughout is in the tree, down to max_depth,
\* unless its listing is marked or was overtaken.
THEOREM TreeHoldsSteady == TreeSpec => []TreeComplete
<1>1. TreeInv => TreeComplete
  BY CoveredIsComplete DEF TreeInv
<1>2. QED
  BY <1>1, TreeInvInit, TreeInvNext, PTL DEF TreeSpec

\* delete_folder: what was directly in the folder when the delete arrived is not
\* left behind without it.
THEOREM FolderDeletesFit == TreeSpec => DeletesFitContents
<1>1. TreeInv /\ [TreeNext]_treeVars => [DeletesFit]_treeVars
  BY DeletesFitNext DEF TreeInv
<1>2. DeletesFitContents <=> [][DeletesFit]_treeVars
  BY PTL DEF DeletesFitContents, DeletesFit
<1>3. QED
  BY <1>1, <1>2, TreeInvInit, TreeInvNext, PTL DEF TreeSpec

-----------------------------------------------------------------------------
(* Paths, beside the tree. *)

LEMMA LevelsFacts ==
    ASSUME PathTypeOK
    PROVE  Levels \in 0 .. MaxSegments + 1
BY PathAssumption DEF PathTypeOK, Levels

\* The tree's part of a step: one of its own, or none while what is steady is
\* counted anew.
LEMMA PathStep ==
    ASSUME [PathNext]_<<treeVars, pathVars>>
    PROVE  \/ [TreeNext]_treeVars
           \/ \E endpoint, n, N : AskPath(endpoint, n, N)
BY DEF PathNext, LookUpSegment, Allow, Read, ListEntries, treeVars

LEMMA AskKeepsTree ==
    ASSUME TreeInv, NEW endpoint, NEW n, NEW N, AskPath(endpoint, n, N)
    PROVE  TreeInv' /\ RowsKept
<1>1. UNCHANGED <<rowVars, delVars, walkVars>> /\ steady' = Live /\ walk = "idle"
  BY DEF AskPath
<1>2. UNCHANGED <<kind, state, parent>> /\ Live' = Live /\ Live \subseteq Assets
  BY <1>1 DEF rowVars, Live
<1>3. TreeTypeOK' /\ SteadyIsLive'
  BY <1>1, <1>2 DEF TreeInv, TreeTypeOK, SteadyIsLive, rowVars, delVars, walkVars
<1>4. DeleteInv'
  BY <1>1, <1>2 DEF TreeInv, DeleteInv, delVars
<1>5. WalkInv'
  BY <1>1 DEF TreeInv, WalkInv, walkVars
<1>6. RowsKept
  BY <1>2 DEF RowsKept
<1>7. QED
  BY <1>3, <1>4, <1>5, <1>6 DEF TreeInv

LEMMA PathKeepsTree ==
    ASSUME TreeInv, [PathNext]_<<treeVars, pathVars>>
    PROVE  TreeInv' /\ RowsKept
BY PathStep, AskKeepsTree, TreeInvNext, TreeRowsKept DEF TreeInv

LEMMA PathTypeNext ==
    ASSUME TreeInv, PathTypeOK, [PathNext]_<<treeVars, pathVars>>
    PROVE  PathTypeOK'
<1> USE DEF PathTypeOK
<1>1. TreeTypeOK'
  BY PathKeepsTree DEF TreeInv
<1>2. Live \subseteq Assets /\ Live' \subseteq Assets
  BY DEF Live
<1>3. CASE TreeNext /\ seen' = (IF asking = "none" THEN seen ELSE seen \cup Live')
           /\ UNCHANGED <<asking, length, named, at, depth, answer, entries, cutOff>>
  BY <1>1, <1>2, <1>3
<1>4. ASSUME NEW endpoint \in {"acl", "read", "list"}, NEW n \in 0 .. MaxLength, NEW N \in SUBSET Assets,
             AskPath(endpoint, n, N)
      PROVE  PathTypeOK'
  BY <1>1, <1>2, <1>4 DEF AskPath
<1>5. CASE LookUpSegment
  <2>1. depth < Levels /\ Levels \in 0 .. MaxSegments + 1 /\ MaxSegments \in Nat
    BY <1>5, LevelsFacts, PathAssumption DEF LookUpSegment
  <2>2. at' \in Nodes /\ depth' \in {depth, depth + 1} /\ answer' \in {answer, "missing"}
    BY <1>5 DEF LookUpSegment, Nodes
  <2>3. depth' \in 0 .. MaxSegments + 1
    BY <2>1, <2>2
  <2>4. cutOff' \in BOOLEAN
    BY <1>5 DEF LookUpSegment
  <2>5. QED
    BY <1>1, <1>5, <2>2, <2>3, <2>4 DEF LookUpSegment
<1>6. CASE Allow
  BY <1>1, <1>6 DEF Allow
<1>7. CASE Read
  BY <1>1, <1>7 DEF Read
<1>8. CASE ListEntries
  BY <1>1, <1>8 DEF ListEntries
<1>9. CASE UNCHANGED <<treeVars, pathVars>>
  BY <1>1, <1>9 DEF pathVars
<1>10. QED
  BY <1>3, <1>4, <1>5, <1>6, <1>7, <1>8, <1>9 DEF PathNext

-----------------------------------------------------------------------------
(* What the request has seen, and where it stands. *)

SeenInv ==
    /\ \A b \in seen : state[b] \in {"live", "deleted"}
    /\ asking # "none" => Live \subseteq seen
    /\ asking = "none" => answer = "open" /\ at = Root /\ depth = 0 /\ cutOff = FALSE

LEMMA SeenInvNext ==
    ASSUME TreeInv, PathTypeOK, SeenInv, [PathNext]_<<treeVars, pathVars>>
    PROVE  SeenInv'
<1> USE DEF SeenInv, PathTypeOK, TreeTypeOK
<1>1. RowsKept /\ TreeTypeOK'
  BY PathKeepsTree DEF TreeInv
<1>2. \A b \in seen : b \in Assets /\ state'[b] \in {"live", "deleted"}
  BY <1>1 DEF RowsKept
<1>3. \A b \in Live' : state'[b] \in {"live", "deleted"}
  BY DEF Live
<1>4. CASE TreeNext /\ seen' = (IF asking = "none" THEN seen ELSE seen \cup Live')
           /\ UNCHANGED <<asking, length, named, at, depth, answer, entries, cutOff>>
  BY <1>2, <1>3, <1>4
<1>5. ASSUME NEW endpoint \in {"acl", "read", "list"}, NEW n, NEW N, AskPath(endpoint, n, N)
      PROVE  SeenInv'
  BY <1>5 DEF AskPath, rowVars, Live
<1>6. CASE LookUpSegment \/ Allow \/ Read \/ ListEntries
  <2>1. UNCHANGED <<kind, state, parent, asking, seen>> /\ asking # "none"
    BY <1>6 DEF LookUpSegment, Allow, Read, ListEntries, Resolving, rowVars
  <2>2. QED
    BY <2>1 DEF Live
<1>7. CASE UNCHANGED <<treeVars, pathVars>>
  BY <1>7 DEF pathVars, treeVars, rowVars, Live
<1>8. QED
  BY <1>4, <1>5, <1>6, <1>7 DEF PathNext

\* The request stands on the chain that is there steadily, and if it has ended, it
\* has ended where the chain does.
OnWay(c) ==
    /\ depth <= Levels /\ at = c[depth]
    /\ answer # "open" =>
          /\ depth = Levels
          /\ asking = "acl" => answer = "given"
          /\ asking = "list" /\ kind[c[Levels]] = "folder" =>
                answer = "given" /\ {b \in steady : parent[b] = c[Levels]} \subseteq entries

Resolves ==
    asking # "none" /\ length > 0 /\ ~cutOff =>
        \A c \in Chains(Levels) : Steadily(c, Levels) => OnWay(c)

\* A chain that is there steadily after a step was so before it.
LEMMA SteadilyBefore ==
    ASSUME PathTypeOK, SteadyIsLive, SeenInv, RowsKept, steady' \subseteq steady, seen \subseteq seen',
           UNCHANGED <<named, asking>>, NEW n \in Nat, NEW c, Steadily(c, n)'
    PROVE  Steadily(c, n)
<1>1. \A a \in steady' : a \in steady /\ a \in Assets /\ parent'[a] = parent[a] /\ kind'[a] = kind[a]
  BY DEF PathTypeOK, TreeTypeOK, SteadyIsLive, Live, RowsKept
<1>2. \A b \in seen : b \in Assets /\ parent'[b] = parent[b] /\ kind'[b] = kind[b]
  BY DEF PathTypeOK, SeenInv, RowsKept
<1>3. /\ c[0] = Root
      /\ \A i \in 1 .. n :
            /\ c[i] \in steady' /\ parent'[c[i]] = c[i - 1]
            /\ Candidate(c[i], i)'
            /\ \A b \in seen' : parent'[b] = parent'[c[i]] /\ Candidate(b, i)' => b = c[i]
  BY DEF Steadily, Leads
<1>4. ASSUME NEW i \in 1 .. n
      PROVE  /\ c[i] \in steady /\ parent[c[i]] = c[i - 1] /\ Candidate(c[i], i)
             /\ \A b \in seen : parent[b] = parent[c[i]] /\ Candidate(b, i) => b = c[i]
  <2>1. c[i] \in steady' /\ c[i] \in steady /\ parent[c[i]] = c[i - 1] /\ kind'[c[i]] = kind[c[i]]
    BY <1>1, <1>3, <1>4
  <2>2. Candidate(c[i], i)
    BY <1>3, <1>4, <2>1 DEF Candidate
  <2>3. ASSUME NEW b \in seen, parent[b] = parent[c[i]], Candidate(b, i) PROVE b = c[i]
    <3>1. b \in seen' /\ parent'[b] = parent'[c[i]]
      BY <1>1, <1>2, <2>1, <2>3
    <3>2. Candidate(b, i)'
      BY <1>2, <2>3 DEF Candidate
    <3>3. QED
      BY <1>3, <1>4, <3>1, <3>2
  <2>4. QED
    BY <2>1, <2>2, <2>3
<1>5. QED
  BY <1>3, <1>4 DEF Steadily, Leads

LEMMA LookUpResolves ==
    ASSUME TreeInv, PathTypeOK, SeenInv, Resolves, LookUpSegment
    PROVE  Resolves'
<1>1. /\ UNCHANGED <<kind, state, parent, steady, asking, length, named, entries, seen>>
      /\ asking # "none" /\ answer = "open" /\ depth < Levels
  BY DEF LookUpSegment, Resolving, rowVars
<1>2. SUFFICES ASSUME length > 0, ~cutOff', NEW c \in Chains(Levels), Steadily(c, Levels)
               PROVE  OnWay(c)'
  <2>1. Levels' = Levels /\ \A c, n : Steadily(c, n)' <=> Steadily(c, n)
    BY <1>1 DEF Levels, Steadily, Leads, Candidate
  <2>2. QED
    BY <1>1, <2>1 DEF Resolves, Chains, Nodes
<1>3. PICK page \in SUBSET Assets :
        /\ cutOff' = (cutOff \/ page # Children(at))
        /\ \/ /\ \E a \in page : Fits(a) /\ at' = a
              /\ depth' = depth + 1
              /\ UNCHANGED answer
           \/ \A a \in page : ~Fits(a)
  BY DEF LookUpSegment
<1>4. page = Children(at) /\ ~cutOff
  BY <1>2, <1>3
<1>5. at = c[depth]
  BY <1>1, <1>2, <1>4 DEF Resolves, OnWay
<1>6. depth \in Nat /\ Levels \in Nat /\ depth + 1 \in 1 .. Levels /\ (depth + 1) - 1 = depth
  BY <1>1, LevelsFacts, PathAssumption DEF PathTypeOK
<1>7. /\ c[depth + 1] \in steady /\ parent[c[depth + 1]] = at /\ Candidate(c[depth + 1], depth + 1)
      /\ \A b \in seen : parent[b] = at /\ Candidate(b, depth + 1) => b = c[depth + 1]
  BY <1>2, <1>5, <1>6 DEF Steadily, Leads
<1>8. \A a : Fits(a) <=> Candidate(a, depth + 1)
  BY <1>6 DEF Fits, Candidate
<1>9. c[depth + 1] \in page
  BY <1>4, <1>7 DEF TreeInv, SteadyIsLive, Children, Live
<1>10. PICK a \in page : Fits(a) /\ at' = a /\ depth' = depth + 1 /\ answer' = answer
  BY <1>3, <1>7, <1>8, <1>9
<1>11. a \in Live /\ parent[a] = at /\ a \in seen
  BY <1>1, <1>4, <1>10 DEF Children, SeenInv
<1>12. at' = c[depth']
  BY <1>7, <1>8, <1>10, <1>11
<1>13. depth' <= Levels' /\ answer' = "open"
  BY <1>1, <1>6, <1>10 DEF Levels
<1>14. QED
  BY <1>12, <1>13 DEF OnWay

LEMMA EndResolves ==
    ASSUME TreeInv, PathTypeOK, Resolves, Allow \/ Read \/ ListEntries
    PROVE  Resolves'
<1>1. /\ UNCHANGED <<kind, state, parent, steady, asking, length, named, seen, at, depth>>
      /\ asking # "none" /\ depth = Levels
  BY DEF Allow, Read, ListEntries, Resolving, rowVars
<1>2. Levels' = Levels
  BY <1>1 DEF Levels
<1>3. SUFFICES ASSUME length > 0, ~cutOff', NEW c \in Chains(Levels), Steadily(c, Levels)
               PROVE  OnWay(c)'
  BY <1>1, <1>2 DEF Resolves, Chains, Nodes, Steadily, Leads, Candidate
<1>4. ~cutOff
  BY <1>3 DEF Allow, Read, ListEntries
<1>5. at = c[depth] /\ Levels \in Nat
  BY <1>1, <1>3, <1>4, LevelsFacts DEF Resolves, OnWay
<1>6. asking = "acl" => answer' = "given"
  BY DEF Allow, Read, ListEntries
<1>7. ASSUME asking = "list", kind[at] = "folder"
      PROVE  answer' = "given" /\ {b \in steady : parent[b] = at} \subseteq entries'
  <2>1. ListEntries
    BY <1>7 DEF Allow, Read
  <2>2. answer' = "given" /\ entries' = Children(at)
    BY <1>3, <1>7, <2>1 DEF ListEntries
  <2>3. {b \in steady : parent[b] = at} \subseteq Children(at)
    BY DEF TreeInv, SteadyIsLive, Children, Live
  <2>4. QED
    BY <2>2, <2>3
<1>8. QED
  BY <1>1, <1>2, <1>5, <1>6, <1>7 DEF OnWay

LEMMA ResolvesNext ==
    ASSUME TreeInv, PathTypeOK, SeenInv, Resolves, [PathNext]_<<treeVars, pathVars>>
    PROVE  Resolves'
<1>1. RowsKept
  BY PathKeepsTree
<1>2. CASE /\ answer = "open" /\ TreeNext
           /\ asking # "none" => walk' = "idle" /\ UNCHANGED delVars
           /\ seen' = IF asking = "none" THEN seen ELSE seen \cup Live'
           /\ UNCHANGED <<asking, length, named, at, depth, answer, entries, cutOff>>
  <2>1. SUFFICES ASSUME asking # "none", length > 0, ~cutOff, NEW c \in Chains(Levels), Steadily(c, Levels)'
                 PROVE  OnWay(c)'
    BY <1>2 DEF Resolves, Levels, Chains, Nodes, Steadily, Leads, Candidate
  <2>2. steady' \subseteq steady /\ seen \subseteq seen'
    BY <1>2, <2>1, TreeSteady DEF TreeInv
  <2>3. Levels \in Nat /\ Levels' = Levels
    BY <1>2, LevelsFacts, PathAssumption DEF Levels
  <2>4. Steadily(c, Levels)
    BY <1>1, <1>2, <2>1, <2>2, <2>3, SteadilyBefore DEF TreeInv
  <2>5. OnWay(c)
    BY <2>1, <2>4 DEF Resolves
  <2>6. QED
    BY <1>2, <2>3, <2>5 DEF OnWay
<1>3. ASSUME NEW endpoint \in {"acl", "read", "list"}, NEW n, NEW N, AskPath(endpoint, n, N)
      PROVE  Resolves'
  <2>1. asking = "none" /\ length' = n /\ UNCHANGED <<at, depth, cutOff>>
        /\ answer' = IF endpoint = "acl" /\ n = 0 THEN "missing" ELSE "open"
    BY <1>3 DEF AskPath
  <2>2. at' = Root /\ depth' = 0
    BY <2>1 DEF SeenInv
  <2>3. SUFFICES ASSUME length' > 0, NEW c, Steadily(c, Levels)' PROVE OnWay(c)'
    BY DEF Resolves
  <2>4. answer' = "open" /\ c[0] = Root
    BY <2>1, <2>3 DEF Steadily, Leads
  <2>5. 0 <= Levels'
    <3>1. length' \in 0 .. MaxLength /\ MaxLength \in Nat /\ MaxSegments \in Nat
      BY PathTypeNext, PathAssumption DEF PathTypeOK
    <3>2. length' \in Nat /\ MaxSegments \in Nat
      BY <3>1
    <3>3. (IF length' < MaxSegments THEN length' ELSE MaxSegments) \in Nat
      BY <3>2
    <3>4. (IF asking' = "acl" THEN 0 ELSE 1) \in Nat
      OBVIOUS
    <3>5. QED
      BY <3>3, <3>4 DEF Levels
  <2>6. QED
    BY <2>2, <2>4, <2>5 DEF OnWay
<1>4. CASE UNCHANGED <<treeVars, pathVars>>
  <2>1. UNCHANGED <<kind, parent, steady, asking, length, named, at, depth, answer, entries, seen, cutOff>>
    BY <1>4 DEF pathVars, treeVars, rowVars
  <2>2. Levels' = Levels /\ \A c, n : Steadily(c, n)' <=> Steadily(c, n)
    BY <2>1 DEF Levels, Steadily, Leads, Candidate
  <2>3. \A c : OnWay(c)' <=> OnWay(c)
    BY <2>1, <2>2 DEF OnWay
  <2>4. QED
    BY <2>1, <2>2, <2>3 DEF Resolves, Chains, Nodes
<1>5. QED
  BY <1>2, <1>3, <1>4, LookUpResolves, EndResolves DEF PathNext

PathInv == TreeInv /\ PathTypeOK /\ SeenInv /\ Resolves

LEMMA PathInvInit == PathInit => PathInv
<1> SUFFICES ASSUME PathInit PROVE PathInv
  OBVIOUS
<1>1. TreeInv /\ TreeTypeOK
  BY TreeInvInit DEF PathInit, TreeInv
<1>2. PathTypeOK
  <2>1. length \in 0 .. MaxLength /\ depth \in 0 .. MaxSegments + 1
    BY PathAssumption DEF PathInit
  <2>2. at \in Nodes /\ cutOff \in BOOLEAN
    BY DEF PathInit, Nodes
  <2>3. QED
    BY <1>1, <2>1, <2>2 DEF PathInit, PathTypeOK
<1>3. SeenInv /\ Resolves
  BY DEF PathInit, SeenInv, Resolves
<1>4. QED
  BY <1>1, <1>2, <1>3 DEF PathInv

LEMMA PathInvNext == PathInv /\ [PathNext]_<<treeVars, pathVars>> => PathInv'
BY PathKeepsTree, PathTypeNext, SeenInvNext, ResolvesNext DEF PathInv

\* However the tree changes beside the request, the variables keep their types.
THEOREM PathTypeCorrect == PathSpec => []PathTypeOK
<1>1. PathInv => PathTypeOK
  BY DEF PathInv
<1>2. QED
  BY <1>1, PathInvInit, PathInvNext, PTL DEF PathSpec

LEMMA ResolvesIsSteady ==
    ASSUME PathInv
    PROVE  SteadyPathsResolve
<1> SUFFICES ASSUME answer # "open", length > 0, ~cutOff, NEW a \in steady,
                    NEW c \in [0 .. Levels -> steady \cup {Root}], c[Levels] = a, Steadily(c, Levels)
             PROVE  /\ at = a /\ depth = Levels
                    /\ asking = "acl" => answer = "given"
                    /\ asking = "list" /\ kind[a] = "folder" =>
                          answer = "given" /\ {b \in steady : parent[b] = a} \subseteq entries
  BY DEF SteadyPathsResolve, Unmistaken
<1>1. asking # "none"
  BY DEF PathInv, SeenInv
<1>2. c \in Chains(Levels)
  BY DEF PathInv, PathTypeOK, TreeTypeOK, Chains, Nodes
<1>3. OnWay(c)
  BY <1>1, <1>2 DEF PathInv, Resolves
<1>4. QED
  BY <1>3 DEF OnWay

\* _resolve_path, _resolve and list_files: a path that is there throughout, and no
\* other's, leads to its asset, and a listing has all that is there throughout.
THEOREM PathsResolve == PathSpec => []SteadyPathsResolve
<1>1. PathInv => SteadyPathsResolve
  BY ResolvesIsSteady
<1>2. QED
  BY <1>1, PathInvInit, PathInvNext, PTL DEF PathSpec

\* The tree is as complete, and the deletes fit as well, beside a request for a path.
THEOREM TreeHoldsSteadyBesidePaths == PathSpec => []TreeComplete
<1>1. PathInv => TreeComplete
  BY CoveredIsComplete DEF PathInv, TreeInv
<1>2. QED
  BY <1>1, PathInvInit, PathInvNext, PTL DEF PathSpec

\* delete_folder leaves nothing behind, whether or not a path is resolved meanwhile.
THEOREM FolderDeletesFitBesidePaths == PathSpec => DeletesFitContents
<1>1. PathInv /\ [PathNext]_<<treeVars, pathVars>> => [DeletesFit]_treeVars
  <2>1. SUFFICES ASSUME PathInv, \E endpoint, n, N : AskPath(endpoint, n, N) PROVE DeletesFit
    BY PathStep, DeletesFitNext DEF PathInv, TreeInv
  <2>2. delPc' = delPc
    BY <2>1 DEF AskPath, delVars
  <2>3. QED
    BY <2>2 DEF DeletesFit
<1>2. DeletesFitContents <=> [][DeletesFit]_treeVars
  BY PTL DEF DeletesFitContents, DeletesFit
<1>3. QED
  BY <1>1, <1>2, PathInvInit, PathInvNext, PTL DEF PathSpec

-----------------------------------------------------------------------------
(* AccessTokens. *)

USE TokensAssumption

AllOrgs == Orgs \cup {OwnOrg[u] : u \in Users}

LEMMA MappedRange ==
    ASSUME NEW x
    PROVE  /\ Mapped(x) \in {"viewer", "editor", "admin", "owner", None}
           /\ Mapped(x) # None => {Mapped(x)} \subseteq Roles
BY DEF Mapped, None, Roles

LEMMA LoginsAreTokens == Logins \subseteq Token
<1>1. ASSUME NEW u \in Users, NEW uid \in BOOLEAN
      PROVE  Login(u, uid) \in Token
  BY <1>1 DEF Login, Token
<1>2. QED
  BY <1>1 DEF Logins

\* What a look-up may be told.
LEMMA OrgOfType ==
    ASSUME NEW t \in Token, NEW trust \in BOOLEAN, NEW o \in Orgs \cup {None}
    PROVE  OrgOf(t, trust, o) \in AllOrgs
<1>1. t.org \in AllOrgs \cup {None} /\ t.user \in Users
  BY DEF Token, AllOrgs
<1>2. QED
  BY <1>1 DEF OrgOf, AllOrgs

LEMMA RolesOfType ==
    ASSUME NEW t \in Token, NEW trust \in BOOLEAN, NEW x
    PROVE  RolesOf(t, trust, x) \in SUBSET Roles
<1>1. t.roles \in SUBSET Roles
  BY DEF Token
<1>2. Default \in SUBSET Roles
  BY DEF Default, Roles
<1>3. QED
  BY <1>1, <1>2, MappedRange DEF RolesOf

LEMMA FoundOrgType ==
    ASSUME TypeOK, NEW t \in Token
    PROVE  FoundOrg(t) \subseteq Orgs \cup {None}
<1>1. t.user \in Users
  BY DEF Token
<1>2. QED
  BY <1>1 DEF FoundOrg, Found, TypeOK

\* A request that begins is on, for one of the organizations there are.
LEMMA BeginType ==
    ASSUME TypeOK, NEW r \in Requests, NEW t \in Token, NEW via \in Endpoints,
           NEW trust \in BOOLEAN, Begin(r, t, via, trust)
    PROVE  TypeOK'
<1>1. PICK o \in FoundOrg(t) :
          req' = [req EXCEPT ![r] =
              [on |-> TRUE, token |-> t, via |-> via, trust |-> trust, known |-> ~t.uid,
               org |-> OrgOf(t, trust, o),
               roles |-> IF t.uid THEN {} ELSE RolesOf(t, trust, None), began |-> now]]
  BY DEF Begin
<1> DEFINE q == [on |-> TRUE, token |-> t, via |-> via, trust |-> trust, known |-> ~t.uid,
                 org |-> OrgOf(t, trust, o),
                 roles |-> IF t.uid THEN {} ELSE RolesOf(t, trust, None), began |-> now]
<1>2. OrgOf(t, trust, o) \in AllOrgs
  BY OrgOfType, FoundOrgType
<1>3. (IF t.uid THEN {} ELSE RolesOf(t, trust, None)) \in SUBSET Roles
  BY RolesOfType
<1>4. t.uid \in BOOLEAN
  BY DEF Token
<1>5. q \in Busy
  BY <1>2, <1>3, <1>4 DEF Busy, AllOrgs, TypeOK
<1>6. req' \in [Requests -> {Idle} \cup Busy]
  BY <1>1, <1>5 DEF TypeOK
<1>7. QED
  BY <1>6 DEF TypeOK, Begin, world

LEMMA IssueType ==
    ASSUME TypeOK, NEW t \in Token, Issue(t)
    PROVE  (issued \subseteq Token)'
BY DEF TypeOK, Issue

LEMMA EndType ==
    ASSUME TypeOK, NEW r \in Requests, End(r)
    PROVE  (req \in [Requests -> {Idle} \cup Busy])'
BY DEF TypeOK, End

\* What a request under way is.
LEMMA OnIsBusy ==
    ASSUME TypeOK, NEW r \in Requests, req[r].on
    PROVE  /\ req[r] \in Busy
           /\ req[r].token \in Token /\ req[r].org \in AllOrgs /\ req[r].roles \in SUBSET Roles
           /\ req[r].token.user \in Users
<1>1. req[r] \in Busy
  BY DEF TypeOK, Idle
<1>2. QED
  BY <1>1 DEF Busy, Token, AllOrgs

LEMMA PermissionsAreKnown ==
    ASSUME NEW S \in SUBSET Roles
    PROVE  FromToken(S) \subseteq FromToken(Roles)
BY DEF FromToken

\* A token minted with req[r] for a role, or for its own roles.
LEMMA MintedType ==
    ASSUME TypeOK, NEW r \in Requests, req[r].on, NEW k \in {"session", "agent", "collaborator"},
           NEW S \in SUBSET Roles, NEW scopes \in SUBSET FromToken(Roles), NEW life \in Nat
    PROVE  [kind |-> k, user |-> req[r].token.user, uid |-> FALSE, org |-> req[r].org,
            roles |-> S, scopes |-> scopes, exp |-> now + life] \in Token
<1>1. now + life \in Nat
  BY DEF TypeOK
<1>2. QED
  BY <1>1, OnIsBusy DEF Token, AllOrgs

LEMMA WasType ==
    ASSUME NEW t \in 0 .. MaxTime, NEW act, NEW old \in [Users -> [Orgs -> 0 .. MaxTime + 1]]
    PROVE  Was(t, act, old) \in [Users -> [Orgs -> 0 .. MaxTime + 1]]
<1>1. ASSUME NEW u \in Users, NEW o \in Orgs
      PROVE  (IF act[u] = o THEN t + 1 ELSE old[u][o]) \in 0 .. MaxTime + 1
  <2>1. old[u] \in [Orgs -> 0 .. MaxTime + 1]
    OBVIOUS
  <2>2. old[u][o] \in 0 .. MaxTime + 1
    BY <2>1
  <2>3. t + 1 \in 0 .. MaxTime + 1
    OBVIOUS
  <2>4. QED
    BY <2>2, <2>3
<1>2. QED
  BY <1>1 DEF Was

LEMMA TypeInit == Init => TypeOK
<1> SUFFICES ASSUME Init PROVE TypeOK
  OBVIOUS
<1>1. was \in [Users -> [Orgs -> 0 .. MaxTime + 1]]
  <2>1. [u \in Users |-> [o \in Orgs |-> 0]] \in [Users -> [Orgs -> 0 .. MaxTime + 1]]
    OBVIOUS
  <2>2. 0 \in 0 .. MaxTime
    OBVIOUS
  <2>3. QED
    BY <2>1, <2>2, WasType DEF Init
<1>2. ever \subseteq Orgs \X {"owner", "admin"}
  BY DEF Init, Standing
<1>3. now \in 0 .. MaxTime /\ changes \in 0 .. MaxChanges
  BY DEF Init
<1>4. req \in [Requests -> {Idle} \cup Busy]
  BY DEF Init
<1>5. QED
  BY <1>1, <1>2, <1>3, <1>4 DEF Init, TypeOK

\* The steps of the world.
LEMMA TypeWorld ==
    ASSUME TypeOK
    PROVE  /\ Tick => TypeOK'
           /\ \A u \in Users, o \in Orgs \cup {None} : Switch(u, o) => TypeOK'
           /\ \A u \in Users, o \in Orgs, x \in OrgRoles \cup {None} : SetRole(u, o, x) => TypeOK'
           /\ \A u \in Users : BackendMints(u) => TypeOK'
           /\ \A t \in issued : Forget(t) => TypeOK'
<1> USE DEF TypeOK
<1>1. ASSUME Tick PROVE TypeOK'
  <2>2. was' \in [Users -> [Orgs -> 0 .. MaxTime + 1]]
    <3>1. now + 1 \in 0 .. MaxTime
      BY <1>1 DEF Tick
    <3>2. QED
      BY <1>1, <3>1, WasType DEF Tick
  <2>3. QED
    BY <1>1, <2>2 DEF Tick
<1>2. ASSUME NEW u \in Users, NEW o \in Orgs \cup {None}, Switch(u, o) PROVE TypeOK'
  <2>1. was' \in [Users -> [Orgs -> 0 .. MaxTime + 1]]
    BY <1>2, WasType DEF Switch
  <2>2. active' \in [Users -> Orgs \cup {None}] /\ changes' \in 0 .. MaxChanges
    BY <1>2 DEF Switch
  <2>3. QED
    BY <1>2, <2>1, <2>2 DEF Switch
<1>3. ASSUME NEW u \in Users, NEW o \in Orgs, NEW x \in OrgRoles \cup {None}, SetRole(u, o, x)
      PROVE  TypeOK'
  <2>1. member' \in [Users -> [Orgs -> OrgRoles \cup {None}]]
    <3>1. member[u] \in [Orgs -> OrgRoles \cup {None}]
      OBVIOUS
    <3>2. [member[u] EXCEPT ![o] = x] \in [Orgs -> OrgRoles \cup {None}]
      BY <3>1
    <3>3. QED
      BY <1>3, <3>2 DEF SetRole
  <2>2. ever' \subseteq Orgs \X {"owner", "admin"}
    BY <1>3 DEF SetRole, Standing
  <2>3. changes' \in 0 .. MaxChanges
    BY <1>3 DEF SetRole
  <2>4. QED
    BY <1>3, <2>1, <2>2, <2>3 DEF SetRole
<1>4. ASSUME NEW u \in Users, BackendMints(u) PROVE TypeOK'
  <2>1. PICK life \in Lives :
            Issue([kind |-> "backend", user |-> u, uid |-> TRUE, org |-> active[u],
                   roles |-> {Mapped(member[u][active[u]])}, scopes |-> {}, exp |-> now + life])
    BY <1>4 DEF BackendMints
  <2>2. {Mapped(member[u][active[u]])} \subseteq Roles
    BY <1>4, MappedRange DEF BackendMints
  <2>3. [kind |-> "backend", user |-> u, uid |-> TRUE, org |-> active[u],
         roles |-> {Mapped(member[u][active[u]])}, scopes |-> {}, exp |-> now + life] \in Token
    BY <1>4, <2>2 DEF Token
  <2>4. QED
    BY <1>4, <2>1, <2>3, IssueType DEF BackendMints, world
<1>5. ASSUME NEW t \in issued, Forget(t) PROVE TypeOK'
  BY <1>5 DEF Forget, world
<1>6. QED
  BY <1>1, <1>2, <1>3, <1>4, <1>5

\* The steps of a request that has been authenticated.
LEMMA TypeRequest ==
    ASSUME TypeOK, NEW r \in Requests
    PROVE  /\ LookUpRole(r) => TypeOK'
           /\ MintSession(r) => TypeOK'
           /\ \A x \in Asked, extra \in Extras, life \in Lives : MintAgent(r, x, extra, life) => TypeOK'
           /\ \A x \in Asked, life \in Lives : MintCollaborator(r, x, life) => TypeOK'
           /\ \A p \in EndpointNeeds : Serve(r, p) => TypeOK'
           /\ Refuse(r) => TypeOK'
<1>1. ASSUME LookUpRole(r) PROVE TypeOK'
  <2>1. PICK x : req' = [req EXCEPT ![r] =
                     [@ EXCEPT !.known = TRUE, !.roles = RolesOf(req[r].token, req[r].trust, x)]]
    BY <1>1 DEF LookUpRole
  <2>2. RolesOf(req[r].token, req[r].trust, x) \in SUBSET Roles
    BY <1>1, OnIsBusy, RolesOfType DEF LookUpRole, Busy
  <2>3. [req[r] EXCEPT !.known = TRUE, !.roles = RolesOf(req[r].token, req[r].trust, x)] \in Busy
    <3>1. req[r] \in Busy
      BY <1>1, OnIsBusy DEF LookUpRole
    <3>2. QED
      BY <2>2, <3>1 DEF Busy
  <2>4. QED
    BY <1>1, <2>1, <2>3 DEF LookUpRole, TypeOK, world
<1>2. ASSUME NEW t \in Token, Issue(t), End(r), UNCHANGED world PROVE TypeOK'
  BY <1>2, IssueType, EndType DEF TypeOK, world
<1>3. ASSUME MintSession(r) PROVE TypeOK'
  <2>1. req[r].on
    BY <1>3 DEF MintSession, Handled
  <2>2. [kind |-> "session", user |-> req[r].token.user, uid |-> FALSE, org |-> req[r].org,
         roles |-> req[r].roles, scopes |-> {}, exp |-> now + SessionLife] \in Token
    BY <2>1, MintedType, OnIsBusy
  <2>3. QED
    BY <1>2, <1>3, <2>2 DEF MintSession
<1>4. ASSUME NEW k \in {"agent", "collaborator"}, NEW x \in Asked, NEW extra, NEW life \in Lives,
             req[r].on, extra \subseteq FromToken(req[r].roles)
      PROVE  Minted(r, k, x, extra, life) \in Token
  <2>1. {x} \in SUBSET Roles
    BY DEF Roles, AgentRoles
  <2>2. Permissions(x) \subseteq FromToken(Roles)
    BY <2>1 DEF FromToken
  <2>3. extra \subseteq FromToken(Roles)
    BY <1>4, OnIsBusy, PermissionsAreKnown
  <2>4. QED
    BY <1>4, <2>1, <2>2, <2>3, MintedType DEF Minted
<1>5. ASSUME NEW x \in Asked, NEW extra \in Extras, NEW life \in Lives, MintAgent(r, x, extra, life)
      PROVE  TypeOK'
  BY <1>2, <1>4, <1>5 DEF MintAgent, Handled, MayGrant
<1>6. ASSUME NEW x \in Asked, NEW life \in Lives, MintCollaborator(r, x, life)
      PROVE  TypeOK'
  BY <1>2, <1>4, <1>6 DEF MintCollaborator, Handled
<1>7. ASSUME NEW p \in EndpointNeeds, Serve(r, p) PROVE TypeOK'
  BY <1>7, EndType DEF Serve, TypeOK, world
<1>8. ASSUME Refuse(r) PROVE TypeOK'
  BY <1>8, EndType DEF Refuse, TypeOK, world
<1>9. QED
  BY <1>1, <1>3, <1>5, <1>6, <1>7, <1>8

LEMMA TypeNext ==
    ASSUME TypeOK, [Next]_vars
    PROVE  TypeOK'
<1>1. ASSUME NEW r \in Requests, NEW t \in Logins \cup issued,
             \/ Authenticate(r, t) \/ AuthenticateExchange(r, t)
             \/ AuthenticateContext(r, t) \/ AuthenticateSocket(r, t)
      PROVE  TypeOK'
  <2>1. t \in Token
    BY LoginsAreTokens DEF TypeOK
  <2>2. OwnToken(t) \in BOOLEAN
    BY DEF OwnToken
  <2>3. QED
    BY <1>1, <2>1, <2>2, BeginType
       DEF Authenticate, AuthenticateContext, AuthenticateSocket, AuthenticateExchange, Endpoints
<1>2. CASE UNCHANGED vars
  BY <1>2 DEF vars, world, TypeOK
<1>3. QED
  BY <1>1, <1>2, TypeWorld, TypeRequest DEF Next

-----------------------------------------------------------------------------
(***************************************************************************)
(* AuthorityIsRooted says too little of tokens to be inductive: a token    *)
(* of this service has an organization and is never looked up again, a     *)
(* login has neither an organization nor roles, and a request trusts its   *)
(* token just when its endpoint does.                                      *)
(***************************************************************************)
SoundToken(t) ==
    /\ OwnToken(t) => ~t.uid /\ t.org # None
    /\ t.kind = "login" => t.org = None
    /\ IF t.org = None THEN t.roles = {} /\ t.scopes = {}
       ELSE t.roles \subseteq Rooted(t.org) /\ t.scopes \subseteq FromToken(Rooted(t.org))

\* The roles that may be acted in for any organization at all.
RootedAnywhere == UNION {Rooted(o) : o \in Orgs}

SoundRequest(q) ==
    /\ SoundToken(q.token)
    /\ ~q.known => q.token.uid
    /\ q.via = "rest" => q.trust = OwnToken(q.token)
    /\ q.via = "exchange" => q.token.kind = "login"
    /\ IF q.via \in {"context", "socket"} THEN q.roles \subseteq RootedAnywhere ELSE q.roles \subseteq Rooted(q.org)

RootedInv ==
    /\ TypeOK
    /\ Standing(member) \subseteq ever
    /\ \A t \in issued : SoundToken(t)
    /\ \A r \in Requests : req[r].on => SoundRequest(req[r])

LEMMA RootedGrows ==
    ASSUME ever \subseteq ever'
    PROVE  /\ \A o : Rooted(o) \subseteq Rooted(o)'
           /\ \A o : FromToken(Rooted(o)) \subseteq FromToken(Rooted(o))'
           /\ RootedAnywhere \subseteq RootedAnywhere'
<1>1. \A o : Rooted(o) \subseteq Rooted(o)'
  BY DEF Rooted
<1>2. QED
  BY <1>1 DEF FromToken, RootedAnywhere

LEMMA SoundStays ==
    ASSUME ever \subseteq ever'
    PROVE  /\ \A t : SoundToken(t) => SoundToken(t)'
           /\ \A q : SoundRequest(q) => SoundRequest(q)'
<1>1. \A t : SoundToken(t) => SoundToken(t)'
  BY RootedGrows DEF SoundToken, OwnToken
<1>2. QED
  BY <1>1, RootedGrows DEF SoundRequest, OwnToken

LEMMA LoginsAreSound == \A t \in Logins : SoundToken(t)
BY DEF Logins, Login, SoundToken, OwnToken

\* A role that was looked up is held by a member, and one that was not is the
\* default.
LEMMA LookedUpIsRooted ==
    ASSUME RootedInv, NEW u \in Users, NEW o \in AllOrgs, NEW x \in Found(RoleIn(u, o))
    PROVE  /\ Mapped(x) # None => Mapped(x) \in Rooted(o)
           /\ Default \subseteq Rooted(o)
<1>1. CASE x = None
  BY <1>1 DEF Mapped, None, Default, Rooted
<1>2. CASE o \in Orgs /\ x = member[u][o]
  <2>1. CASE Mapped(x) \in {"owner", "admin"}
    <3>1. <<o, Mapped(x)>> \in Standing(member)
      BY <1>2, <2>1 DEF Standing
    <3>2. <<o, Mapped(x)>> \in ever
      BY <3>1 DEF RootedInv
    <3>3. QED
      BY <2>1, <3>2 DEF Rooted, Default
  <2>2. QED
    BY <2>1, MappedRange DEF Rooted, Default
<1>3. QED
  BY <1>1, <1>2 DEF Found, RoleIn

LEMMA RootedSomewhere ==
    ASSUME TypeOK, NEW o \in AllOrgs
    PROVE  Rooted(o) \subseteq RootedAnywhere
<1>1. CASE o \in Orgs
  BY <1>1 DEF RootedAnywhere
<1>2. CASE o \notin Orgs
  <2>1. Rooted(o) = {"viewer", "editor"}
    BY <1>2 DEF TypeOK, Rooted
  <2>2. PICK p \in Orgs : TRUE
    OBVIOUS
  <2>3. {"viewer", "editor"} \subseteq Rooted(p)
    BY DEF Rooted
  <2>4. QED
    BY <2>1, <2>3 DEF RootedAnywhere
<1>3. QED
  BY <1>1, <1>2

\* The roles of an identity are rooted in the organization looked up, but for
\* those a trusted token brings; these are rooted in the token's.
LEMMA RolesOfRooted ==
    ASSUME RootedInv, NEW t \in Token, SoundToken(t), NEW o \in AllOrgs, NEW trust \in BOOLEAN,
           NEW x \in Found(RoleIn(t.user, o))
    PROVE  /\ ~trust => RolesOf(t, trust, x) \subseteq Rooted(o)
           /\ t.roles = {} => RolesOf(t, trust, x) \subseteq Rooted(o)
           /\ RolesOf(t, trust, x) \subseteq RootedAnywhere
<1>1. t.user \in Users /\ t.org \in AllOrgs \cup {None}
  BY DEF Token, AllOrgs
<1>2. Default \subseteq Rooted(o) /\ (Mapped(x) # None => Mapped(x) \in Rooted(o))
  BY <1>1, LookedUpIsRooted
<1>3. CASE trust /\ t.roles # {}
  <2>1. t.org # None /\ t.roles \subseteq Rooted(t.org)
    BY <1>3 DEF SoundToken
  <2>2. Rooted(t.org) \subseteq RootedAnywhere
    BY <1>1, <2>1, RootedSomewhere DEF RootedInv
  <2>3. QED
    BY <1>3, <2>1, <2>2 DEF RolesOf
<1>4. CASE ~(trust /\ t.roles # {})
  <2>1. RolesOf(t, trust, x) \subseteq Rooted(o)
    BY <1>2, <1>4 DEF RolesOf
  <2>2. Rooted(o) \subseteq RootedAnywhere
    BY RootedSomewhere DEF RootedInv
  <2>3. QED
    BY <2>1, <2>2
<1>5. QED
  BY <1>3, <1>4

\* A step that takes no rule back and no request on keeps the invariant.
LEMMA RootedFrame ==
    ASSUME RootedInv, TypeOK', ever \subseteq ever', Standing(member)' \subseteq ever',
           \A t \in issued' : t \in issued \/ SoundToken(t)',
           \A r \in Requests : req'[r].on => req'[r] = req[r] \/ SoundRequest(req[r])'
    PROVE  RootedInv'
<1>1. \A t \in issued : SoundToken(t)
  BY DEF RootedInv
<1>2. \A r \in Requests : req[r].on => SoundRequest(req[r])
  BY DEF RootedInv
<1>3. (\A t \in issued : SoundToken(t))'
  BY <1>1, SoundStays
<1>4. ASSUME NEW r \in Requests, req'[r].on, req'[r] = req[r]
      PROVE  SoundRequest(req[r])'
  <2>1. SoundRequest(req[r])
    BY <1>2, <1>4
  <2>2. (\A q : q = req[r] => SoundRequest(q))
    BY <2>1
  <2>3. QED
    BY <1>4, <2>2, SoundStays
<1>5. (\A r \in Requests : req[r].on => SoundRequest(req[r]))'
  BY <1>4
<1>6. QED
  BY <1>3, <1>5 DEF RootedInv

LEMMA RootedBegin ==
    ASSUME RootedInv, TypeOK', NEW r \in Requests, NEW t \in Logins \cup issued,
           NEW via \in Endpoints, NEW trust \in BOOLEAN,
           Begin(r, t, via, trust),
           via = "rest" => trust = OwnToken(t),
           via = "exchange" => t.kind = "login"
    PROVE  RootedInv'
<1>1. PICK o \in FoundOrg(t) :
          req' = [req EXCEPT ![r] =
              [on |-> TRUE, token |-> t, via |-> via, trust |-> trust, known |-> ~t.uid,
               org |-> OrgOf(t, trust, o),
               roles |-> IF t.uid THEN {} ELSE RolesOf(t, trust, None), began |-> now]]
  BY DEF Begin
<1> DEFINE q == [on |-> TRUE, token |-> t, via |-> via, trust |-> trust, known |-> ~t.uid,
                 org |-> OrgOf(t, trust, o),
                 roles |-> IF t.uid THEN {} ELSE RolesOf(t, trust, None), began |-> now]
<1>2. TypeOK /\ t \in Token
  BY LoginsAreTokens DEF RootedInv, TypeOK
<1>3. SoundToken(t)
  BY LoginsAreSound DEF RootedInv
<1>4. OrgOf(t, trust, o) \in AllOrgs
  BY <1>2, OrgOfType, FoundOrgType
<1>5. IF via \in {"context", "socket"} THEN q.roles \subseteq RootedAnywhere ELSE q.roles \subseteq Rooted(q.org)
  <2>1. CASE t.uid
    BY <2>1
  <2>2. CASE ~t.uid
    <3>1. o = None
      BY <2>2 DEF FoundOrg
    <3>2. t.user \in Users
      BY <1>2 DEF Token
    <3>3. /\ RolesOf(t, trust, None) = t.roles \/ RolesOf(t, trust, None) = Default
          /\ trust /\ t.org # None => OrgOf(t, trust, o) = t.org
      BY <3>1 DEF RolesOf, OrgOf, Mapped, None
    <3>4. Default \subseteq Rooted(OrgOf(t, trust, o))
      BY DEF Default, Rooted
    <3>5. Rooted(OrgOf(t, trust, o)) \subseteq RootedAnywhere
      BY <1>2, <1>4, RootedSomewhere
    <3>6. CASE RolesOf(t, trust, None) = Default
      BY <2>2, <3>4, <3>5, <3>6
    <3>7. CASE RolesOf(t, trust, None) = t.roles /\ t.roles # Default
      <4>1. CASE t.roles = {}
        BY <2>2, <3>7, <4>1
      <4>2. CASE t.roles # {}
        <5>1. trust /\ t.org # None
          BY <1>3, <3>7, <4>2 DEF RolesOf, SoundToken, Mapped, None
        <5>2. t.roles \subseteq Rooted(OrgOf(t, trust, o))
          BY <1>3, <3>3, <5>1 DEF SoundToken
        <5>3. QED
          BY <2>2, <3>5, <3>7, <5>2
      <4>3. QED
        BY <4>1, <4>2
    <3>8. QED
      BY <3>3, <3>6, <3>7
  <2>3. t.uid \in BOOLEAN
    BY <1>2 DEF Token
  <2>4. QED
    BY <2>1, <2>2, <2>3
<1>6. SoundRequest(q)
  BY <1>2, <1>3, <1>5 DEF SoundRequest, Token
<1>7. UNCHANGED <<ever, member, issued>>
  BY DEF Begin, world
<1>8. \A m : m = q => SoundRequest(m)'
  BY <1>6, <1>7, SoundStays
<1>9. \A s \in Requests : req'[s] = IF s = r THEN q ELSE req[s]
  BY <1>1, <1>2 DEF TypeOK
<1>10. (Standing(member) \subseteq ever)'
  BY <1>7 DEF RootedInv, Standing
<1>11. QED
  BY <1>7, <1>8, <1>9, <1>10, RootedFrame

LEMMA RootedWorld ==
    ASSUME RootedInv
    PROVE  /\ Tick => RootedInv'
           /\ \A u \in Users, o \in Orgs \cup {None} : Switch(u, o) => RootedInv'
           /\ \A u \in Users, o \in Orgs, x \in OrgRoles \cup {None} : SetRole(u, o, x) => RootedInv'
           /\ \A u \in Users : BackendMints(u) => RootedInv'
           /\ \A t \in issued : Forget(t) => RootedInv'
<1>0. TypeOK /\ Standing(member) \subseteq ever
  BY DEF RootedInv
<1>1. ASSUME Tick PROVE RootedInv'
  <2>1. UNCHANGED <<ever, member, issued, req>>
    BY <1>1 DEF Tick
  <2>2. (Standing(member) \subseteq ever)'
    BY <1>0, <2>1 DEF Standing
  <2>3. QED
    BY <1>0, <1>1, <2>1, <2>2, TypeWorld, RootedFrame
<1>2. ASSUME NEW u \in Users, NEW o \in Orgs \cup {None}, Switch(u, o) PROVE RootedInv'
  <2>1. UNCHANGED <<ever, member, issued, req>>
    BY <1>2 DEF Switch
  <2>2. (Standing(member) \subseteq ever)'
    BY <1>0, <2>1 DEF Standing
  <2>3. QED
    BY <1>0, <1>2, <2>1, <2>2, TypeWorld, RootedFrame
<1>3. ASSUME NEW u \in Users, NEW o \in Orgs, NEW x \in OrgRoles \cup {None}, SetRole(u, o, x)
      PROVE  RootedInv'
  <2>1. ever \subseteq ever' /\ (Standing(member) \subseteq ever)' /\ UNCHANGED <<issued, req>>
    BY <1>3 DEF SetRole, Standing
  <2>2. QED
    BY <1>0, <1>3, <2>1, TypeWorld, RootedFrame
<1>4. ASSUME NEW u \in Users, BackendMints(u) PROVE RootedInv'
  <2>1. PICK life \in Lives :
            Issue([kind |-> "backend", user |-> u, uid |-> TRUE, org |-> active[u],
                   roles |-> {Mapped(member[u][active[u]])}, scopes |-> {}, exp |-> now + life])
    BY <1>4 DEF BackendMints
  <2>2. active[u] \in Orgs
    BY <1>0, <1>4 DEF TypeOK, BackendMints
  <2>3. Mapped(member[u][active[u]]) \in Rooted(active[u])
    BY <1>4, <2>2, LookedUpIsRooted DEF BackendMints, Found, RoleIn, AllOrgs
  <2>4. SoundToken([kind |-> "backend", user |-> u, uid |-> TRUE, org |-> active[u],
                    roles |-> {Mapped(member[u][active[u]])}, scopes |-> {}, exp |-> now + life])
    BY <2>2, <2>3 DEF SoundToken, OwnToken
  <2>5. UNCHANGED <<ever, member, req>>
    BY <1>4 DEF BackendMints, world
  <2>6. (Standing(member) \subseteq ever)'
    BY <1>0, <2>5 DEF Standing
  <2>7. \A t \in issued' : t \in issued \/ SoundToken(t)'
    BY <2>1, <2>4, <2>5, SoundStays DEF Issue
  <2>8. QED
    BY <1>0, <1>4, <2>5, <2>6, <2>7, TypeWorld, RootedFrame
<1>5. ASSUME NEW t \in issued, Forget(t) PROVE RootedInv'
  <2>1. issued' \subseteq issued /\ UNCHANGED <<ever, member, req>>
    BY <1>5 DEF Forget, world
  <2>2. (Standing(member) \subseteq ever)'
    BY <1>0, <2>1 DEF Standing
  <2>3. QED
    BY <1>0, <1>5, <2>1, <2>2, TypeWorld, RootedFrame
<1>6. QED
  BY <1>1, <1>2, <1>3, <1>4, <1>5

\* With a role that may mint, rooted in o, every role that it may mint is.
LEMMA GrantsAreRooted ==
    ASSUME NEW o, NEW S \in SUBSET Rooted(o), NEW x \in Asked,
           Privileged(S), x \in {"owner", "admin"} => "owner" \in S
    PROVE  x \in Rooted(o)
<1>1. \/ <<o, "owner">> \in ever
      \/ <<o, "admin">> \in ever
  BY DEF Privileged, Rooted, AgentRoles
<1>2. x \in {"owner", "admin"} => <<o, "owner">> \in ever
  BY DEF Rooted, AgentRoles
<1>3. x \in {"owner", "admin", "editor", "viewer"} \cup AgentRoles
  BY DEF AgentRoles
<1>4. QED
  BY <1>1, <1>2, <1>3 DEF Rooted

LEMMA RootedRequest ==
    ASSUME RootedInv, NEW r \in Requests
    PROVE  /\ LookUpRole(r) => RootedInv'
           /\ MintSession(r) => RootedInv'
           /\ \A x \in Asked, extra \in Extras, life \in Lives : MintAgent(r, x, extra, life) => RootedInv'
           /\ \A x \in Asked, life \in Lives : MintCollaborator(r, x, life) => RootedInv'
           /\ \A p \in EndpointNeeds : Serve(r, p) => RootedInv'
           /\ Refuse(r) => RootedInv'
<1>0. TypeOK /\ Standing(member) \subseteq ever
  BY DEF RootedInv
<1>1. ASSUME LookUpRole(r) PROVE RootedInv'
  <2> DEFINE q == req[r]
  <2>1. PICK x \in Found(RoleIn(q.token.user, q.org)) :
            req' = [req EXCEPT ![r] =
                [@ EXCEPT !.known = TRUE, !.roles = RolesOf(q.token, q.trust, x)]]
    BY <1>1 DEF LookUpRole
  <2>2. q.on /\ ~q.known /\ SoundRequest(q) /\ q \in Busy
    BY <1>0, <1>1, OnIsBusy DEF LookUpRole, RootedInv
  <2>3. q.token \in Token /\ q.org \in AllOrgs /\ q.trust \in BOOLEAN
    BY <1>0, <2>2, OnIsBusy DEF Busy
  <2>4. SoundToken(q.token)
    BY <2>2 DEF SoundRequest
  <2>5. /\ ~q.trust => RolesOf(q.token, q.trust, x) \subseteq Rooted(q.org)
        /\ q.token.roles = {} => RolesOf(q.token, q.trust, x) \subseteq Rooted(q.org)
        /\ RolesOf(q.token, q.trust, x) \subseteq RootedAnywhere
    BY <2>3, <2>4, RolesOfRooted
  <2>6. q.via \in Endpoints
    BY <2>2 DEF Busy
  <2>7. q.via = "rest" => ~q.trust
    BY <2>2, <2>4 DEF SoundRequest, SoundToken
  <2>8. q.via = "exchange" => q.token.roles = {}
    BY <2>2, <2>4 DEF SoundRequest, SoundToken
  <2>9. IF q.via \in {"context", "socket"} THEN RolesOf(q.token, q.trust, x) \subseteq RootedAnywhere
        ELSE RolesOf(q.token, q.trust, x) \subseteq Rooted(q.org)
    BY <2>5, <2>6, <2>7, <2>8 DEF Endpoints
  <2> DEFINE n == [q EXCEPT !.known = TRUE, !.roles = RolesOf(q.token, q.trust, x)]
  <2>10. /\ n.token = q.token /\ n.via = q.via /\ n.org = q.org /\ n.trust = q.trust
         /\ n.known = TRUE /\ n.roles = RolesOf(q.token, q.trust, x)
    BY <2>2 DEF Busy
  <2>11. SoundRequest(n)
    BY <2>2, <2>9, <2>10 DEF SoundRequest
  <2>12. UNCHANGED <<ever, member, issued>>
    BY <1>1 DEF LookUpRole, world
  <2>13. \A s \in Requests : req'[s] = IF s = r THEN n ELSE req[s]
    BY <1>0, <2>1 DEF TypeOK
  <2>14. \A s \in Requests : req'[s].on => req'[s] = req[s] \/ SoundRequest(req[s])'
    <3>1. \A m : m = n => SoundRequest(m)'
      BY <2>11, <2>12, SoundStays
    <3>2. QED
      BY <2>13, <3>1
  <2>15. (Standing(member) \subseteq ever)'
    BY <1>0, <2>12 DEF Standing
  <2>16. QED
    BY <1>0, <1>1, <2>12, <2>14, <2>15, TypeRequest, RootedFrame
<1>2. ASSUME \A t \in issued' : t \in issued \/ SoundToken(t), End(r), UNCHANGED world, TypeOK'
      PROVE  RootedInv'
  <2>1. UNCHANGED <<ever, member>>
    BY <1>2 DEF world
  <2>2. \A s \in issued' : s \in issued \/ SoundToken(s)'
    BY <1>2, <2>1, SoundStays
  <2>3. \A s \in Requests : req'[s].on => req'[s] = req[s]
    BY <1>0, <1>2 DEF End, TypeOK, Idle
  <2>4. (Standing(member) \subseteq ever)'
    BY <1>0, <2>1 DEF Standing
  <2>5. QED
    BY <1>2, <2>1, <2>2, <2>3, <2>4, RootedFrame
<1>3. ASSUME NEW k \in {"session", "agent", "collaborator"}, NEW S, NEW scopes, NEW exp,
             req[r].on, S \subseteq Rooted(req[r].org), scopes \subseteq FromToken(Rooted(req[r].org))
      PROVE  SoundToken([kind |-> k, user |-> req[r].token.user, uid |-> FALSE, org |-> req[r].org,
                         roles |-> S, scopes |-> scopes, exp |-> exp])
  <2>1. req[r].org # None
    BY <1>0, <1>3, OnIsBusy DEF AllOrgs
  <2>2. QED
    BY <1>3, <2>1 DEF SoundToken, OwnToken
<1>4. ASSUME MintSession(r) PROVE RootedInv'
  <2>1. req[r].on /\ req[r].roles \subseteq Rooted(req[r].org)
    BY <1>4 DEF MintSession, Handled, RootedInv, SoundRequest
  <2>2. SoundToken([kind |-> "session", user |-> req[r].token.user, uid |-> FALSE, org |-> req[r].org,
                    roles |-> req[r].roles, scopes |-> {}, exp |-> now + SessionLife])
    BY <1>3, <2>1
  <2>3. QED
    BY <1>0, <1>2, <1>4, <2>2, TypeRequest DEF MintSession, Issue
<1>5. ASSUME NEW k \in {"agent", "collaborator"}, NEW x \in Asked, NEW extra, NEW life,
             Handled(r, "rest"), Privileged(req[r].roles),
             x \in {"owner", "admin"} => "owner" \in req[r].roles,
             extra \subseteq FromToken(req[r].roles)
      PROVE  SoundToken(Minted(r, k, x, extra, life))
  <2>1. req[r].on /\ req[r].roles \subseteq Rooted(req[r].org)
    BY <1>5 DEF Handled, RootedInv, SoundRequest
  <2>2. x \in Rooted(req[r].org)
    BY <1>5, <2>1, GrantsAreRooted
  <2>3. Permissions(x) \cup extra \subseteq FromToken(Rooted(req[r].org))
    BY <1>5, <2>1, <2>2 DEF FromToken
  <2>4. QED
    BY <1>3, <2>1, <2>2, <2>3 DEF Minted
<1>6. ASSUME NEW x \in Asked, NEW extra \in Extras, NEW life \in Lives, MintAgent(r, x, extra, life)
      PROVE  RootedInv'
  BY <1>0, <1>2, <1>5, <1>6, TypeRequest DEF MintAgent, MayGrant, Issue
<1>7. ASSUME NEW x \in Asked, NEW life \in Lives, MintCollaborator(r, x, life)
      PROVE  RootedInv'
  BY <1>0, <1>2, <1>5, <1>7, TypeRequest DEF MintCollaborator, Issue
<1>8. ASSUME NEW p \in EndpointNeeds, Serve(r, p) PROVE RootedInv'
  BY <1>0, <1>2, <1>8, TypeRequest DEF Serve
<1>9. ASSUME Refuse(r) PROVE RootedInv'
  BY <1>0, <1>2, <1>9, TypeRequest DEF Refuse
<1>10. QED
  BY <1>1, <1>4, <1>6, <1>7, <1>8, <1>9

LEMMA RootedNext ==
    ASSUME RootedInv, [Next]_vars
    PROVE  RootedInv'
<1>0. TypeOK /\ TypeOK'
  BY TypeNext DEF RootedInv
<1>1. ASSUME NEW r \in Requests, NEW t \in Logins \cup issued,
             \/ Authenticate(r, t) \/ AuthenticateExchange(r, t)
             \/ AuthenticateContext(r, t) \/ AuthenticateSocket(r, t)
      PROVE  RootedInv'
  <2>1. OwnToken(t) \in BOOLEAN
    BY DEF OwnToken
  <2>2. CASE Authenticate(r, t)
    BY <1>0, <2>1, <2>2, RootedBegin DEF Authenticate, Endpoints
  <2>3. CASE AuthenticateContext(r, t)
    BY <1>0, <2>3, RootedBegin DEF AuthenticateContext, Endpoints
  <2>4. CASE AuthenticateSocket(r, t)
    BY <1>0, <2>4, RootedBegin DEF AuthenticateSocket, Endpoints
  <2>5. CASE AuthenticateExchange(r, t)
    BY <1>0, <2>5, RootedBegin DEF AuthenticateExchange, Endpoints
  <2>6. QED
    BY <1>1, <2>2, <2>3, <2>4, <2>5
<1>2. CASE UNCHANGED vars
  <2>1. UNCHANGED <<ever, member, issued, req>>
    BY <1>2 DEF vars, world
  <2>2. (Standing(member) \subseteq ever)'
    BY <2>1 DEF RootedInv, Standing
  <2>3. QED
    BY <1>0, <2>1, <2>2, RootedFrame
<1>3. QED
  BY <1>1, <1>2, RootedWorld, RootedRequest DEF Next

LEMMA RootedInit == Init => RootedInv
<1> SUFFICES ASSUME Init PROVE RootedInv
  OBVIOUS
<1>1. TypeOK
  BY TypeInit
<1>2. issued = {} /\ Standing(member) \subseteq ever
  BY DEF Init
<1>3. \A r \in Requests : ~req[r].on
  BY DEF Init, Idle
<1>4. QED
  BY <1>1, <1>2, <1>3 DEF RootedInv

LEMMA RootedAlways == Spec => []RootedInv
BY RootedInit, RootedNext, PTL DEF Spec

-----------------------------------------------------------------------------
\* security.py, permissions.py, auth.py: tokens, requests and what they hold are
\* of their types, whatever is minted with what.
THEOREM TokensTypeCorrect == Spec => []TypeOK
<1>1. RootedInv => TypeOK
  BY DEF RootedInv
<1>2. QED
  BY <1>1, RootedAlways, PTL

\* Minting tokens with tokens, for any number of users, organizations and steps,
\* gains no role and no scope beyond what a member had or could grant.
THEOREM AuthorityStaysRooted == Spec => []AuthorityIsRooted
<1>1. ASSUME RootedInv PROVE AuthorityIsRooted
  <2>1. ASSUME NEW t \in issued
        PROVE  t.roles \subseteq Rooted(t.org) /\ t.scopes \subseteq FromToken(Rooted(t.org))
    <3>1. SoundToken(t)
      BY <1>1 DEF RootedInv
    <3>2. QED
      BY <3>1 DEF SoundToken
  <2>2. ASSUME NEW r \in Requests, req[r].on
        PROVE  IF req[r].via \in {"context", "socket"} THEN req[r].roles \subseteq RootedAnywhere
               ELSE req[r].roles \subseteq Rooted(req[r].org)
    BY <1>1, <2>2 DEF RootedInv, SoundRequest
  <2>3. QED
    BY <2>1, <2>2 DEF AuthorityIsRooted, RootedAnywhere
<1>2. QED
  BY <1>1, RootedAlways, PTL

\* check_permission lets only an owner, an administrator or an agent with full
\* access have the App write, and such a role is rooted.
LEMMA AppNeedsMore ==
    ASSUME NEW p \in AppNeeds
    PROVE  {p, <<p[1], "admin">>, <<"org", "admin">>} \cap FromToken({"viewer", "editor"}) = {}
<1>1. FromToken({"viewer", "editor"}) = ViewerPermissions \cup EditorPermissions
  BY DEF FromToken, Permissions
<1>2. p[1] = "connectors" /\ p[2] \in {"pr:create", "branch:create", "commit", "pr:comment"}
      /\ p = <<p[1], p[2]>>
  BY DEF AppNeeds, Of
<1>3. \A a : <<"connectors", a>> \in ViewerPermissions \cup EditorPermissions => a \in {"read", "sync"}
  BY DEF ViewerPermissions, EditorPermissions, Of
<1>4. <<"org", "admin">> \notin ViewerPermissions \cup EditorPermissions
  BY DEF ViewerPermissions, EditorPermissions, Of
<1>5. QED
  BY <1>1, <1>2, <1>3, <1>4

\* require_permission in front of the App's writes, over any chain of tokens.
THEOREM AppWritesAreGranted == Spec => []AppWritesForOrgs
<1>1. ASSUME RootedInv PROVE AppWritesForOrgs
  <2>1. ASSUME NEW r \in Requests, NEW p \in AppNeeds, Handled(r, "rest"),
               CheckPermission(req[r].roles, p)
        PROVE  /\ req[r].org \in Orgs
               /\ {<<req[r].org, "owner">>, <<req[r].org, "admin">>} \cap ever # {}
    <3>1. req[r].on /\ req[r].roles \subseteq Rooted(req[r].org)
      BY <1>1, <2>1 DEF Handled, RootedInv, SoundRequest
    <3>2. {<<req[r].org, "owner">>, <<req[r].org, "admin">>} \cap ever # {}
      <4>1. SUFFICES ASSUME Rooted(req[r].org) = {"viewer", "editor"} PROVE FALSE
        BY DEF Rooted
      <4>2. ~Privileged(req[r].roles)
        BY <3>1, <4>1 DEF Privileged
      <4>3. FromToken(req[r].roles) \subseteq FromToken({"viewer", "editor"})
        BY <3>1, <4>1 DEF FromToken
      <4>4. QED
        BY <2>1, <4>2, <4>3, AppNeedsMore DEF CheckPermission, Has
    <3>3. ever \subseteq Orgs \X {"owner", "admin"}
      BY <1>1 DEF RootedInv, TypeOK
    <3>4. QED
      BY <3>2, <3>3
  <2>2. QED
    BY <2>1 DEF AppWritesForOrgs
<1>2. QED
  BY <1>1, RootedAlways, PTL

-----------------------------------------------------------------------------
(***************************************************************************)
(* SessionsAreRecent needs to know how a session came about: its exchange  *)
(* looked the organization up when it was active, at most MaxLag ticks     *)
(* before, and whoever uses the session began before it expired.           *)
(***************************************************************************)
WasInv ==
    \A u \in Users, o \in Orgs :
        /\ was[u][o] <= now + 1
        /\ active[u] = o => was[u][o] = now + 1

RecentToken(t) ==
    t.kind = "session" /\ t.org \in Orgs =>
        /\ was[t.user][t.org] > 0
        /\ t.exp < was[t.user][t.org] + MaxLag + SessionLife

RecentRequest(q) ==
    /\ RecentToken(q.token)
    /\ q.token.kind = "session" => q.org = q.token.org /\ q.began <= q.token.exp
    /\ q.via = "exchange" /\ q.org \in Orgs => q.began < was[q.token.user][q.org]
    /\ ~Connected(q) => now <= q.began + MaxLag

RecentInv ==
    /\ RootedInv
    /\ WasInv
    /\ \A t \in issued : RecentToken(t)
    /\ \A r \in Requests : req[r].on => RecentRequest(req[r])

\* The clock, and the history of who was active where.
WasOnlyGrows ==
    /\ now \in Nat /\ now' \in {now, now + 1}
    /\ \A u \in Users, o \in Orgs : was[u][o] \in Nat /\ was'[u][o] \in Nat /\ was[u][o] <= was'[u][o]

LEMMA WasTypes ==
    ASSUME NEW w \in [Users -> [Orgs -> 0 .. MaxTime + 1]], NEW u \in Users, NEW o \in Orgs
    PROVE  w[u][o] \in Nat
<1>1. w[u] \in [Orgs -> 0 .. MaxTime + 1]
  OBVIOUS
<1>2. w[u][o] \in 0 .. MaxTime + 1
  BY <1>1
<1>3. QED
  BY <1>2

LEMMA WasNext ==
    ASSUME TypeOK, TypeOK', WasInv, [Next]_vars
    PROVE  WasInv' /\ WasOnlyGrows
<1>1. /\ now \in Nat
      /\ \A u \in Users, o \in Orgs : was[u][o] \in Nat /\ was'[u][o] \in Nat
  BY WasTypes DEF TypeOK
<1>2. CASE UNCHANGED world
  BY <1>1, <1>2 DEF world, WasInv, WasOnlyGrows
<1>3. CASE Tick
  BY <1>1, <1>3 DEF Tick, Was, WasInv, WasOnlyGrows
<1>4. ASSUME NEW u \in Users, NEW o \in Orgs \cup {None}, Switch(u, o)
      PROVE  WasInv' /\ WasOnlyGrows
  <2>1. active' \in [Users -> Orgs \cup {None}] /\ now' = now /\ was' = Was(now, active', was)
    BY <1>4 DEF Switch, TypeOK
  <2>2. \A v \in Users, p \in Orgs : was'[v][p] = IF active'[v] = p THEN now + 1 ELSE was[v][p]
    BY <2>1 DEF Was
  <2>3. QED
    BY <1>1, <2>1, <2>2 DEF WasInv, WasOnlyGrows
<1>5. ASSUME NEW u \in Users, NEW o \in Orgs, NEW x \in OrgRoles \cup {None}, SetRole(u, o, x)
      PROVE  WasInv' /\ WasOnlyGrows
  BY <1>1, <1>5 DEF SetRole, WasInv, WasOnlyGrows
<1>6. CASE UNCHANGED vars
  BY <1>2, <1>6 DEF vars
<1>7. QED
  BY <1>2, <1>3, <1>4, <1>5, <1>6
  DEF Next, BackendMints, Forget, Authenticate, AuthenticateContext, AuthenticateSocket, AuthenticateExchange, Begin,
      LookUpRole, MintSession, MintAgent, MintCollaborator, Serve, Refuse

LEMMA RecentStays ==
    ASSUME WasOnlyGrows, NEW t \in Token, RecentToken(t)
    PROVE  RecentToken(t)'
<1>1. t.user \in Users /\ t.exp \in Nat
  BY DEF Token
<1>2. QED
  BY <1>1 DEF WasOnlyGrows, RecentToken

\* A request goes on: the clock leaves it in its time, unless it is a connection.
Continues(r) ==
    /\ req[r].on /\ req'[r].token = req[r].token /\ req'[r].via = req[r].via
    /\ req'[r].org = req[r].org /\ req'[r].began = req[r].began
    /\ req[r].known => req'[r].known
    /\ now' = now \/ Connected(req[r]) \/ now < req[r].began + MaxLag

LEMMA RecentContinues ==
    ASSUME TypeOK, RecentInv, WasOnlyGrows, NEW r \in Requests, Continues(r)
    PROVE  RecentRequest(req[r])'
<1>1. req[r] \in Busy /\ RecentRequest(req[r]) /\ req[r].token \in Token /\ req[r].token.user \in Users
  BY OnIsBusy DEF RecentInv, Continues
<1>2. req[r].began \in Nat
  <2>1. req[r].began \in 0 .. MaxTime
    BY <1>1 DEF Busy
  <2>2. QED
    BY <2>1
<1>3. RecentToken(req[r].token)'
  <2>1. \A t \in Token : RecentToken(t) => RecentToken(t)'
    BY RecentStays
  <2>2. QED
    BY <1>1, <2>1 DEF RecentRequest, RecentToken, Continues
<1>4. req'[r].token.kind = "session" => req'[r].org = req'[r].token.org /\ req'[r].began <= req'[r].token.exp
  BY <1>1 DEF RecentRequest, Continues
<1>5. req'[r].via = "exchange" /\ req'[r].org \in Orgs =>
          req'[r].began < was'[req'[r].token.user][req'[r].org]
  <2>1. ASSUME req[r].via = "exchange", req[r].org \in Orgs
        PROVE  req[r].began < was'[req[r].token.user][req[r].org]
    <3> DEFINE w == was[req[r].token.user][req[r].org]
               v == was'[req[r].token.user][req[r].org]
    <3>1. req[r].began < w
      BY <1>1, <2>1 DEF RecentRequest
    <3>2. w \in Nat /\ v \in Nat /\ w <= v
      BY <1>1, <2>1 DEF WasOnlyGrows
    <3> HIDE DEF w, v
    <3>3. req[r].began < v
      BY <1>2, <3>1, <3>2
    <3>4. QED
      BY <3>3 DEF v
  <2>2. QED
    BY <2>1 DEF Continues
<1>6. ~Connected(req'[r]) => now' <= req'[r].began + MaxLag
  <2>1. ASSUME ~Connected(req'[r]) PROVE now' <= req[r].began + MaxLag
    <3>1. ~Connected(req[r])
      BY <2>1 DEF Continues, Connected
    <3>2. now <= req[r].began + MaxLag
      BY <1>1, <3>1 DEF RecentRequest
    <3>3. now' = now \/ now < req[r].began + MaxLag
      BY <3>1 DEF Continues
    <3>4. now \in Nat /\ now' \in {now, now + 1}
      BY DEF WasOnlyGrows
    <3>5. QED
      BY <1>2, <3>2, <3>3, <3>4
  <2>2. QED
    BY <2>1 DEF Continues
<1>7. QED
  BY <1>3, <1>4, <1>5, <1>6 DEF RecentRequest, Connected

\* A step that leaves the requests going on.
LEMMA RecentFrame ==
    ASSUME TypeOK, RecentInv, RootedInv', WasInv', WasOnlyGrows,
           \A t \in issued' : t \in issued \/ RecentToken(t)',
           \A r \in Requests : req'[r].on => RecentRequest(req[r])' \/ Continues(r)
    PROVE  RecentInv'
<1>1. \A t \in issued' : RecentToken(t)'
  <2>1. issued \subseteq Token /\ \A t \in issued : RecentToken(t)
    BY DEF TypeOK, RecentInv
  <2>2. QED
    BY <2>1, RecentStays
<1>2. ASSUME NEW r \in Requests, req'[r].on PROVE RecentRequest(req[r])'
  BY <1>2, RecentContinues
<1>3. (\A r \in Requests : req[r].on => RecentRequest(req[r]))'
  BY <1>2
<1>4. QED
  BY <1>1, <1>3 DEF RecentInv

LEMMA RecentBegin ==
    ASSUME RecentInv, RootedInv', WasInv', WasOnlyGrows, NEW r \in Requests, NEW t \in Logins \cup issued,
           NEW via \in Endpoints, NEW trust \in BOOLEAN,
           Begin(r, t, via, trust),
           OwnToken(t) => trust,
           via = "exchange" => t.kind = "login"
    PROVE  RecentInv'
<1>1. PICK o \in FoundOrg(t) :
          req' = [req EXCEPT ![r] =
              [on |-> TRUE, token |-> t, via |-> via, trust |-> trust, known |-> ~t.uid,
               org |-> OrgOf(t, trust, o),
               roles |-> IF t.uid THEN {} ELSE RolesOf(t, trust, None), began |-> now]]
  BY DEF Begin
<1> DEFINE q == [on |-> TRUE, token |-> t, via |-> via, trust |-> trust, known |-> ~t.uid,
                 org |-> OrgOf(t, trust, o),
                 roles |-> IF t.uid THEN {} ELSE RolesOf(t, trust, None), began |-> now]
<1>2. TypeOK /\ t \in Token /\ t.user \in Users /\ t.exp \in Nat
  BY LoginsAreTokens DEF RecentInv, RootedInv, TypeOK, Token
<1>3. SoundToken(t)
  BY LoginsAreSound DEF RecentInv, RootedInv
<1>4. RecentToken(t)
  BY DEF RecentInv, RecentToken, Logins, Login
<1>5. t.kind = "session" => OrgOf(t, trust, o) = t.org
  BY <1>3 DEF SoundToken, OwnToken, FoundOrg, OrgOf
<1>6. now <= t.exp /\ UNCHANGED <<now, was, issued>>
  BY DEF Begin, Valid, world
<1>7. via = "exchange" /\ OrgOf(t, trust, o) \in Orgs => active[t.user] = OrgOf(t, trust, o)
  <2>1. ASSUME t.kind = "login", OrgOf(t, trust, o) \in Orgs
        PROVE  active[t.user] = OrgOf(t, trust, o)
    <3>1. t.org = None
      BY <1>3, <2>1 DEF SoundToken
    <3>2. o # None /\ OrgOf(t, trust, o) = o
      BY <1>2, <2>1, <3>1 DEF OrgOf
    <3>3. QED
      BY <3>2 DEF FoundOrg, Found
  <2>2. QED
    BY <2>1
<1>8. RecentRequest(q)
  <2>1. now \in Nat
    BY <1>2 DEF TypeOK
  <2>2. q.token.kind = "session" => q.org = q.token.org /\ q.began <= q.token.exp
    BY <1>5, <1>6
  <2>3. q.via = "exchange" /\ q.org \in Orgs => q.began < was[q.token.user][q.org]
    BY <1>2, <1>7, <2>1 DEF RecentInv, WasInv
  <2>4. now <= q.began + MaxLag
    BY <2>1
  <2>5. QED
    BY <1>4, <2>2, <2>3, <2>4 DEF RecentRequest
<1>9. \A m : m = q => RecentRequest(m)'
  BY <1>6, <1>8 DEF RecentRequest, RecentToken
<1>10. \A s \in Requests : req'[s] = IF s = r THEN q ELSE req[s]
  BY <1>1, <1>2 DEF TypeOK
<1>11. ASSUME NEW s \in Requests, s # r, req'[s].on PROVE Continues(s)
  BY <1>6, <1>10, <1>11 DEF Continues
<1>12. RecentRequest(req[r])'
  BY <1>9, <1>10
<1>13. QED
  BY <1>2, <1>6, <1>11, <1>12, RecentFrame

LEMMA RecentMintSession ==
    ASSUME TypeOK, RecentInv, WasOnlyGrows, NEW r \in Requests, MintSession(r)
    PROVE  \A t \in issued' : t \in issued \/ RecentToken(t)'
<1> DEFINE q == req[r]
           t == [kind |-> "session", user |-> q.token.user, uid |-> FALSE, org |-> q.org,
                 roles |-> q.roles, scopes |-> {}, exp |-> now + SessionLife]
<1>1. q.on /\ q.via = "exchange" /\ RecentRequest(q) /\ UNCHANGED was
  BY DEF MintSession, Handled, RecentInv, world
<1>2. q.began \in 0 .. MaxTime /\ q.token.user \in Users
  BY <1>1, OnIsBusy DEF Busy
<1>3. q.org \in Orgs => was[q.token.user][q.org] > 0
                         /\ now + SessionLife < was[q.token.user][q.org] + MaxLag + SessionLife
  <2>1. ASSUME q.org \in Orgs
        PROVE  was[q.token.user][q.org] > 0
               /\ now + SessionLife < was[q.token.user][q.org] + MaxLag + SessionLife
    <3> DEFINE w == was[q.token.user][q.org]
    <3>1. q.began < w /\ now <= q.began + MaxLag
      BY <1>1, <2>1 DEF RecentRequest, Connected
    <3>2. w \in Nat /\ now \in Nat
      BY <1>2, <2>1 DEF WasOnlyGrows
    <3>3. q.began \in Nat
      BY <1>2
    <3> HIDE DEF w, q
    <3>4. w > 0 /\ now + SessionLife < w + MaxLag + SessionLife
      BY <3>1, <3>2, <3>3
    <3>5. QED
      BY <3>4 DEF w
  <2>2. QED
    BY <2>1
<1>4. RecentToken(t)
  BY <1>3 DEF RecentToken
<1>5. issued' = issued \cup {t}
  BY DEF MintSession, Issue
<1>6. \A s : s = t => RecentToken(s)'
  BY <1>1, <1>4 DEF RecentToken
<1>7. QED
  BY <1>5, <1>6

LEMMA RecentNext ==
    ASSUME RecentInv, [Next]_vars
    PROVE  RecentInv'
<1>0. /\ TypeOK /\ TypeOK' /\ RootedInv /\ RootedInv' /\ WasInv' /\ WasOnlyGrows
  BY RootedNext, WasNext DEF RecentInv, RootedInv
<1>1. ASSUME NEW r \in Requests, NEW t \in Logins \cup issued,
             \/ Authenticate(r, t) \/ AuthenticateExchange(r, t)
             \/ AuthenticateContext(r, t) \/ AuthenticateSocket(r, t)
      PROVE  RecentInv'
  <2>1. OwnToken(t) \in BOOLEAN
    BY DEF OwnToken
  <2>2. CASE Authenticate(r, t)
    BY <1>0, <2>1, <2>2, RecentBegin DEF Authenticate, Endpoints
  <2>3. CASE AuthenticateContext(r, t)
    BY <1>0, <2>3, RecentBegin DEF AuthenticateContext, Endpoints
  <2>4. CASE AuthenticateSocket(r, t)
    BY <1>0, <2>4, RecentBegin DEF AuthenticateSocket, Endpoints
  <2>5. CASE AuthenticateExchange(r, t)
    BY <1>0, <2>5, RecentBegin DEF AuthenticateExchange, Endpoints
  <2>6. QED
    BY <1>1, <2>2, <2>3, <2>4, <2>5
<1>2. ASSUME \A t \in issued' : t \in issued \/ t.kind # "session" \/ RecentToken(t)',
             UNCHANGED now,
             \A r \in Requests : req'[r].on => Continues(r)
      PROVE  RecentInv'
  <2>1. \A t \in issued' : t \in issued \/ RecentToken(t)'
    BY <1>2 DEF RecentToken
  <2>2. QED
    BY <1>0, <1>2, <2>1, RecentFrame
<1>3. ASSUME Tick PROVE RecentInv'
  <2>1. ASSUME NEW r \in Requests, req'[r].on PROVE Continues(r)
    BY <1>3, <2>1 DEF Tick, Continues
  <2>2. issued' = issued
    BY <1>3 DEF Tick
  <2>3. QED
    BY <1>0, <2>1, <2>2, RecentFrame
<1>4. ASSUME UNCHANGED <<req, now>>, \A t \in issued' : t \in issued \/ t.kind # "session" PROVE RecentInv'
  BY <1>2, <1>4 DEF Continues
<1>5. ASSUME NEW u \in Users,
             \/ \E o \in Orgs \cup {None} : Switch(u, o)
             \/ \E o \in Orgs, x \in OrgRoles \cup {None} : SetRole(u, o, x)
             \/ BackendMints(u)
      PROVE  RecentInv'
  <2>1. UNCHANGED <<req, now>>
    BY <1>5 DEF Switch, SetRole, BackendMints, world
  <2>2. \A t \in issued' : t \in issued \/ t.kind # "session"
    BY <1>5 DEF Switch, SetRole, BackendMints, Issue
  <2>3. QED
    BY <1>4, <2>1, <2>2
<1>6. ASSUME NEW t \in issued, Forget(t) PROVE RecentInv'
  BY <1>4, <1>6 DEF Forget, world
<1>7. ASSUME NEW r \in Requests, LookUpRole(r) PROVE RecentInv'
  <2>1. PICK x : req' = [req EXCEPT ![r] =
                     [@ EXCEPT !.known = TRUE, !.roles = RolesOf(req[r].token, req[r].trust, x)]]
    BY <1>7 DEF LookUpRole
  <2>2. req[r] \in Busy
    BY <1>0, <1>7, OnIsBusy DEF LookUpRole
  <2>3. \A s \in Requests : req'[s].on => Continues(s)
    BY <1>0, <1>7, <2>1, <2>2 DEF TypeOK, Busy, LookUpRole, Continues, world
  <2>4. QED
    BY <1>2, <1>7, <2>3 DEF LookUpRole, world
<1>8. ASSUME NEW r \in Requests, End(r), UNCHANGED now,
             \A t \in issued' : t \in issued \/ t.kind # "session" \/ RecentToken(t)'
      PROVE  RecentInv'
  <2>1. \A s \in Requests : req'[s].on => req'[s] = req[s]
    BY <1>0, <1>8 DEF End, TypeOK, Idle
  <2>2. \A s \in Requests : req'[s].on => Continues(s)
    BY <1>8, <2>1 DEF Continues
  <2>3. QED
    BY <1>2, <1>8, <2>2
<1>9. ASSUME NEW r \in Requests, MintSession(r) PROVE RecentInv'
  BY <1>0, <1>8, <1>9, RecentMintSession DEF MintSession, world
<1>10. ASSUME NEW r \in Requests,
              \/ \E x \in Asked, extra \in Extras, life \in Lives : MintAgent(r, x, extra, life)
              \/ \E x \in Asked, life \in Lives : MintCollaborator(r, x, life)
              \/ \E p \in EndpointNeeds : Serve(r, p)
              \/ Refuse(r)
       PROVE  RecentInv'
  <2>1. End(r) /\ UNCHANGED now
    BY <1>10 DEF MintAgent, MintCollaborator, Serve, Refuse, world
  <2>2. \A t \in issued' : t \in issued \/ t.kind # "session"
    BY <1>10 DEF MintAgent, MintCollaborator, Serve, Refuse, Issue, Minted
  <2>3. QED
    BY <1>8, <2>1, <2>2
<1>11. CASE UNCHANGED vars
  BY <1>4, <1>11 DEF vars, world
<1>12. QED
  BY <1>1, <1>3, <1>5, <1>6, <1>7, <1>9, <1>10, <1>11 DEF Next

LEMMA RecentInit == Init => RecentInv
<1> SUFFICES ASSUME Init PROVE RecentInv
  OBVIOUS
<1>1. WasInv
  BY DEF Init, Was, WasInv
<1>2. issued = {} /\ \A r \in Requests : ~req[r].on
  BY DEF Init, Idle
<1>3. QED
  BY <1>1, <1>2, RootedInit DEF RecentInv

\* exchange_token's sessions, which nothing looks up again, outlive a membership
\* no longer than their life and the time of two requests; a connection made with
\* one does, but it was opened within that time.
THEOREM SessionsStayRecent == Spec => []SessionsAreRecent
<1>1. ASSUME RecentInv PROVE SessionsAreRecent
  <2>1. ASSUME NEW r \in Requests, req[r].on, req[r].token.kind = "session", req[r].org \in Orgs
        PROVE  /\ was[req[r].token.user][req[r].org] > 0
               /\ (IF req[r].via = "socket" THEN req[r].began ELSE now)
                      < was[req[r].token.user][req[r].org] + Old
    <3> DEFINE q == req[r]
               w == was[q.token.user][q.org]
    <3>1. TypeOK /\ RecentRequest(q)
      BY <1>1, <2>1 DEF RecentInv, RootedInv
    <3>2. q \in Busy /\ q.token \in Token /\ q.token.user \in Users
      BY <2>1, <3>1, OnIsBusy
    <3>3. q.token.exp \in Nat /\ q.began \in 0 .. MaxTime
      BY <3>2 DEF Busy, Token
    <3>4. w \in Nat /\ now \in Nat
      BY <2>1, <3>1, <3>2, WasTypes DEF TypeOK
    <3>5. w > 0 /\ q.token.exp < w + MaxLag + SessionLife /\ q.began <= q.token.exp
      BY <2>1, <3>1 DEF RecentRequest, RecentToken
    <3>6. q.began < w + Old
      BY <3>3, <3>4, <3>5 DEF Old
    <3>7. q.via # "socket" => now < w + Old
      <4>1. q.via # "socket" => now <= q.began + MaxLag
        BY <3>1 DEF RecentRequest, Connected
      <4>2. QED
        BY <3>3, <3>4, <3>5, <4>1 DEF Old
    <3>8. QED
      BY <3>5, <3>6, <3>7
  <2>2. QED
    BY <2>1 DEF SessionsAreRecent
<1>2. QED
  BY <1>1, RecentInit, RecentNext, PTL DEF Spec
=============================================================================
