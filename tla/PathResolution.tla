--------------------------- MODULE PathResolution ---------------------------
(***************************************************************************)
(* A request that names an asset by its path, against the tree of          *)
(* FolderTree as it changes: POST /orgs/{id}/acl/check walks from the root *)
(* of the organization, and GET /omnius-files/read and /list from the      *)
(* user's workspace, a folder that is itself found by its name.  Each      *)
(* segment is a query of its own.                                          *)
(*                                                                         *)
(* A name matters only as to whether it is the segment the path has at the *)
(* asset's depth, which never changes: `named' are the assets whose is.    *)
(***************************************************************************)
EXTENDS FolderTree

CONSTANTS
    MaxSegments, \* _MAX_PATH_SEGMENTS (16, 32)
    ListLimit,   \* list_files' limit (1000)
    MaxLength    \* bound on the segments of a path

ASSUME PathAssumption ==
    /\ MaxSegments \in Nat \ {0} /\ ListLimit \in Nat \ {0} /\ MaxLength \in Nat

VARIABLES
    asking,   \* the endpoint: "acl", "read" or "list"; "none" before
    length,   \* the segments of the path
    named,    \* the assets whose name is the path's segment at their depth
    at,       \* the last match; parent_id of the next query
    depth,    \* segments matched
    answer,   \* "open", "missing" (404, or denied), "refused" (400), "failed" (502) or "given"
    entries,  \* what /list returns
    \* history
    seen,     \* assets that have been live at some moment of the request
    cutOff    \* some listing had more than its page

pathVars == <<asking, length, named, at, depth, answer, entries, seen, cutOff>>

PathTypeOK ==
    /\ TreeTypeOK
    /\ asking \in {"none", "acl", "read", "list"}
    /\ length \in 0 .. MaxLength /\ depth \in 0 .. MaxSegments + 1
    /\ at \in Nodes
    /\ answer \in {"open", "missing", "refused", "failed", "given"}
    /\ named \subseteq Assets /\ entries \subseteq Assets /\ seen \subseteq Assets
    /\ cutOff \in BOOLEAN

PathInit ==
    /\ TreeInit
    /\ asking = "none" /\ length = 0 /\ named = {}
    /\ at = Root /\ depth = 0
    /\ answer = "open" /\ entries = {} /\ seen = {} /\ cutOff = FALSE

-----------------------------------------------------------------------------
Resolving == asking # "none" /\ answer = "open"

\* The segments that are looked up, the workspace being one of them.
Levels ==
    (IF length < MaxSegments THEN length ELSE MaxSegments)
        + (IF asking = "acl" THEN 0 ELSE 1)

\* An empty path is denied by /acl/check, and the workspace itself for the others.
\* The folder deletes stay out of it: what one commits between two queries is what
\* as many deletes of single rows do.
AskPath(endpoint, n, N) ==
    /\ asking = "none" /\ walk = "idle" /\ \A d \in Deletes : delPc[d] = "idle"
    /\ asking' = endpoint /\ length' = n /\ named' = N
    /\ answer' = IF endpoint = "acl" /\ n = 0 THEN "missing" ELSE "open"
    /\ steady' = Live /\ seen' = Live
    /\ UNCHANGED <<rowVars, delVars, walkVars, at, depth, entries, cutOff>>

\* Mutation: a workspace need not be a folder.
FitsAny(a) == a \in named

\* The name is that of the segment; a workspace is a folder as well.
Fits(a) == a \in named /\ (asking # "acl" /\ depth = 0 => kind[a] = "folder")

\* The first match of a page is the newest; any is possible here.
LookUpSegment ==
    /\ Resolving /\ depth < Levels
    /\ \E page \in SUBSET Assets :
          /\ Page(at, PageLimit, page)
          /\ cutOff' = (cutOff \/ page # Children(at))
          /\ \/ /\ \E a \in page :
                      Fits(a) /\ at' = a
                /\ depth' = depth + 1
                /\ UNCHANGED answer
             \/ /\ \A a \in page : ~Fits(a)
                /\ answer' = "missing"
                /\ UNCHANGED <<at, depth>>
    /\ UNCHANGED <<rowVars, delVars, walkVars, steady, asking, length, named, entries, seen>>

\* check_acl: what the role allows is then allowed for the path.
Allow ==
    /\ Resolving /\ depth = Levels /\ asking = "acl"
    /\ answer' = "given"
    /\ UNCHANGED <<rowVars, delVars, walkVars, steady, asking, length, named, at, depth,
                   entries, seen, cutOff>>

\* read_file: not of a folder, nor of a row without content; the store may fail.
Read ==
    /\ Resolving /\ depth = Levels /\ asking = "read"
    /\ answer' \in IF kind[at] = "folder" THEN {"refused"}
                   ELSE IF kind[at] = "repo" THEN {"missing"}
                   ELSE {"missing", "failed", "given"}
    /\ UNCHANGED <<rowVars, delVars, walkVars, steady, asking, length, named, at, depth,
                   entries, seen, cutOff>>

\* list_files: of a folder.
ListEntries ==
    /\ Resolving /\ depth = Levels /\ asking = "list"
    /\ IF kind[at] = "folder"
       THEN /\ answer' = "given"
            /\ entries' \in SUBSET Assets /\ Page(at, ListLimit, entries')
            /\ cutOff' = (cutOff \/ entries' # Children(at))
       ELSE answer' = "refused" /\ UNCHANGED <<entries, cutOff>>
    /\ UNCHANGED <<rowVars, delVars, walkVars, steady, asking, length, named, at, depth, seen>>

\* Either the tree is asked for or a path; with the answer the model ends.
PathNext ==
    \/ /\ answer = "open" /\ TreeNext
       /\ asking # "none" => walk' = "idle" /\ UNCHANGED delVars
       /\ seen' = IF asking = "none" THEN seen ELSE seen \cup Live'
       /\ UNCHANGED <<asking, length, named, at, depth, answer, entries, cutOff>>
    \/ \E endpoint \in {"acl", "read", "list"}, n \in 0 .. MaxLength, N \in SUBSET Assets :
          AskPath(endpoint, n, N)
    \/ LookUpSegment \/ Allow \/ Read \/ ListEntries

PathSpec == PathInit /\ [][PathNext]_<<treeVars, pathVars>>

-----------------------------------------------------------------------------
Candidate(a, d) == a \in named /\ (asking # "acl" /\ d = 1 => kind[a] = "folder")

\* The first n parts of the path have been there all along, each the only one of
\* its name.
Steadily(c, n) ==
    /\ Leads(c, n, Root, steady)
    /\ \A i \in 1 .. n :
          /\ Candidate(c[i], i)
          /\ \A b \in seen : parent[b] = parent[c[i]] /\ Candidate(b, i) => b = c[i]

\* What n parts of the path lead to, if they have: at most one asset.
Unmistaken(n) ==
    {a \in steady : \E c \in [0 .. n -> steady \cup {Root}] : c[n] = a /\ Steadily(c, n)}

\* However the tree changes between the queries for its segments, a path that
\* has been there throughout, and is no other's, leads to its asset, and a
\* listing of a folder has all that has been in it throughout, unless some
\* listing was longer than its page.
SteadyPathsResolve ==
    answer # "open" /\ length > 0 /\ ~cutOff =>
        \A a \in Unmistaken(Levels) :
            /\ at = a /\ depth = Levels
            /\ asking = "acl" => answer = "given"
            /\ asking = "list" /\ kind[a] = "folder" =>
                  answer = "given" /\ {b \in steady : parent[b] = a} \subseteq entries

-----------------------------------------------------------------------------
(* What docstrings say, and the code does not do. *)

\* acl.py: "Returns the resolved Asset row, or None if any segment along the way
\* doesn't exist": what is found is that of the whole path.
WholePath ==
    answer = "given" => depth = length + (IF asking = "acl" THEN 0 ELSE 1)

\* acl.py: "A path that doesn't resolve to an existing asset is DENIED".
AllowedIsThere ==
    answer = "given" => at \in Live /\ (parent[at] = Root \/ parent[at] \in Live)

=============================================================================
