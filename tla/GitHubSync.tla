----------------------------- MODULE GitHubSync -----------------------------
(***************************************************************************)
(* Mirroring a GitHub repository as assets, while the repository changes:  *)
(* sync_engine.py's sync_repo, with the App's token, and                   *)
(* github_connector.py's sync_repo_as_asset, with a user's.  A request     *)
(* inserts a row for the repository and one for each item of three         *)
(* listings, all in one session, which is committed when it returns.       *)
(*                                                                         *)
(* An insert that fails in the database leaves the session rolled back and *)
(* unusable: every later insert, and the commit, raise.                    *)
(***************************************************************************)
EXTENDS Naturals, FiniteSets

CONSTANTS
    Files, Dirs,   \* what may be in the repository's root directory
    Issues, Pulls, \* issues and pull requests
    Syncs,         \* sync requests
    Cap,           \* how many items of a listing are looked at (10 to 30)
    Faults         \* what may fail: a subset of {"github", "item", "database"}

ASSUME SyncAssumption ==
    /\ Cap \in Nat
    /\ IsFiniteSet(Files \cup Dirs \cup Issues \cup Pulls)
    /\ Dirs \cap (Files \cup Issues \cup Pulls) = {}
    /\ Faults \subseteq {"github", "item", "database"}

Items == Files \cup Dirs \cup Issues \cup Pulls
Kinds == {"code", "issue", "pr"}
Repo == [sync : Syncs, kind : {"repo"}]
Row == [sync : Syncs, kind : Kinds, item : Items \ Dirs]

VARIABLES
    by,      \* by[s]: s is made by the "app" (sync_engine.py) or with a user's "token"
    remote,  \* the items there are at GitHub
    closed,  \* the issues and pull requests among them that are closed
    rows,    \* the committed assets
    pc,      \* pc[s]: "idle", "connected", the kind of item s is at, "commit" or "ended"
    listed,  \* listed[s]: the current listing has been fetched
    left,    \* left[s]: the items of it that are still to be inserted
    pending, \* pending[s]: the rows in the session of s
    broken,  \* broken[s]: an insert has failed in the session
    counted, \* counted[s]: the items counted in the result
    errors,  \* errors[s]: an error was met, whether the result tells it or not
    answer,  \* answer[s]: "none", "success" or "error"
    steady,  \* history: items that s would list, all the while since it began
    cut      \* history: the kinds whose listing had more than Cap items

vars == <<by, remote, closed, rows, pc, listed, left, pending, broken, counted, errors, answer, steady, cut>>

TypeOK ==
    /\ remote \subseteq Items /\ closed \subseteq Issues \cup Pulls
    /\ rows \subseteq Repo \cup Row
    /\ pc \in [Syncs -> {"idle", "connected", "commit", "ended"} \cup Kinds]
    /\ listed \in [Syncs -> BOOLEAN] /\ broken \in [Syncs -> BOOLEAN]
    /\ errors \in [Syncs -> BOOLEAN]
    /\ left \in [Syncs -> SUBSET (Items \ Dirs)]
    /\ \A s \in Syncs : Cardinality(left[s]) <= Cap
    /\ by \in [Syncs -> {"app", "token"}]
    /\ steady \in [Syncs -> SUBSET Items] /\ cut \in [Syncs -> SUBSET Kinds]
    /\ pending \in [Syncs -> SUBSET (Repo \cup Row)]
    /\ counted \in [Syncs -> SUBSET Row]
    /\ answer \in [Syncs -> {"none", "success", "error"}]

Init ==
    /\ by \in [Syncs -> {"app", "token"}]
    /\ remote \in SUBSET Items /\ closed \in SUBSET (remote \cap (Issues \cup Pulls))
    /\ rows = {}
    /\ pc = [s \in Syncs |-> "idle"]
    /\ listed = [s \in Syncs |-> FALSE] /\ broken = [s \in Syncs |-> FALSE]
    /\ errors = [s \in Syncs |-> FALSE]
    /\ left = [s \in Syncs |-> {}] /\ steady = [s \in Syncs |-> {}]
    /\ cut = [s \in Syncs |-> {}]
    /\ pending = [s \in Syncs |-> {}] /\ counted = [s \in Syncs |-> {}]
    /\ answer = [s \in Syncs |-> "none"]

-----------------------------------------------------------------------------
(* What GitHub lists, and what of it is mirrored. *)

\* GET /contents lists directories as well.
FilesListed == Files \cup Dirs

FilesMirrored == Files

\* The engine asks for issues and pull requests in any state, the connector, by its
\* default, for open ones.
InState(s) == IF by[s] = "app" THEN Issues \cup Pulls ELSE (Issues \cup Pulls) \ closed

\* GET /issues lists pull requests as well: the engine skips them.
IssuesListed(s) == InState(s)

IssuesMirrored(s) == IF by[s] = "app" THEN Issues ELSE Issues \cup Pulls

PullsListed(s) == Pulls \cap InState(s)

Listing(s, k) ==
    remote \cap CASE k = "code" -> FilesListed
                  [] k = "issue" -> IssuesListed(s)
                  [] k = "pr" -> PullsListed(s)

Listable(s) == UNION {Listing(s, k) : k \in Kinds}

Mirrored(s, k) ==
    CASE k = "code" -> FilesMirrored [] k = "issue" -> IssuesMirrored(s) [] k = "pr" -> Pulls

-----------------------------------------------------------------------------
\* The repository changes, while a sync may be under way.
Change(i) ==
    /\ \E s \in Syncs : pc[s] # "ended"
    /\ remote' = IF i \in remote THEN remote \ {i} ELSE remote \cup {i}
    /\ closed' = closed \ {i}
    /\ steady' = [s \in Syncs |-> steady[s] \ {i}]
    /\ UNCHANGED <<by, rows, pc, listed, left, pending, broken, counted, errors, answer, cut>>

\* An issue or a pull request is closed, or opened again.
CloseOrReopen(i) ==
    /\ \E s \in Syncs : pc[s] # "ended"
    /\ i \in remote
    /\ closed' = IF i \in closed THEN closed \ {i} ELSE closed \cup {i}
    /\ steady' = [s \in Syncs |-> IF by[s] = "app" THEN steady[s] ELSE steady[s] \ {i}]
    /\ UNCHANGED <<by, remote, rows, pc, listed, left, pending, broken, counted, errors, answer, cut>>

\* Mutation: the pull requests are left out.
NextKindNoPulls(k) == IF k = "code" THEN "issue" ELSE "commit"

NextKind(k) == CASE k = "code" -> "issue" [] k = "issue" -> "pr" [] k = "pr" -> "commit"

\* The user's token is tried, or the App's only installation looked up and a
\* token for it fetched, which lasts longer than a sync does.  If GitHub refuses,
\* or there is another number of installations, the answer is 401 or 500.
Connect(s) ==
    /\ pc[s] = "idle"
    /\ \/ pc' = [pc EXCEPT ![s] = "connected"] /\ UNCHANGED answer
       \/ /\ "github" \in Faults
          /\ pc' = [pc EXCEPT ![s] = "ended"] /\ answer' = [answer EXCEPT ![s] = "error"]
    /\ UNCHANGED <<by, remote, closed, rows, listed, left, pending, broken, counted, errors, steady, cut>>

\* Mutation: the sync goes on without a row for the repository.
BeginAnyway(s) ==
    /\ pc[s] = "connected"
    /\ pc' = [pc EXCEPT ![s] = "code"]
    /\ steady' = [steady EXCEPT ![s] = Listable(s)]
    /\ \/ pending' = [pending EXCEPT ![s] = {[sync |-> s, kind |-> "repo"]}] /\ UNCHANGED errors
       \/ "github" \in Faults /\ errors' = [errors EXCEPT ![s] = TRUE] /\ UNCHANGED pending
    /\ UNCHANGED <<by, remote, closed, rows, listed, left, broken, counted, answer, cut>>

\* The repository is fetched and its row inserted, always as a new one.  If
\* either fails the request ends, without an exception.
Begin(s) ==
    /\ pc[s] = "connected"
    /\ steady' = [steady EXCEPT ![s] = Listable(s)]
    /\ \/ /\ pc' = [pc EXCEPT ![s] = "code"]
          /\ pending' = [pending EXCEPT ![s] = {[sync |-> s, kind |-> "repo"]}]
          /\ UNCHANGED <<broken, errors>>
       \/ /\ Faults \cap {"github", "database"} # {}
          /\ pc' = [pc EXCEPT ![s] = "commit"]
          /\ errors' = [errors EXCEPT ![s] = TRUE]
          /\ \E b \in BOOLEAN : /\ (IF b THEN "database" ELSE "github") \in Faults
                               /\ broken' = [broken EXCEPT ![s] = b]
          /\ UNCHANGED pending
    /\ UNCHANGED <<by, remote, closed, rows, listed, left, counted, answer, cut>>

-----------------------------------------------------------------------------
(* The three listings. *)

Least(m, n) == IF m < n THEN m ELSE n

\* The first Cap of a listing, in whatever order GitHub has them.
FirstOf(A) == {L \in SUBSET A : Cardinality(L) = Least(Cap, Cardinality(A))}

\* A listing is fetched, or the items of its kind are left out.
List(s, k) ==
    /\ pc[s] = k /\ ~listed[s]
    /\ \/ /\ \E L \in FirstOf(Listing(s, k)) :
                left' = [left EXCEPT ![s] = L \cap Mirrored(s, k)]
          /\ listed' = [listed EXCEPT ![s] = TRUE]
          /\ cut' = IF Cardinality(Listing(s, k)) > Cap
                    THEN [cut EXCEPT ![s] = @ \cup {k}] ELSE cut
          /\ UNCHANGED <<pc, errors>>
       \/ /\ "github" \in Faults
          /\ errors' = [errors EXCEPT ![s] = TRUE]
          /\ pc' = [pc EXCEPT ![s] = NextKind(k)]
          /\ UNCHANGED <<left, listed, cut>>
    /\ UNCHANGED <<by, remote, closed, rows, pending, broken, counted, answer, steady>>

RowOf(s, i) == [sync |-> s, kind |-> pc[s], item |-> i]

\* The session is rolled back and stays so.
Break(s) ==
    /\ pending' = [pending EXCEPT ![s] = {}]
    /\ broken'  = [broken EXCEPT ![s] = TRUE]

\* One item: inserted and counted, or an error that the loop passes over.
Insert(s, i) ==
    /\ pc[s] \in Kinds /\ listed[s] /\ i \in left[s]
    /\ left' = [left EXCEPT ![s] = @ \ {i}]
    /\ \/ /\ ~broken[s]
          /\ pending' = [pending EXCEPT ![s] = @ \cup {RowOf(s, i)}]
          /\ counted' = [counted EXCEPT ![s] = @ \cup {RowOf(s, i)}]
          /\ UNCHANGED <<broken, errors>>
       \/ /\ broken[s] \/ "item" \in Faults
          /\ errors' = [errors EXCEPT ![s] = TRUE]
          /\ UNCHANGED <<pending, broken, counted>>
       \/ /\ ~broken[s] /\ "database" \in Faults
          /\ errors' = [errors EXCEPT ![s] = TRUE]
          /\ Break(s)
          /\ UNCHANGED counted
    /\ UNCHANGED <<by, remote, closed, rows, pc, listed, answer, steady, cut>>

EndOfList(s) ==
    /\ pc[s] \in Kinds /\ listed[s] /\ left[s] = {}
    /\ pc' = [pc EXCEPT ![s] = NextKind(@)]
    /\ listed' = [listed EXCEPT ![s] = FALSE]
    /\ UNCHANGED <<by, remote, closed, rows, left, pending, broken, counted, errors, answer, steady, cut>>

\* Mutation: a commit that raises is answered like one that does not.
CommitQuietly(s) ==
    /\ pc[s] = "commit"
    /\ pc' = [pc EXCEPT ![s] = "ended"]
    /\ answer' = [answer EXCEPT ![s] = "success"]
    /\ rows' = IF broken[s] THEN rows ELSE rows \cup pending[s]
    /\ UNCHANGED <<by, remote, closed, listed, left, pending, broken, counted, errors, steady, cut>>

\* get_db commits when the handler has returned, before the answer is sent.
Commit(s) ==
    /\ pc[s] = "commit"
    /\ pc' = [pc EXCEPT ![s] = "ended"]
    /\ \/ /\ ~broken[s]
          /\ rows'   = rows \cup pending[s]
          /\ answer' = [answer EXCEPT ![s] = "success"]
       \/ /\ broken[s] \/ "database" \in Faults
          /\ answer' = [answer EXCEPT ![s] = "error"]
          /\ UNCHANGED rows
    /\ UNCHANGED <<by, remote, closed, listed, left, pending, broken, counted, errors, steady, cut>>

Next ==
    \/ \E i \in Items : Change(i)
    \/ \E i \in Issues \cup Pulls : CloseOrReopen(i)
    \/ \E s \in Syncs :
          \/ Connect(s) \/ Begin(s) \/ EndOfList(s) \/ Commit(s)
          \/ \E k \in Kinds : List(s, k)
          \/ \E i \in Items : Insert(s, i)

Spec == Init /\ [][Next]_vars

-----------------------------------------------------------------------------
Of(s) == {x \in rows : x.sync = s}

\* What the answer counts is what the database holds: a failed insert takes
\* back the rows before it, and then no count is answered.
CountsAreRows ==
    \A s \in Syncs :
        /\ answer[s] = "success" => Of(s) \cap Row = counted[s]
        /\ answer[s] = "error" => Of(s) = {}

\* No mirrored item is ever there without the row of its repository.
ItemsHaveRepo ==
    \A x \in rows : x.kind # "repo" => [sync |-> x.sync, kind |-> "repo"] \in rows

KindOf(i) == IF i \in Files THEN "code" ELSE IF i \in Issues THEN "issue" ELSE "pr"

\* A sync that succeeds without meeting an error has all that was there to be
\* listed from its beginning (for a user's token: open all the while), but for the
\* kinds whose listing is longer than it looks at.
FullSync ==
    \A s \in Syncs : answer[s] = "success" /\ ~errors[s] =>
        \A i \in steady[s] \ Dirs :
            KindOf(i) \notin cut[s] => [sync |-> s, kind |-> KindOf(i), item |-> i] \in rows

-----------------------------------------------------------------------------
(* What docstrings say, and the code does not always do. *)

\* "Full repo sync, metadata + files + issues + PRs".
NothingIsCut == \A s \in Syncs : answer[s] = "success" /\ ~errors[s] => cut[s] = {}

\* "M ISSUE assets + K PR assets", by a user's token as well.
OneRowPerItem ==
    \A x, y \in rows : x.kind # "repo" /\ y.kind # "repo" /\ x.sync = y.sync /\ x.item = y.item => x = y

\* "Create or update repo asset."
OneRepoAsset == Cardinality({x \in rows : x.kind = "repo"}) <= 1

=============================================================================
