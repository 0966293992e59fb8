------------------------- MODULE PresentationLinks -------------------------
(***************************************************************************)
(* The presentation links of one markdown file: requests that create them, *)
(* viewers that resolve them without a login, and the requests that edit,  *)
(* complete and delete the file meanwhile.  A link is named by the request *)
(* that creates it.                                                        *)
(*                                                                         *)
(* A "snapshot" link freezes the file: its request copies the object to a  *)
(* key of its own before it inserts the row.  A "live" link reads the      *)
(* file's object at each view.                                             *)
(*                                                                         *)
(* Each request is one transaction at READ COMMITTED: what it writes is    *)
(* seen by others from its commit on.  An UPDATE locks the rows it writes  *)
(* until the commit; another UPDATE of such a row waits for that, and then *)
(* reads the row again.  A revocation writes a constant, so it is applied  *)
(* at its commit; record_access reads access_count and writes it plus one, *)
(* so that its UPDATE and its commit are steps of their own.               *)
(***************************************************************************)
EXTENDS Naturals, FiniteSets

CONSTANTS
    Creates,      \* POST .../presentation-links requests, and their links
    Snapshots,    \* those with mode "snapshot"
    Protected,    \* those with a password
    Expiring,     \* those with expiresAt
    Users,
    Author,       \* the user who sends a create request
    Views,        \* GET /p/{token} requests
    Deletes,      \* DELETE /files/{id} requests for the file
    OtherDeletes, \* whether the file is also deleted by GraphQL or its folder
    Quota,        \* CREATE_LINK_HOURLY_QUOTA
    MaxRevision   \* bound on the number of PUTs of the file's content

ASSUME LinksAssumption ==
    /\ IsFiniteSet(Views)
    /\ Creates \cap Views = {} /\ Creates \cap Deletes = {}
    /\ Views \cap Deletes = {}
    /\ Snapshots \subseteq Creates
    /\ Protected \subseteq Creates
    /\ Expiring  \subseteq Creates
    /\ Author \in [Creates -> Users]
    /\ OtherDeletes \in BOOLEAN
    /\ Quota \in Nat /\ MaxRevision \in Nat

Requests  == Creates \cup Views \cup Deletes
Revisions == 0 .. MaxRevision

VARIABLES
    fileDeleted, \* the file's deleted_at IS NOT NULL
    blobRef,     \* the file's blob_ref IS NOT NULL
    revision,    \* how often the file's object has been PUT
    content,     \* the revision under the file's key, 0 when there is none
    row,         \* the committed row of a link
    recent,      \* the links whose created_at is within the last hour
    expired,     \* the links whose expires_at has passed
    snapshot,    \* the revision under a link's snapshot key, 0 for none
    accessCount, \* access_count of a link
    unlocked,    \* the links for which somebody holds a valid unlock token
    pc,          \* how far a request has come
    opened,      \* the link whose token a view presents
    got,         \* the revision a view has fetched
    count,       \* the access_count that a view's UPDATE has written
    seenBlob,    \* the blob_ref a delete read in its look-up
    revoking,    \* the links a delete's revoke_by_file_id matched
    \* history
    there,       \* the links that had a row when a delete arrived
    acked        \* the deletes that had committed when a view arrived

fileVars  == <<fileDeleted, blobRef, revision, content>>
linkVars  == <<row, recent, expired, snapshot, accessCount, unlocked>>
viewVars  == <<opened, got, count, acked>>
delVars   == <<seenBlob, revoking, there>>
vars      == <<fileVars, linkVars, pc, viewVars, delVars>>

\* "failed" is any answer that is an error, a refusal or an exception.
PCs == {"idle", "counted", "found", "copied", "inserted", "admitted",
        "located", "fetched", "recorded", "served", "written", "revoking",
        "committed", "done", "failed"}

(***************************************************************************)
(* Type invariant.                                                         *)
(***************************************************************************)
TypeOK ==
    /\ fileDeleted \in BOOLEAN
    /\ blobRef     \in BOOLEAN
    /\ revision    \in Revisions
    /\ content     \in Revisions
    /\ row         \in [Creates -> {"none", "active", "revoked"}]
    /\ recent      \subseteq Creates
    /\ expired     \subseteq Creates
    /\ snapshot    \in [Creates -> Revisions]
    /\ accessCount \in [Creates -> Nat]
    /\ unlocked    \subseteq Creates
    /\ pc          \in [Requests -> PCs]
    /\ opened      \in [Views -> SUBSET Creates]
    /\ got         \in [Views -> Revisions]
    /\ count       \in [Views -> Nat]
    /\ seenBlob    \in [Deletes -> BOOLEAN]
    /\ revoking    \in [Deletes -> SUBSET Creates]
    /\ there       \in [Deletes -> SUBSET Creates]
    /\ acked       \in [Views -> SUBSET Deletes]

Init ==
    /\ fileDeleted = FALSE
    /\ blobRef     = FALSE
    /\ revision    = 0
    /\ content     = 0
    /\ row         = [c \in Creates |-> "none"]
    /\ recent      = {}
    /\ expired     = {}
    /\ snapshot    = [c \in Creates |-> 0]
    /\ accessCount = [c \in Creates |-> 0]
    /\ unlocked    = {}
    /\ pc          = [r \in Requests |-> "idle"]
    /\ opened      = [v \in Views |-> {}]
    /\ got         = [v \in Views |-> 0]
    /\ count       = [v \in Views |-> 0]
    /\ seenBlob    = [d \in Deletes |-> FALSE]
    /\ revoking    = [d \in Deletes |-> {}]
    /\ there       = [d \in Deletes |-> {}]
    /\ acked       = [v \in Views |-> {}]

-----------------------------------------------------------------------------
Goto(r, from, to) ==
    /\ pc[r] = from
    /\ pc' = [pc EXCEPT ![r] = to]

Answered == {"idle", "served", "done", "failed"}

\* What resolve_link and unlock ask of a row first.
Open(c) == row[c] = "active" /\ c \notin expired

\* An open transaction holds the lock of the file's row.
FileLocked == \E d \in Deletes : pc[d] \in {"written", "revoking"}

\* An open transaction of a viewer holds the lock of the link's row.
LinkLocked(c) == \E v \in Views : pc[v] = "recorded" /\ c \in opened[v]

-----------------------------------------------------------------------------
(* The file (AssetPipeline has the detail). *)

\* Every PUT goes to the same key, before and after a delete.
PutObject ==
    /\ revision < MaxRevision
    /\ revision' = revision + 1
    /\ content' = revision + 1
    /\ UNCHANGED <<fileDeleted, blobRef, linkVars, pc, viewVars, delVars>>

\* A complete may have looked the row up before a delete that has committed.
CompleteUpload ==
    /\ content # 0
    /\ blobRef' = TRUE
    /\ UNCHANGED <<fileDeleted, revision, content, linkVars, pc, viewVars,
                   delVars>>

\* GraphQL deleteAsset, and a recursive delete of the folder: soft_delete.
OtherDelete ==
    /\ OtherDeletes
    /\ ~FileLocked
    /\ fileDeleted' = TRUE
    /\ UNCHANGED <<blobRef, revision, content, linkVars, pc, viewVars, delVars>>

-----------------------------------------------------------------------------
(* create_link *)

\* count_created_since sees committed rows; 429 at the quota.
CountRecent(c) ==
    /\ LET mine == {l \in recent : Author[l] = Author[c]}
       IN  Goto(c, "idle", IF Cardinality(mine) < Quota THEN "counted"
                                                        ELSE "failed")
    /\ UNCHANGED <<fileVars, linkVars, viewVars, delVars>>

\* 404 unless the file is live; 400 for a snapshot of a file without blob_ref.
FindFile(c) ==
    /\ Goto(c, "counted",
            IF ~fileDeleted /\ (c \in Snapshots => blobRef) THEN "found"
                                                            ELSE "failed")
    /\ UNCHANGED <<fileVars, linkVars, viewVars, delVars>>

\* copy_object copies what the key holds at that moment, and raises when it
\* holds nothing.
CopyObject(c) ==
    /\ c \in Snapshots
    /\ Goto(c, "found", IF content # 0 THEN "copied" ELSE "failed")
    /\ snapshot' = [snapshot EXCEPT ![c] = content]
    /\ UNCHANGED <<fileVars, row, recent, expired, accessCount, unlocked,
                   viewVars, delVars>>

\* Mutation: no copy is made, as if the version could name the source's key.
InsertLinkUncopied(c) ==
    /\ Goto(c, "found", "inserted")
    /\ UNCHANGED <<fileVars, linkVars, viewVars, delVars>>

\* The version row, for a snapshot, and the link row.
InsertLink(c) ==
    /\ Goto(c, IF c \in Snapshots THEN "copied" ELSE "found", "inserted")
    /\ UNCHANGED <<fileVars, linkVars, viewVars, delVars>>

CommitLink(c) ==
    /\ Goto(c, "inserted", "done")
    /\ row' = [row EXCEPT ![c] = "active"]
    /\ recent' = recent \cup {c}
    /\ UNCHANGED <<fileVars, expired, snapshot, accessCount, unlocked,
                   viewVars, delVars>>

-----------------------------------------------------------------------------
(* DELETE /presentation-links/{id} *)
RevokeLink(c) ==
    /\ row[c] # "none" /\ ~LinkLocked(c)
    /\ row' = [row EXCEPT ![c] = "revoked"]
    /\ UNCHANGED <<fileVars, recent, expired, snapshot, accessCount, unlocked,
                   pc, viewVars, delVars>>

(* POST /p/{token}/unlock with the right password, and the end of the five
   minutes its token is valid. *)
Unlock(c) ==
    /\ c \in Protected /\ Open(c)
    /\ unlocked' = unlocked \cup {c}
    /\ UNCHANGED <<fileVars, row, recent, expired, snapshot, accessCount, pc,
                   viewVars, delVars>>

UnlockExpires(c) ==
    /\ c \in unlocked
    /\ unlocked' = unlocked \ {c}
    /\ UNCHANGED <<fileVars, row, recent, expired, snapshot, accessCount, pc,
                   viewVars, delVars>>

(* The clock: expires_at passes, created_at leaves the last hour. *)
LinkExpires(c) ==
    /\ c \in Expiring \ expired
    /\ row[c] # "none"
    /\ expired' = expired \cup {c}
    /\ UNCHANGED <<fileVars, row, recent, snapshot, accessCount, unlocked, pc,
                   viewVars, delVars>>

\* The hour matters only as long as a request is still to count.
HourPasses(c) ==
    /\ c \in recent
    /\ \E d \in Creates : pc[d] = "idle"
    /\ recent' = recent \ {c}
    /\ UNCHANGED <<fileVars, row, expired, snapshot, accessCount, unlocked, pc,
                   viewVars, delVars>>

-----------------------------------------------------------------------------
(* resolve_link *)

\* Mutation: an unlock token is taken for proof that the link is open.
ResolveTokenUnlocked(v, c) ==
    /\ Goto(v, "idle", IF (Open(c) /\ c \notin Protected) \/ c \in unlocked
                       THEN "admitted" ELSE "failed")
    /\ opened' = [opened EXCEPT ![v] = {c}]
    /\ acked'  = [acked EXCEPT ![v] =
                    {d \in Deletes : pc[d] \in {"committed", "done"}}]
    /\ UNCHANGED <<fileVars, linkVars, got, count, delVars>>

\* 404 for an unknown, revoked or expired link, 403 for a protected one
\* without a valid unlock token (which the viewer need not send).
ResolveToken(v, c) ==
    /\ \/ /\ Open(c) /\ (c \in Protected => c \in unlocked)
          /\ Goto(v, "idle", "admitted")
       \/ /\ ~Open(c) \/ c \in Protected
          /\ Goto(v, "idle", "failed")
    /\ opened' = [opened EXCEPT ![v] = {c}]
    /\ acked'  = [acked EXCEPT ![v] =
                    {d \in Deletes : pc[d] \in {"committed", "done"}}]
    /\ UNCHANGED <<fileVars, linkVars, got, count, delVars>>

\* The version's key for a snapshot; for a live link the file must be live
\* and name its blob, or 404.
LocateContent(v) ==
    /\ LET here == opened[v] \subseteq Snapshots \/ (~fileDeleted /\ blobRef)
       IN  Goto(v, "admitted", IF here THEN "located" ELSE "failed")
    /\ UNCHANGED <<fileVars, linkVars, viewVars, delVars>>

\* Mutation: both modes read the file's own key.
FetchContentCurrent(v) ==
    /\ Goto(v, "located", IF content # 0 THEN "fetched" ELSE "failed")
    /\ got' = [got EXCEPT ![v] = content]
    /\ UNCHANGED <<fileVars, linkVars, opened, count, acked, delVars>>

\* get_object raises when the key holds nothing: 500.
FetchContent(v) ==
    /\ \E c \in opened[v] :
          LET found == IF c \in Snapshots THEN snapshot[c] ELSE content
          IN  /\ Goto(v, "located", IF found # 0 THEN "fetched" ELSE "failed")
              /\ got' = [got EXCEPT ![v] = found]
    /\ UNCHANGED <<fileVars, linkVars, opened, count, acked, delVars>>

\* Mutation: the count is read before and written back, with no lock between.
RecordAccessStale(v) ==
    /\ Goto(v, "fetched", "recorded")
    /\ \E c \in opened[v] : count' = [count EXCEPT ![v] = accessCount[c] + 1]
    /\ UNCHANGED <<fileVars, linkVars, opened, got, acked, delVars>>

\* The UPDATE of record_access, once the row is free.
RecordAccess(v) ==
    /\ Goto(v, "fetched", "recorded")
    /\ \E c \in opened[v] :
          /\ ~LinkLocked(c)
          /\ count' = [count EXCEPT ![v] = accessCount[c] + 1]
    /\ UNCHANGED <<fileVars, linkVars, opened, got, acked, delVars>>

\* get_db commits, and the response goes out.
CommitView(v) ==
    /\ Goto(v, "recorded", "served")
    /\ accessCount' = [c \in Creates |->
                         IF c \in opened[v] THEN count[v] ELSE accessCount[c]]
    /\ UNCHANGED <<fileVars, row, recent, expired, snapshot, unlocked,
                   viewVars, delVars>>

-----------------------------------------------------------------------------
(* delete_asset *)

DeleteLookup(d) ==
    /\ Goto(d, "idle", IF fileDeleted THEN "failed" ELSE "found")
    /\ seenBlob' = [seenBlob EXCEPT ![d] = blobRef]
    /\ there' = [there EXCEPT ![d] = {c \in Creates : row[c] # "none"}]
    /\ UNCHANGED <<fileVars, linkVars, viewVars, revoking>>

SoftDelete(d) ==
    /\ ~FileLocked
    /\ Goto(d, "found", "written")
    /\ UNCHANGED <<fileVars, linkVars, viewVars, delVars>>

\* revoke_by_file_id matches the rows that are committed and not revoked.  It
\* locks them one by one, and CommitDelete waits until it has them all.
RevokeLinks(d) ==
    /\ Goto(d, "written", "revoking")
    /\ revoking' = [revoking EXCEPT ![d] =
                      {c \in Creates : row[c] = "active"}]
    /\ UNCHANGED <<fileVars, linkVars, viewVars, seenBlob, there>>

CommitDelete(d) ==
    /\ \A c \in revoking[d] : ~LinkLocked(c)
    /\ Goto(d, "revoking", "committed")
    /\ fileDeleted' = TRUE
    /\ row' = [c \in Creates |->
                 IF c \in revoking[d] THEN "revoked" ELSE row[c]]
    /\ UNCHANGED <<blobRef, revision, content, recent, expired, snapshot,
                   accessCount, unlocked, viewVars, delVars>>

\* The background task; snapshots are kept.
DeleteBlob(d) ==
    /\ Goto(d, "committed", "done")
    /\ content' = IF seenBlob[d] THEN 0 ELSE content
    /\ UNCHANGED <<fileDeleted, blobRef, revision, linkVars, viewVars, delVars>>

-----------------------------------------------------------------------------
\* An S3 call raises, the commit fails, or the process dies: the transaction
\* is rolled back, a copied object stays.
Abort(r) ==
    /\ pc[r] \notin Answered
    /\ pc' = [pc EXCEPT ![r] = IF pc[r] = "committed" THEN "done"
                                                     ELSE "failed"]
    /\ UNCHANGED <<fileVars, linkVars, viewVars, delVars>>

ServeCreate(c) ==
    \/ CountRecent(c)
    \/ FindFile(c)
    \/ CopyObject(c)
    \/ InsertLink(c)
    \/ CommitLink(c)

ServeView(v) ==
    \/ \E c \in Creates : ResolveToken(v, c)
    \/ LocateContent(v)
    \/ FetchContent(v)
    \/ RecordAccess(v)
    \/ CommitView(v)

ServeDelete(d) ==
    \/ DeleteLookup(d)
    \/ SoftDelete(d)
    \/ RevokeLinks(d)
    \/ CommitDelete(d)
    \/ DeleteBlob(d)

Next ==
    \/ PutObject \/ CompleteUpload \/ OtherDelete
    \/ \E c \in Creates :
          \/ ServeCreate(c) \/ RevokeLink(c) \/ Unlock(c) \/ UnlockExpires(c)
          \/ LinkExpires(c) \/ HourPasses(c)
    \/ \E v \in Views : ServeView(v)
    \/ \E d \in Deletes : ServeDelete(d)
    \/ \E r \in Requests : Abort(r)

Spec == Init /\ [][Next]_vars

-----------------------------------------------------------------------------
(* Safety *)

\* A snapshot is frozen: whatever is PUT to the file, and whether it is
\* deleted, every viewer of a snapshot link gets the same revision.
SnapshotFrozen ==
    \A v, w \in Views :
        /\ pc[v] = "served" /\ pc[w] = "served"
        /\ opened[v] = opened[w] /\ opened[v] \subseteq Snapshots
        => got[v] = got[w]

\* A snapshot link that exists has its copy, however its file was edited,
\* deleted or its object removed while the link was being created.
SnapshotHasContent ==
    \A c \in Snapshots : row[c] # "none" => snapshot[c] # 0

\* access_count is exactly the number of views served: of viewers that update
\* the row at once none overwrites what another has counted, and a view that
\* is rolled back after its UPDATE is not counted.
AccessCountExact ==
    \A c \in Creates :
        accessCount[c] =
            Cardinality({v \in Views : pc[v] = "served" /\ opened[v] = {c}})

\* A viewer who arrives after delete_asset has committed is not served by a
\* link that existed when the delete arrived, unlocked or not, snapshot or
\* live.
DeletedFileUnreachable ==
    \A v \in Views, d \in Deletes :
        d \in acked[v] /\ opened[v] \cap there[d] # {} => pc[v] # "served"

-----------------------------------------------------------------------------
(* What comments and docstrings of the code say, and the code does not do. *)

\* "deletion itself now also auto-revokes a file's links": once no request is
\* under way, a deleted file has no active link.
DeletedFileHasNoActiveLink ==
    fileDeleted /\ (\A r \in Requests : pc[r] \in Answered) =>
        \A c \in Creates : row[c] # "active"

\* The quota of 50 links an hour per user, "enforced ... via a real COUNT
\* query".
QuotaEnforced ==
    \A u \in Users : Cardinality({c \in recent : Author[c] = u}) <= Quota

=============================================================================
