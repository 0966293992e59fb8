--------------------------- MODULE AssetPipeline ---------------------------
(***************************************************************************)
(* The life of an uploaded file: the row in Postgres, the object in MinIO, *)
(* the point in Qdrant, and everything that races over them.               *)
(*                                                                         *)
(* Actors: the REST handlers complete_upload and delete_asset (one-shot    *)
(* requests, each served by one of the uvicorn processes), the GraphQL     *)
(* deleteAsset mutation, and, in EVERY process, one embedding handler task *)
(* per upload_complete event that process receives over Redis pub/sub.     *)
(*                                                                         *)
(* Postgres runs at READ COMMITTED: an UPDATE holds the row's lock until   *)
(* its transaction ends, and a second UPDATE waits for it and then writes  *)
(* over it.  A transaction's writes are applied at its commit step; while  *)
(* it is open RowLocked keeps every other writer of the row out.           *)
(***************************************************************************)
EXTENDS Naturals, FiniteSets

CONSTANTS
    Procs,      \* uvicorn worker processes, each with its own event consumer
    Assets,     \* asset ids
    Completes,  \* POST /uploads/{id}/complete requests
    Deletes,    \* DELETE /files/{id} requests
    Faults      \* the failures the environment may cause, a subset of FaultKinds

FaultKinds ==
    {"crash",       \* a process dies (and its supervisor starts it again)
     "disconnect",  \* a consumer loses its pub/sub connection
     "publish",     \* redis.publish raises; publish_event swallows it
     "commit",      \* the commit of a request fails and is rolled back
     "redis",       \* SET NX on the embedding lock raises
     "expire",      \* the 300 s TTL of the embedding lock runs out
     "index",       \* no vector, or a Qdrant call fails; both are swallowed
     "storage",     \* delete_object fails; the background task swallows it
     "worker"}      \* the embedding handler raises and swallows it

ASSUME PipelineAssumption ==
    /\ Completes \cap Deletes = {}
    /\ Faults \subseteq FaultKinds

Requests == Completes \cup Deletes

VARIABLES
    status,     \* Asset.status of the committed row, "none" before the insert
    deleted,    \* Asset.deleted_at IS NOT NULL
    blobRef,    \* Asset.blob_ref IS NOT NULL
    stored,     \* the object exists in the bucket
    point,      \* the asset's point exists in the Qdrant collection
    lock,       \* the Redis key embedding:lock:{asset} exists
    online,     \* the process's consumer is subscribed to fileserver:events
    host,       \* the process serving a request
    target,     \* the asset a request names
    pc,         \* how far a request has come
    seenBlob,   \* the asset.blob_ref a delete_asset read in its lookup
    task        \* how far a process's embedding handler for an event has come

rowVars  == <<status, deleted, blobRef>>
traffic  == <<host, target>>
vars     == <<status, deleted, blobRef, stored, point, lock, online,
              host, target, pc, seenBlob, task>>

Statuses == {"none", "pending", "processing", "ready", "deleted"}
RequestPCs ==
    {"idle", "found", "verified", "written", "published", "committed",
     "unindexed", "done"}
TaskPCs == {"none", "queued", "locked", "loaded", "stored", "checked", "done"}

(***************************************************************************)
(* Type invariant.                                                         *)
(***************************************************************************)
TypeOK ==
    /\ status   \in [Assets -> Statuses]
    /\ deleted  \in [Assets -> BOOLEAN]
    /\ blobRef  \in [Assets -> BOOLEAN]
    /\ stored   \in [Assets -> BOOLEAN]
    /\ point    \in [Assets -> BOOLEAN]
    /\ lock     \in [Assets -> BOOLEAN]
    /\ online   \in [Procs -> BOOLEAN]
    /\ host     \in [Requests -> Procs]
    /\ target   \in [Requests -> Assets]
    /\ pc       \in [Requests -> RequestPCs]
    /\ seenBlob \in [Deletes -> BOOLEAN]
    /\ task     \in [Procs -> [Completes -> TaskPCs]]

Init ==
    /\ status   = [a \in Assets |-> "none"]
    /\ deleted  = [a \in Assets |-> FALSE]
    /\ blobRef  = [a \in Assets |-> FALSE]
    /\ stored   = [a \in Assets |-> FALSE]
    /\ point    = [a \in Assets |-> FALSE]
    /\ lock     = [a \in Assets |-> FALSE]
    /\ online   = [p \in Procs |-> TRUE]
    /\ host     \in [Requests -> Procs]
    /\ target   \in [Requests -> Assets]
    /\ pc       = [r \in Requests |-> "idle"]
    /\ seenBlob = [d \in Deletes |-> FALSE]
    /\ task     = [p \in Procs |-> [c \in Completes |-> "none"]]

-----------------------------------------------------------------------------
\* asset_repo.get_by_id: the row exists and is not soft-deleted.
Live(a) == status[a] # "none" /\ ~deleted[a]

\* Some request's open transaction has updated the row and not yet ended.
RowLocked(a) ==
    \E r \in Requests : target[r] = a /\ pc[r] \in {"written", "published"}

\* The embedding handler works on the asset under, or in spite of, the lock.
Embedding(p, c) == task[p][c] \in {"locked", "loaded", "stored", "checked"}

Goto(r, from, to) ==
    /\ pc[r] = from
    /\ pc' = [pc EXCEPT ![r] = to]

TaskGoto(p, c, from, to) ==
    /\ task[p][c] = from
    /\ task' = [task EXCEPT ![p][c] = to]

-----------------------------------------------------------------------------
(* POST /uploads/init and the client's PUT to the presigned URL. *)

\* The insert is invisible until its commit, and the id reaches the client
\* only with the response, so the handler is one step.
InitUpload(a) ==
    /\ status[a] = "none"
    /\ status' = [status EXCEPT ![a] = "pending"]
    /\ UNCHANGED <<deleted, blobRef, stored, point, lock, online, traffic, pc,
                   seenBlob, task>>

\* The URL stays valid after /complete and after a delete.
PutObject(a) ==
    /\ status[a] # "none"
    /\ stored' = [stored EXCEPT ![a] = TRUE]
    /\ UNCHANGED <<rowVars, point, lock, online, traffic, pc, seenBlob, task>>

-----------------------------------------------------------------------------
(* POST /uploads/{id}/complete *)

\* 404 unless the row is live.
CompleteLookup(r) ==
    /\ Goto(r, "idle", IF Live(target[r]) THEN "found" ELSE "done")
    /\ UNCHANGED <<rowVars, stored, point, lock, online, traffic, seenBlob,
                   task>>

\* Mutation: /complete without its head_object.
CompleteVerifyUnchecked(r) ==
    /\ Goto(r, "found", "verified")
    /\ UNCHANGED <<rowVars, stored, point, lock, online, traffic, seenBlob,
                   task>>

\* head_object and the checksum: 422 when the object is absent or differs.
CompleteVerify(r) ==
    /\ \/ stored[target[r]] /\ Goto(r, "found", "verified")
       \/ Goto(r, "found", "done")
    /\ UNCHANGED <<rowVars, stored, point, lock, online, traffic, seenBlob,
                   task>>

\* asset_repo.update_blob: an UPDATE by id alone, not yet committed.
UpdateBlob(r) ==
    /\ ~RowLocked(target[r])
    /\ Goto(r, "verified", "written")
    /\ UNCHANGED <<rowVars, stored, point, lock, online, traffic, seenBlob,
                   task>>

\* publish_upload_complete, before the commit: every subscribed process
\* starts a handler task; a process that is not subscribed never hears of it.
PublishUploadComplete(r) ==
    /\ Goto(r, "written", "published")
    /\ \/ task' = [p \in Procs |->
                     IF online[p] THEN [task[p] EXCEPT ![r] = "queued"]
                                  ELSE task[p]]
       \/ "publish" \in Faults /\ UNCHANGED task
    /\ UNCHANGED <<rowVars, stored, point, lock, online, traffic, seenBlob>>

\* Mutation: update_blob writes a status the enumeration does not have.
CommitCompleteUnlisted(r) ==
    /\ Goto(r, "published", "done")
    /\ blobRef' = [blobRef EXCEPT ![target[r]] = TRUE]
    /\ status'  = [status EXCEPT ![target[r]] = "complete"]
    /\ UNCHANGED <<deleted, stored, point, lock, online, traffic, seenBlob,
                   task>>

\* Mutation: update_blob clears deleted_at.
CommitCompleteReviving(r) ==
    /\ Goto(r, "published", "done")
    /\ blobRef' = [blobRef EXCEPT ![target[r]] = TRUE]
    /\ status'  = [status EXCEPT ![target[r]] = "processing"]
    /\ deleted' = [deleted EXCEPT ![target[r]] = FALSE]
    /\ UNCHANGED <<stored, point, lock, online, traffic, seenBlob, task>>

\* get_db commits after the handler has returned.
CommitComplete(r) ==
    /\ Goto(r, "published", "done")
    /\ blobRef' = [blobRef EXCEPT ![target[r]] = TRUE]
    /\ status'  = [status EXCEPT ![target[r]] = "processing"]
    /\ UNCHANGED <<deleted, stored, point, lock, online, traffic, seenBlob,
                   task>>

\* The commit of either handler raises: get_db rolls back, the client sees
\* a 500, and no background task runs.
CommitFails(r) ==
    /\ "commit" \in Faults
    /\ Goto(r, "published", "done")
    /\ UNCHANGED <<rowVars, stored, point, lock, online, traffic, seenBlob,
                   task>>

-----------------------------------------------------------------------------
(* DELETE /files/{id} *)

DeleteLookup(r) ==
    /\ Goto(r, "idle", IF Live(target[r]) THEN "found" ELSE "done")
    /\ seenBlob' = [seenBlob EXCEPT ![r] = blobRef[target[r]]]
    /\ UNCHANGED <<rowVars, stored, point, lock, online, traffic, task>>

\* asset_repo.soft_delete: an UPDATE that does not ask whether the row is
\* deleted already.
SoftDelete(r) ==
    /\ ~RowLocked(target[r])
    /\ Goto(r, "found", "written")
    /\ UNCHANGED <<rowVars, stored, point, lock, online, traffic, seenBlob,
                   task>>

\* Mutation: the point is removed in the handler, before the commit.
PublishDeletedUnindexing(r) ==
    /\ Goto(r, "written", "published")
    /\ point' = [point EXCEPT ![target[r]] = FALSE]
    /\ UNCHANGED <<rowVars, stored, lock, online, traffic, seenBlob, task>>

\* publish_event(ASSET_DELETED): no worker handles it.
PublishDeleted(r) ==
    /\ Goto(r, "written", "published")
    /\ UNCHANGED <<rowVars, stored, point, lock, online, traffic, seenBlob,
                   task>>

CommitDelete(r) ==
    /\ Goto(r, "published", "committed")
    /\ deleted' = [deleted EXCEPT ![target[r]] = TRUE]
    /\ status'  = [status EXCEPT ![target[r]] = "deleted"]
    /\ UNCHANGED <<blobRef, stored, point, lock, online, traffic, seenBlob,
                   task>>

\* Background task 1, after the response.
DeleteFromIndex(r) ==
    /\ Goto(r, "committed", "unindexed")
    /\ \/ point' = [point EXCEPT ![target[r]] = FALSE]
       \/ "index" \in Faults /\ UNCHANGED point
    /\ UNCHANGED <<rowVars, stored, lock, online, traffic, seenBlob, task>>

\* Background task 2: the key is the one read by the lookup.
DeleteBlob(r) ==
    /\ Goto(r, "unindexed", "done")
    /\ \/ seenBlob[r] /\ stored' = [stored EXCEPT ![target[r]] = FALSE]
       \/ (~seenBlob[r] \/ "storage" \in Faults) /\ UNCHANGED stored
    /\ UNCHANGED <<rowVars, point, lock, online, traffic, seenBlob, task>>

(* The GraphQL mutation deleteAsset: soft_delete, commit, publish; nothing
   is removed from the index or the bucket. *)
GraphqlDelete(a) ==
    /\ status[a] # "none"
    /\ ~RowLocked(a)
    /\ deleted' = [deleted EXCEPT ![a] = TRUE]
    /\ status'  = [status EXCEPT ![a] = "deleted"]
    /\ UNCHANGED <<blobRef, stored, point, lock, online, traffic, pc, seenBlob,
                   task>>

-----------------------------------------------------------------------------
(* workers/ai/embeddings.py handle_upload_complete, in process p for the
   event published by request c. *)

\* Mutation: SET without NX.
AcquireLockPlainSet(p, c) ==
    /\ lock' = [lock EXCEPT ![target[c]] = TRUE]
    /\ TaskGoto(p, c, "queued", "locked")
    /\ UNCHANGED <<rowVars, stored, point, online, traffic, pc, seenBlob>>

\* SET NX EX 300: skip when the key exists, go on without it when Redis fails.
AcquireLock(p, c) ==
    /\ \/ /\ ~lock[target[c]]
          /\ lock' = [lock EXCEPT ![target[c]] = TRUE]
          /\ TaskGoto(p, c, "queued", "locked")
       \/ /\ lock[target[c]]
          /\ TaskGoto(p, c, "queued", "done")
          /\ UNCHANGED lock
       \/ /\ "redis" \in Faults
          /\ TaskGoto(p, c, "queued", "locked")
          /\ UNCHANGED lock
    /\ UNCHANGED <<rowVars, stored, point, online, traffic, pc, seenBlob>>

\* Mutation: the handler wants to see the row in PROCESSING.
LoadAssetProcessing(p, c) ==
    /\ TaskGoto(p, c, "locked",
                IF Live(target[c]) /\ status[target[c]] = "processing"
                THEN "loaded" ELSE "done")
    /\ UNCHANGED <<rowVars, stored, point, lock, online, traffic, pc, seenBlob>>

LoadAsset(p, c) ==
    /\ TaskGoto(p, c, "locked", IF Live(target[c]) THEN "loaded" ELSE "done")
    /\ UNCHANGED <<rowVars, stored, point, lock, online, traffic, pc, seenBlob>>

\* Text extraction, embedding and upsert; the upsert's failure is logged.
StoreEmbedding(p, c) ==
    /\ TaskGoto(p, c, "loaded", "stored")
    /\ \/ point' = [point EXCEPT ![target[c]] = TRUE]
       \/ "index" \in Faults /\ UNCHANGED point
    /\ UNCHANGED <<rowVars, stored, lock, online, traffic, pc, seenBlob>>

RecheckExists(p, c) ==
    /\ TaskGoto(p, c, "stored", IF Live(target[c]) THEN "checked" ELSE "done")
    /\ UNCHANGED <<rowVars, stored, point, lock, online, traffic, pc, seenBlob>>

\* Mutation: no row lock stands between the worker and the open transaction.
UpdateStatusReadyUnblocked(p, c) ==
    /\ TaskGoto(p, c, "checked", "done")
    /\ status' = [status EXCEPT ![target[c]] = "ready"]
    /\ UNCHANGED <<deleted, blobRef, stored, point, lock, online, traffic, pc,
                   seenBlob>>

\* asset_repo.update_status and commit: an UPDATE by id alone.
UpdateStatusReady(p, c) ==
    /\ ~RowLocked(target[c])
    /\ TaskGoto(p, c, "checked", "done")
    /\ status' = [status EXCEPT ![target[c]] = "ready"]
    /\ UNCHANGED <<deleted, blobRef, stored, point, lock, online, traffic, pc,
                   seenBlob>>

\* Any exception under the lock is logged and swallowed; the lock stays.
HandlerFails(p, c) ==
    /\ "worker" \in Faults
    /\ Embedding(p, c)
    /\ task' = [task EXCEPT ![p][c] = "done"]
    /\ UNCHANGED <<rowVars, stored, point, lock, online, traffic, pc, seenBlob>>

-----------------------------------------------------------------------------
(* The environment. *)

\* Nothing deletes the key: only its TTL ends the exclusion.
LockExpires(a) ==
    /\ "expire" \in Faults
    /\ lock[a]
    /\ lock' = [lock EXCEPT ![a] = FALSE]
    /\ UNCHANGED <<rowVars, stored, point, online, traffic, pc, seenBlob, task>>

Disconnect(p) ==
    /\ "disconnect" \in Faults
    /\ online[p]
    /\ online' = [online EXCEPT ![p] = FALSE]
    /\ UNCHANGED <<rowVars, stored, point, lock, traffic, pc, seenBlob, task>>

\* start_consumer subscribes again; what was published meanwhile is lost.
Reconnect(p) ==
    /\ ~online[p]
    /\ online' = [online EXCEPT ![p] = TRUE]
    /\ UNCHANGED <<rowVars, stored, point, lock, traffic, pc, seenBlob, task>>

\* Open transactions roll back; running handlers and background tasks vanish.
Crash(p) ==
    /\ "crash" \in Faults
    /\ online' = [online EXCEPT ![p] = FALSE]
    /\ pc' = [r \in Requests |->
                IF host[r] = p /\ pc[r] # "idle" THEN "done" ELSE pc[r]]
    /\ task' = [task EXCEPT ![p] =
                  [c \in Completes |->
                     IF task[p][c] = "none" THEN "none" ELSE "done"]]
    /\ UNCHANGED <<rowVars, stored, point, lock, traffic, seenBlob>>

-----------------------------------------------------------------------------
ServeComplete(r) ==
    \/ CompleteVerify(r)
    \/ UpdateBlob(r)
    \/ PublishUploadComplete(r)
    \/ CommitComplete(r)
    \/ CommitFails(r)

ServeDelete(r) ==
    \/ SoftDelete(r)
    \/ PublishDeleted(r)
    \/ CommitDelete(r)
    \/ CommitFails(r)
    \/ DeleteFromIndex(r)
    \/ DeleteBlob(r)

RunHandler(p, c) ==
    \/ AcquireLock(p, c)
    \/ LoadAsset(p, c)
    \/ StoreEmbedding(p, c)
    \/ RecheckExists(p, c)
    \/ UpdateStatusReady(p, c)
    \/ HandlerFails(p, c)

Next ==
    \/ \E a \in Assets :
          InitUpload(a) \/ PutObject(a) \/ GraphqlDelete(a) \/ LockExpires(a)
    \/ \E r \in Completes : CompleteLookup(r) \/ ServeComplete(r)
    \/ \E r \in Deletes : DeleteLookup(r) \/ ServeDelete(r)
    \/ \E p \in Procs, c \in Completes : RunHandler(p, c)
    \/ \E p \in Procs : Disconnect(p) \/ Reconnect(p) \/ Crash(p)

Spec == Init /\ [][Next]_vars

(***************************************************************************)
(* A request that has been accepted is served, a task that the event loop  *)
(* holds is run and a consumer reconnects.  Nothing makes a client send a  *)
(* request, nor a fault happen.                                            *)
(***************************************************************************)
Completing(r)   == WF_vars(ServeComplete(r))
Deleting(r)     == WF_vars(ServeDelete(r))
Handling(p, c)  == WF_vars(RunHandler(p, c))
Reconnecting(p) == WF_vars(Reconnect(p))

Fairness ==
    /\ \A r \in Completes : Completing(r)
    /\ \A r \in Deletes : Deleting(r)
    /\ \A p \in Procs, c \in Completes : Handling(p, c)
    /\ \A p \in Procs : Reconnecting(p)

FairSpec == Spec /\ Fairness

-----------------------------------------------------------------------------
(* Safety *)

\* A file that is not deleted and that the API presents as uploaded (a
\* blob_ref to hand out, or a status past PENDING) has its object in the
\* bucket: /complete checks before it writes, and only the background task of
\* a committed delete removes an object.  Whatever fails.
UploadedContentStored ==
    \A a \in Assets :
        ~deleted[a] /\ (blobRef[a] \/ status[a] \in {"processing", "ready"})
            => stored[a]

\* As long as commits succeed and processes stay up, a live READY file has
\* its blob_ref, although the event that leads to READY is published before
\* the commit that sets blob_ref: the worker's UPDATE waits for the row lock.
ReadyHasBlob ==
    Faults \cap {"commit", "crash"} = {} =>
        \A a \in Assets : status[a] = "ready" /\ ~deleted[a] => blobRef[a]

\* As long as Qdrant accepts the upsert, a live READY file can be found by
\* semantic search: no delete's background task takes the point of a live one.
ReadyIsIndexed ==
    "index" \notin Faults =>
        \A a \in Assets : status[a] = "ready" /\ ~deleted[a] => point[a]

\* As long as Redis answers and no lock outlives its TTL, an embedding handler
\* works on a file only while the file's key is set, and no two of them do, over
\* all processes and all events.
OneEmbedderPerAsset ==
    Faults \cap {"redis", "expire"} = {} =>
        /\ \A p \in Procs, c \in Completes : Embedding(p, c) => lock[target[c]]
        /\ \A p, q \in Procs, c, d \in Completes :
              Embedding(p, c) /\ Embedding(q, d) /\ target[c] = target[d]
                  => p = q /\ c = d

(* The pipeline implements the abstract life of a file: a row is available
   from the moment it names a blob or a worker or a handler has moved it past
   PENDING, and gone from the moment deleted_at is set. *)
Phase(a) ==
    IF status[a] = "none" THEN "absent"
    ELSE IF deleted[a] THEN "gone"
    ELSE IF blobRef[a] \/ status[a] \in {"processing", "ready"}
         THEN "available" ELSE "reserved"

Lifecycle == INSTANCE AssetLifecycle
                WITH phase <- [a \in Assets |-> Phase(a)], content <- stored

\* Every step of the pipeline is a step of a file's life, or none: above all
\* a file becomes available only with its content, never loses the content
\* while it is live, and is never live again after a delete.
ImplementsLifecycle == Lifecycle!Spec

(* Liveness *)

\* An upload whose /complete has been committed does not stay in PROCESSING:
\* it becomes READY unless it is deleted.
UploadIsProcessed ==
    \A a \in Assets :
        (status[a] = "processing" /\ ~deleted[a])
            ~> (status[a] = "ready" \/ deleted[a])

-----------------------------------------------------------------------------
(* What comments and docstrings of the code say, and the code does not do. *)

\* uploads.py: blob_ref is the one thing "that gates a 'ready' asset on a
\* verified upload", so no READY file lacks it.
ReadyAssetNamesItsBlob ==
    \A a \in Assets : status[a] = "ready" /\ ~deleted[a] => blobRef[a]

\* asset.py: PROCESSING means "Workers running".
ProcessingMeansWorking ==
    \A a \in Assets :
        status[a] = "processing" /\ ~deleted[a] =>
            \E p \in Procs, c \in Completes :
                target[c] = a /\ task[p][c] \notin {"none", "done"}

\* asset.py gives deleted rows the status DELETED and embeddings.py re-checks
\* the row so as not to write the status of a deleted one.
DeletedRowKeepsStatus ==
    \A a \in Assets : deleted[a] => status[a] = "deleted"

\* delete_asset "remove from search index": once its background task has
\* taken the point out and no handler works on the asset, there is no point.
DeletedIsUnindexed ==
    \A d \in Deletes :
        /\ pc[d] = "unindexed"
        /\ \A p \in Procs, c \in Completes :
              target[c] = target[d] => task[p][c] \in {"none", "done"}
        => ~point[target[d]]

\* delete_asset "clean up storage blob": its last step leaves no object
\* behind that the deleted row names.
DeletedIsReclaimed ==
    [][\A d \in Deletes :
          pc[d] = "unindexed" /\ pc'[d] = "done" /\ blobRef[target[d]]
              => ~stored'[target[d]]]_vars

=============================================================================
