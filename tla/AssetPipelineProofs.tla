------------------------- MODULE AssetPipelineProofs -------------------------
(***************************************************************************)
(* Proofs about AssetPipeline, for any sets of processes, assets and       *)
(* requests and any set of faults.                                         *)
(***************************************************************************)
EXTENDS AssetPipeline, TLAPS

\* The object is in the bucket unless the file has been deleted.
Kept(a) == deleted[a] \/ stored[a]

\* A /complete request past its head_object.
Verified(r) == pc[r] \in {"verified", "written", "published"}

\* A handler task that some event has started and that still runs.
Running(p, c) == task[p][c] \in {"queued", "locked", "loaded", "stored", "checked"}

(***************************************************************************)
(* UploadedContentStored is not inductive: what a request has verified or  *)
(* an event has announced must still hold when it is acted upon, and the   *)
(* two background tasks of a delete must run on a deleted row only.        *)
(***************************************************************************)
ContentInv ==
    /\ \A r \in Completes : Verified(r) => Kept(target[r])
    /\ \A p \in Procs, c \in Completes : Running(p, c) => Kept(target[c])
    /\ \A d \in Deletes : pc[d] \in {"committed", "unindexed"} => deleted[target[d]]
    /\ UploadedContentStored

\* Every request past its lookup names a row that has been inserted, and so
\* does every handler task: no step can move an absent file.
RowsExist ==
    /\ \A r \in Requests : pc[r] \notin {"idle", "done"} => status[target[r]] # "none"
    /\ \A p \in Procs, c \in Completes : Running(p, c) => status[target[c]] # "none"
    /\ \A a \in Assets : status[a] = "none" => ~deleted[a] /\ ~blobRef[a]

\* A handler past its upsert has left a point, unless the file is deleted.
IndexInv ==
    /\ \A d \in Deletes : pc[d] \in {"committed", "unindexed"} => deleted[target[d]]
    /\ "index" \notin Faults =>
          \A p \in Procs, c \in Completes :
              task[p][c] \in {"stored", "checked"}
                  => deleted[target[c]] \/ point[target[c]]
    /\ ReadyIsIndexed

\* A request whose event is out still holds the row's lock, or has committed.
BlobInv ==
    /\ Faults \cap {"commit", "crash"} = {} =>
          \A p \in Procs, c \in Completes :
              task[p][c] # "none" => pc[c] = "published" \/ blobRef[target[c]]
    /\ ReadyHasBlob
-----------------------------------------------------------------------------
\* What a handler's step does to the table of tasks: one entry moves.
LEMMA TaskGotoEffect ==
    ASSUME TypeOK, NEW p \in Procs, NEW c \in Completes,
           NEW from, NEW to \in TaskPCs, TaskGoto(p, c, from, to)
    PROVE  /\ task' \in [Procs -> [Completes -> TaskPCs]]
           /\ task[p][c] = from
           /\ \A q \in Procs, d \in Completes :
                 task'[q][d] = IF q = p /\ d = c THEN to ELSE task[q][d]
  BY DEF TypeOK, TaskGoto

\* What a publish does to it: each process either gets a queued task for the
\* event or keeps what it had.
Published(r) ==
    /\ task' \in [Procs -> [Completes -> TaskPCs]]
    /\ \A q \in Procs, d \in Completes :
          \/ task'[q][d] = task[q][d]
          \/ d = r /\ task'[q][d] = "queued"
    /\ pc[r] = "written"
    /\ pc' = [pc EXCEPT ![r] = "published"]
    /\ UNCHANGED <<status, deleted, blobRef, stored, point, lock, online, host,
                   target, seenBlob>>

LEMMA PublishEffect ==
    ASSUME TypeOK, NEW r \in Completes, PublishUploadComplete(r)
    PROVE  Published(r)
<1> USE DEF Published, PublishUploadComplete, Goto, rowVars, traffic
<1>1. CASE task' = [p \in Procs |->
                      IF online[p] THEN [task[p] EXCEPT ![r] = "queued"]
                                   ELSE task[p]]
  <2>1. ASSUME NEW q \in Procs
        PROVE  /\ task'[q] \in [Completes -> TaskPCs]
               /\ \A d \in Completes :
                    \/ task'[q][d] = task[q][d]
                    \/ d = r /\ task'[q][d] = "queued"
    <3>1. task[q] \in [Completes -> TaskPCs]
      BY DEF TypeOK
    <3>2. task'[q] = IF online[q] THEN [task[q] EXCEPT ![r] = "queued"]
                                  ELSE task[q]
      BY <1>1
    <3>3. CASE online[q]
      BY <3>1, <3>2, <3>3 DEF TaskPCs
    <3>4. CASE ~online[q]
      BY <3>1, <3>2, <3>4
    <3>5. QED
      BY <3>3, <3>4
  <2>2. QED
    BY <1>1, <2>1
<1>2. CASE UNCHANGED task
  BY <1>2 DEF TypeOK
<1>3. QED
  BY <1>1, <1>2

\* What a handler's attempt at the lock does: it ends, or it goes on with the
\* key set by itself or, when Redis fails, by somebody else or nobody.
Attempted(p, c) ==
    /\ task' \in [Procs -> [Completes -> TaskPCs]]
    /\ task[p][c] = "queued"
    /\ task'[p][c] \in {"locked", "done"}
    /\ \A q \in Procs, d \in Completes :
          q # p \/ d # c => task'[q][d] = task[q][d]
    /\ lock' \in [Assets -> BOOLEAN]
    /\ \A a \in Assets : lock[a] => lock'[a]
    /\ task'[p][c] = "locked"
          => "redis" \in Faults \/ (~lock[target[c]] /\ lock'[target[c]])
    /\ UNCHANGED <<status, deleted, blobRef, stored, point, online, host,
                   target, pc, seenBlob>>

LEMMA AcquireEffect ==
    ASSUME TypeOK, NEW p \in Procs, NEW c \in Completes, AcquireLock(p, c)
    PROVE  Attempted(p, c)
<1> DEFINE Moved(to) == TaskGoto(p, c, "queued", to)
<1>1. target[c] \in Assets
  BY DEF TypeOK, Requests
<1>2. ASSUME NEW to \in {"locked", "done"}, Moved(to)
      PROVE  /\ task' \in [Procs -> [Completes -> TaskPCs]]
             /\ task[p][c] = "queued"
             /\ \A q \in Procs, d \in Completes :
                   task'[q][d] = IF q = p /\ d = c THEN to ELSE task[q][d]
  <2>1. to \in TaskPCs
    BY DEF TaskPCs
  <2>2. QED
    BY <1>2, <2>1, TaskGotoEffect
<1>3. UNCHANGED <<status, deleted, blobRef, stored, point, online, host,
                  target, pc, seenBlob>>
  BY DEF AcquireLock, rowVars, traffic
<1>4. CASE /\ ~lock[target[c]]
           /\ lock' = [lock EXCEPT ![target[c]] = TRUE]
           /\ Moved("locked")
  BY <1>1, <1>2, <1>3, <1>4 DEF TypeOK, Attempted
<1>5. CASE lock[target[c]] /\ Moved("done") /\ UNCHANGED lock
  BY <1>2, <1>3, <1>5 DEF TypeOK, Attempted
<1>6. CASE "redis" \in Faults /\ Moved("locked") /\ UNCHANGED lock
  BY <1>2, <1>3, <1>6 DEF TypeOK, Attempted
<1>7. QED
  BY <1>4, <1>5, <1>6 DEF AcquireLock

\* What a crash does to it: tasks of the process end, none starts.
LEMMA CrashEffect ==
    ASSUME TypeOK, NEW p \in Procs, Crash(p)
    PROVE  /\ task' \in [Procs -> [Completes -> TaskPCs]]
           /\ \A q \in Procs, d \in Completes :
                 \/ task'[q][d] = task[q][d]
                 \/ task[q][d] # "none" /\ task'[q][d] = "done"
  BY DEF TypeOK, Crash, TaskPCs

\* Every variable keeps its type.
THEOREM TypeCorrect == Spec => []TypeOK
<1>1. Init => TypeOK
  BY DEF Init, TypeOK, Statuses, RequestPCs, TaskPCs, Requests
<1>2. ASSUME TypeOK, [Next]_vars
      PROVE  TypeOK'
  <2> USE <1>2 DEF TypeOK, Statuses, RequestPCs, TaskPCs, Requests
  <2>1. ASSUME NEW a \in Assets, InitUpload(a)
        PROVE  TypeOK'
    BY <2>1 DEF InitUpload, rowVars, traffic
  <2>2. ASSUME NEW a \in Assets, PutObject(a)
        PROVE  TypeOK'
    BY <2>2 DEF PutObject, rowVars, traffic
  <2>3. ASSUME NEW a \in Assets, GraphqlDelete(a)
        PROVE  TypeOK'
    BY <2>3 DEF GraphqlDelete, RowLocked, rowVars, traffic
  <2>4. ASSUME NEW a \in Assets, LockExpires(a)
        PROVE  TypeOK'
    BY <2>4 DEF LockExpires, rowVars, traffic
  <2>5. ASSUME NEW r \in Completes, CompleteLookup(r)
        PROVE  TypeOK'
    BY <2>5 DEF CompleteLookup, Goto, Live, rowVars, traffic
  <2>6. ASSUME NEW r \in Completes, CompleteVerify(r)
        PROVE  TypeOK'
    BY <2>6 DEF CompleteVerify, Goto, rowVars, traffic
  <2>7. ASSUME NEW r \in Completes, UpdateBlob(r)
        PROVE  TypeOK'
    BY <2>7 DEF UpdateBlob, Goto, rowVars, traffic
  <2>8. ASSUME NEW r \in Completes, PublishUploadComplete(r)
        PROVE  TypeOK'
    <3>1. Published(r)
      BY <2>8, PublishEffect
    <3>2. QED
      BY <3>1 DEF Published
  <2>9. ASSUME NEW r \in Completes, CommitComplete(r)
        PROVE  TypeOK'
    BY <2>9 DEF CommitComplete, Goto, rowVars, traffic
  <2>10. ASSUME NEW r \in Requests, CommitFails(r)
        PROVE  TypeOK'
    BY <2>10 DEF CommitFails, Goto, rowVars, traffic
  <2>11. ASSUME NEW r \in Deletes, DeleteLookup(r)
        PROVE  TypeOK'
    BY <2>11 DEF DeleteLookup, Goto, Live, rowVars, traffic
  <2>12. ASSUME NEW r \in Deletes, SoftDelete(r)
        PROVE  TypeOK'
    BY <2>12 DEF SoftDelete, Goto, rowVars, traffic
  <2>13. ASSUME NEW r \in Deletes, PublishDeleted(r)
        PROVE  TypeOK'
    BY <2>13 DEF PublishDeleted, Goto, rowVars, traffic
  <2>14. ASSUME NEW r \in Deletes, CommitDelete(r)
        PROVE  TypeOK'
    BY <2>14 DEF CommitDelete, Goto, rowVars, traffic
  <2>15. ASSUME NEW r \in Deletes, DeleteFromIndex(r)
        PROVE  TypeOK'
    BY <2>15 DEF DeleteFromIndex, Goto, rowVars, traffic
  <2>16. ASSUME NEW r \in Deletes, DeleteBlob(r)
        PROVE  TypeOK'
    BY <2>16 DEF DeleteBlob, Goto, rowVars, traffic
  <2>17. ASSUME NEW p \in Procs, NEW c \in Completes, AcquireLock(p, c)
        PROVE  TypeOK'
    <3>1. Attempted(p, c)
      BY <2>17, AcquireEffect
    <3>2. QED
      BY <3>1 DEF Attempted
  <2>18. ASSUME NEW p \in Procs, NEW c \in Completes, LoadAsset(p, c)
        PROVE  TypeOK'
    BY <2>18 DEF LoadAsset, TaskGoto, Live, rowVars, traffic
  <2>19. ASSUME NEW p \in Procs, NEW c \in Completes, StoreEmbedding(p, c)
        PROVE  TypeOK'
    BY <2>19 DEF StoreEmbedding, TaskGoto, rowVars, traffic
  <2>20. ASSUME NEW p \in Procs, NEW c \in Completes, RecheckExists(p, c)
        PROVE  TypeOK'
    BY <2>20 DEF RecheckExists, TaskGoto, Live, rowVars, traffic
  <2>21. ASSUME NEW p \in Procs, NEW c \in Completes, UpdateStatusReady(p, c)
        PROVE  TypeOK'
    BY <2>21 DEF UpdateStatusReady, TaskGoto, RowLocked, rowVars, traffic
  <2>22. ASSUME NEW p \in Procs, NEW c \in Completes, HandlerFails(p, c)
        PROVE  TypeOK'
    BY <2>22 DEF HandlerFails, Embedding, rowVars, traffic
  <2>23. ASSUME NEW p \in Procs, Disconnect(p)
        PROVE  TypeOK'
    BY <2>23 DEF Disconnect, rowVars, traffic
  <2>24. ASSUME NEW p \in Procs, Reconnect(p)
        PROVE  TypeOK'
    BY <2>24 DEF Reconnect, rowVars, traffic
  <2>25. ASSUME NEW p \in Procs, Crash(p)
        PROVE  TypeOK'
    BY <2>25, CrashEffect DEF Crash, rowVars, traffic
  <2>26. CASE UNCHANGED vars
    BY <2>26 DEF vars
  <2>27. QED
    BY <2>1, <2>2, <2>3, <2>4, <2>5, <2>6, <2>7, <2>8, <2>9, <2>10,
       <2>11, <2>12, <2>13, <2>14, <2>15, <2>16, <2>17, <2>18,
       <2>19, <2>20, <2>21, <2>22, <2>23, <2>24, <2>25, <2>26
       DEF Next, ServeComplete, ServeDelete, RunHandler
<1>3. QED
  BY <1>1, <1>2, PTL DEF Spec

\* Whatever a request has verified or an event has announced stays true until
\* it is acted upon, and reclaiming happens on deleted rows only.
THEOREM ContentInvariant == Spec => []ContentInv
<1>1. Init => ContentInv
  BY DEF Init, ContentInv, Kept, Verified, Running, UploadedContentStored, Requests, TypeOK, TaskPCs, RequestPCs
<1>2. ASSUME TypeOK, TypeOK', ContentInv, [Next]_vars
      PROVE  ContentInv'
  <2> USE <1>2 DEF ContentInv, Kept, Verified, Running, UploadedContentStored, Requests, TypeOK, TaskPCs, RequestPCs
  <2>1. ASSUME NEW a \in Assets, InitUpload(a)
        PROVE  ContentInv'
    BY <2>1 DEF InitUpload, rowVars, traffic
  <2>2. ASSUME NEW a \in Assets, PutObject(a)
        PROVE  ContentInv'
    BY <2>2 DEF PutObject, rowVars, traffic
  <2>3. ASSUME NEW a \in Assets, GraphqlDelete(a)
        PROVE  ContentInv'
    BY <2>3 DEF GraphqlDelete, RowLocked, rowVars, traffic
  <2>4. ASSUME NEW a \in Assets, LockExpires(a)
        PROVE  ContentInv'
    BY <2>4 DEF LockExpires, rowVars, traffic
  <2>5. ASSUME NEW r \in Completes, CompleteLookup(r)
        PROVE  ContentInv'
    BY <2>5 DEF CompleteLookup, Goto, Live, rowVars, traffic
  <2>6. ASSUME NEW r \in Completes, CompleteVerify(r)
        PROVE  ContentInv'
    BY <2>6 DEF CompleteVerify, Goto, rowVars, traffic
  <2>7. ASSUME NEW r \in Completes, UpdateBlob(r)
        PROVE  ContentInv'
    BY <2>7 DEF UpdateBlob, Goto, rowVars, traffic
  <2>8. ASSUME NEW r \in Completes, PublishUploadComplete(r)
        PROVE  ContentInv'
    <3>1. Published(r)
      BY <2>8, PublishEffect
    <3>2. QED
      BY <3>1 DEF Published
  <2>9. ASSUME NEW r \in Completes, CommitComplete(r)
        PROVE  ContentInv'
    BY <2>9 DEF CommitComplete, Goto, rowVars, traffic
  <2>10. ASSUME NEW r \in Requests, CommitFails(r)
        PROVE  ContentInv'
    BY <2>10 DEF CommitFails, Goto, rowVars, traffic
  <2>11. ASSUME NEW r \in Deletes, DeleteLookup(r)
        PROVE  ContentInv'
    BY <2>11 DEF DeleteLookup, Goto, Live, rowVars, traffic
  <2>12. ASSUME NEW r \in Deletes, SoftDelete(r)
        PROVE  ContentInv'
    BY <2>12, PipelineAssumption DEF SoftDelete, Goto, rowVars, traffic
  <2>13. ASSUME NEW r \in Deletes, PublishDeleted(r)
        PROVE  ContentInv'
    BY <2>13 DEF PublishDeleted, Goto, rowVars, traffic
  <2>14. ASSUME NEW r \in Deletes, CommitDelete(r)
        PROVE  ContentInv'
    BY <2>14, PipelineAssumption DEF CommitDelete, Goto, rowVars, traffic
  <2>15. ASSUME NEW r \in Deletes, DeleteFromIndex(r)
        PROVE  ContentInv'
    BY <2>15 DEF DeleteFromIndex, Goto, rowVars, traffic
  <2>16. ASSUME NEW r \in Deletes, DeleteBlob(r)
        PROVE  ContentInv'
    BY <2>16 DEF DeleteBlob, Goto, rowVars, traffic
  <2>17. ASSUME NEW p \in Procs, NEW c \in Completes, AcquireLock(p, c)
        PROVE  ContentInv'
    <3>1. Attempted(p, c)
      BY <2>17, AcquireEffect
    <3>2. QED
      BY <3>1 DEF Attempted
  <2>18. ASSUME NEW p \in Procs, NEW c \in Completes, LoadAsset(p, c)
        PROVE  ContentInv'
    BY <2>18, TaskGotoEffect DEF LoadAsset, TaskGoto, Live, rowVars, traffic
  <2>19. ASSUME NEW p \in Procs, NEW c \in Completes, StoreEmbedding(p, c)
        PROVE  ContentInv'
    BY <2>19, TaskGotoEffect DEF StoreEmbedding, TaskGoto, rowVars, traffic
  <2>20. ASSUME NEW p \in Procs, NEW c \in Completes, RecheckExists(p, c)
        PROVE  ContentInv'
    BY <2>20, TaskGotoEffect DEF RecheckExists, TaskGoto, Live, rowVars, traffic
  <2>21. ASSUME NEW p \in Procs, NEW c \in Completes, UpdateStatusReady(p, c)
        PROVE  ContentInv'
    BY <2>21, TaskGotoEffect DEF UpdateStatusReady, TaskGoto, RowLocked, rowVars, traffic
  <2>22. ASSUME NEW p \in Procs, NEW c \in Completes, HandlerFails(p, c)
        PROVE  ContentInv'
    BY <2>22 DEF HandlerFails, Embedding, rowVars, traffic
  <2>23. ASSUME NEW p \in Procs, Disconnect(p)
        PROVE  ContentInv'
    BY <2>23 DEF Disconnect, rowVars, traffic
  <2>24. ASSUME NEW p \in Procs, Reconnect(p)
        PROVE  ContentInv'
    BY <2>24 DEF Reconnect, rowVars, traffic
  <2>25. ASSUME NEW p \in Procs, Crash(p)
        PROVE  ContentInv'
    BY <2>25, CrashEffect DEF Crash, rowVars, traffic
  <2>26. CASE UNCHANGED vars
    BY <2>26 DEF vars
  <2>27. QED
    BY <2>1, <2>2, <2>3, <2>4, <2>5, <2>6, <2>7, <2>8, <2>9, <2>10,
       <2>11, <2>12, <2>13, <2>14, <2>15, <2>16, <2>17, <2>18,
       <2>19, <2>20, <2>21, <2>22, <2>23, <2>24, <2>25, <2>26
       DEF Next, ServeComplete, ServeDelete, RunHandler
<1>3. QED
  BY <1>1, <1>2, TypeCorrect, PTL DEF Spec

\* Whatever fails, a live file presented as uploaded has its object.
THEOREM ContentCorrect == Spec => []UploadedContentStored
<1>1. ContentInv => UploadedContentStored
  BY DEF ContentInv
<1>2. QED
  BY <1>1, ContentInvariant, PTL

\* Requests past their lookup and running handlers name inserted rows.
THEOREM RowsExistCorrect == Spec => []RowsExist
<1>1. Init => RowsExist
  BY DEF Init, RowsExist, Running, Requests, TypeOK, TaskPCs, RequestPCs
<1>2. ASSUME TypeOK, TypeOK', RowsExist, [Next]_vars
      PROVE  RowsExist'
  <2> USE <1>2 DEF RowsExist, Running, Requests, TypeOK, TaskPCs, RequestPCs
  <2>1. ASSUME NEW a \in Assets, InitUpload(a)
        PROVE  RowsExist'
    BY <2>1 DEF InitUpload, rowVars, traffic
  <2>2. ASSUME NEW a \in Assets, PutObject(a)
        PROVE  RowsExist'
    BY <2>2 DEF PutObject, rowVars, traffic
  <2>3. ASSUME NEW a \in Assets, GraphqlDelete(a)
        PROVE  RowsExist'
    BY <2>3 DEF GraphqlDelete, RowLocked, rowVars, traffic
  <2>4. ASSUME NEW a \in Assets, LockExpires(a)
        PROVE  RowsExist'
    BY <2>4 DEF LockExpires, rowVars, traffic
  <2>5. ASSUME NEW r \in Completes, CompleteLookup(r)
        PROVE  RowsExist'
    BY <2>5 DEF CompleteLookup, Goto, Live, rowVars, traffic
  <2>6. ASSUME NEW r \in Completes, CompleteVerify(r)
        PROVE  RowsExist'
    BY <2>6 DEF CompleteVerify, Goto, rowVars, traffic
  <2>7. ASSUME NEW r \in Completes, UpdateBlob(r)
        PROVE  RowsExist'
    BY <2>7 DEF UpdateBlob, Goto, rowVars, traffic
  <2>8. ASSUME NEW r \in Completes, PublishUploadComplete(r)
        PROVE  RowsExist'
    <3>1. Published(r)
      BY <2>8, PublishEffect
    <3>2. ASSUME NEW q \in Procs, NEW d \in Completes,
                 Running(q, d)'
          PROVE  status'[target'[d]] # "none"
      <4>1. CASE d = r
        BY <3>1, <3>2, <4>1 DEF Published
      <4>2. CASE ~(d = r)
        BY <3>1, <3>2, <4>2 DEF Published
      <4>3. QED
        BY <4>1, <4>2
    <3>3. RowsExist!1' /\ RowsExist!3'
      BY <3>1 DEF Published
    <3>4. QED
      BY <3>2, <3>3
  <2>9. ASSUME NEW r \in Completes, CommitComplete(r)
        PROVE  RowsExist'
    BY <2>9 DEF CommitComplete, Goto, rowVars, traffic
  <2>10. ASSUME NEW r \in Requests, CommitFails(r)
        PROVE  RowsExist'
    BY <2>10 DEF CommitFails, Goto, rowVars, traffic
  <2>11. ASSUME NEW r \in Deletes, DeleteLookup(r)
        PROVE  RowsExist'
    BY <2>11 DEF DeleteLookup, Goto, Live, rowVars, traffic
  <2>12. ASSUME NEW r \in Deletes, SoftDelete(r)
        PROVE  RowsExist'
    BY <2>12, PipelineAssumption DEF SoftDelete, Goto, rowVars, traffic
  <2>13. ASSUME NEW r \in Deletes, PublishDeleted(r)
        PROVE  RowsExist'
    BY <2>13 DEF PublishDeleted, Goto, rowVars, traffic
  <2>14. ASSUME NEW r \in Deletes, CommitDelete(r)
        PROVE  RowsExist'
    BY <2>14, PipelineAssumption DEF CommitDelete, Goto, rowVars, traffic
  <2>15. ASSUME NEW r \in Deletes, DeleteFromIndex(r)
        PROVE  RowsExist'
    BY <2>15 DEF DeleteFromIndex, Goto, rowVars, traffic
  <2>16. ASSUME NEW r \in Deletes, DeleteBlob(r)
        PROVE  RowsExist'
    BY <2>16 DEF DeleteBlob, Goto, rowVars, traffic
  <2>17. ASSUME NEW p \in Procs, NEW c \in Completes, AcquireLock(p, c)
        PROVE  RowsExist'
    <3>1. Attempted(p, c)
      BY <2>17, AcquireEffect
    <3>2. ASSUME NEW q \in Procs, NEW d \in Completes,
                 Running(q, d)'
          PROVE  status'[target'[d]] # "none"
      <4>1. CASE q = p /\ d = c
        BY <3>1, <3>2, <4>1 DEF Attempted
      <4>2. CASE ~(q = p /\ d = c)
        BY <3>1, <3>2, <4>2 DEF Attempted
      <4>3. QED
        BY <4>1, <4>2
    <3>3. RowsExist!1' /\ RowsExist!3'
      BY <3>1 DEF Attempted
    <3>4. QED
      BY <3>2, <3>3
  <2>18. ASSUME NEW p \in Procs, NEW c \in Completes, LoadAsset(p, c)
        PROVE  RowsExist'
    BY <2>18, TaskGotoEffect DEF LoadAsset, TaskGoto, Live, rowVars, traffic
  <2>19. ASSUME NEW p \in Procs, NEW c \in Completes, StoreEmbedding(p, c)
        PROVE  RowsExist'
    BY <2>19, TaskGotoEffect DEF StoreEmbedding, TaskGoto, rowVars, traffic
  <2>20. ASSUME NEW p \in Procs, NEW c \in Completes, RecheckExists(p, c)
        PROVE  RowsExist'
    BY <2>20, TaskGotoEffect DEF RecheckExists, TaskGoto, Live, rowVars, traffic
  <2>21. ASSUME NEW p \in Procs, NEW c \in Completes, UpdateStatusReady(p, c)
        PROVE  RowsExist'
    BY <2>21, TaskGotoEffect DEF UpdateStatusReady, TaskGoto, RowLocked, rowVars, traffic
  <2>22. ASSUME NEW p \in Procs, NEW c \in Completes, HandlerFails(p, c)
        PROVE  RowsExist'
    BY <2>22 DEF HandlerFails, Embedding, rowVars, traffic
  <2>23. ASSUME NEW p \in Procs, Disconnect(p)
        PROVE  RowsExist'
    BY <2>23 DEF Disconnect, rowVars, traffic
  <2>24. ASSUME NEW p \in Procs, Reconnect(p)
        PROVE  RowsExist'
    BY <2>24 DEF Reconnect, rowVars, traffic
  <2>25. ASSUME NEW p \in Procs, Crash(p)
        PROVE  RowsExist'
    BY <2>25, CrashEffect DEF Crash, rowVars, traffic
  <2>26. CASE UNCHANGED vars
    BY <2>26 DEF vars
  <2>27. QED
    BY <2>1, <2>2, <2>3, <2>4, <2>5, <2>6, <2>7, <2>8, <2>9, <2>10,
       <2>11, <2>12, <2>13, <2>14, <2>15, <2>16, <2>17, <2>18,
       <2>19, <2>20, <2>21, <2>22, <2>23, <2>24, <2>25, <2>26
       DEF Next, ServeComplete, ServeDelete, RunHandler
<1>3. QED
  BY <1>1, <1>2, TypeCorrect, PTL DEF Spec

\* While Redis answers and no lock outlives its TTL, at most one embedding
\* handler works on a file, over all processes and events, and none without
\* the file's key.
THEOREM LockCorrect == Spec => []OneEmbedderPerAsset
<1>1. Init => OneEmbedderPerAsset
  BY DEF Init, OneEmbedderPerAsset, Embedding, Requests, TypeOK, TaskPCs, RequestPCs
<1>2. ASSUME TypeOK, TypeOK', OneEmbedderPerAsset, [Next]_vars
      PROVE  OneEmbedderPerAsset'
  <2> USE <1>2 DEF OneEmbedderPerAsset, Embedding, Requests, TypeOK, TaskPCs, RequestPCs
  <2>1. ASSUME NEW a \in Assets, InitUpload(a)
        PROVE  OneEmbedderPerAsset'
    BY <2>1 DEF InitUpload, rowVars, traffic
  <2>2. ASSUME NEW a \in Assets, PutObject(a)
        PROVE  OneEmbedderPerAsset'
    BY <2>2 DEF PutObject, rowVars, traffic
  <2>3. ASSUME NEW a \in Assets, GraphqlDelete(a)
        PROVE  OneEmbedderPerAsset'
    BY <2>3 DEF GraphqlDelete, RowLocked, rowVars, traffic
  <2>4. ASSUME NEW a \in Assets, LockExpires(a)
        PROVE  OneEmbedderPerAsset'
    BY <2>4 DEF LockExpires, rowVars, traffic
  <2>5. ASSUME NEW r \in Completes, CompleteLookup(r)
        PROVE  OneEmbedderPerAsset'
    BY <2>5 DEF CompleteLookup, Goto, Live, rowVars, traffic
  <2>6. ASSUME NEW r \in Completes, CompleteVerify(r)
        PROVE  OneEmbedderPerAsset'
    BY <2>6 DEF CompleteVerify, Goto, rowVars, traffic
  <2>7. ASSUME NEW r \in Completes, UpdateBlob(r)
        PROVE  OneEmbedderPerAsset'
    BY <2>7 DEF UpdateBlob, Goto, rowVars, traffic
  <2>8. ASSUME NEW r \in Completes, PublishUploadComplete(r)
        PROVE  OneEmbedderPerAsset'
    <3>1. Published(r)
      BY <2>8, PublishEffect
    <3>2. ASSUME NEW q \in Procs, NEW d \in Completes, Embedding(q, d)'
          PROVE  Embedding(q, d)
      BY <3>1, <3>2 DEF Published
    <3>3. target' = target /\ lock' = lock
      BY <3>1 DEF Published
    <3>4. QED
      BY <3>2, <3>3
  <2>9. ASSUME NEW r \in Completes, CommitComplete(r)
        PROVE  OneEmbedderPerAsset'
    BY <2>9 DEF CommitComplete, Goto, rowVars, traffic
  <2>10. ASSUME NEW r \in Requests, CommitFails(r)
        PROVE  OneEmbedderPerAsset'
    BY <2>10 DEF CommitFails, Goto, rowVars, traffic
  <2>11. ASSUME NEW r \in Deletes, DeleteLookup(r)
        PROVE  OneEmbedderPerAsset'
    BY <2>11 DEF DeleteLookup, Goto, Live, rowVars, traffic
  <2>12. ASSUME NEW r \in Deletes, SoftDelete(r)
        PROVE  OneEmbedderPerAsset'
    BY <2>12, PipelineAssumption DEF SoftDelete, Goto, rowVars, traffic
  <2>13. ASSUME NEW r \in Deletes, PublishDeleted(r)
        PROVE  OneEmbedderPerAsset'
    BY <2>13 DEF PublishDeleted, Goto, rowVars, traffic
  <2>14. ASSUME NEW r \in Deletes, CommitDelete(r)
        PROVE  OneEmbedderPerAsset'
    BY <2>14, PipelineAssumption DEF CommitDelete, Goto, rowVars, traffic
  <2>15. ASSUME NEW r \in Deletes, DeleteFromIndex(r)
        PROVE  OneEmbedderPerAsset'
    BY <2>15 DEF DeleteFromIndex, Goto, rowVars, traffic
  <2>16. ASSUME NEW r \in Deletes, DeleteBlob(r)
        PROVE  OneEmbedderPerAsset'
    BY <2>16 DEF DeleteBlob, Goto, rowVars, traffic
  <2>17. ASSUME NEW p \in Procs, NEW c \in Completes, AcquireLock(p, c)
        PROVE  OneEmbedderPerAsset'
    <3>1. Attempted(p, c)
      BY <2>17, AcquireEffect
    <3>2. ASSUME Faults \cap {"redis", "expire"} = {},
                 NEW q \in Procs, NEW d \in Completes, Embedding(q, d)'
          PROVE  lock'[target'[d]]
      <4>1. CASE q = p /\ d = c
        BY <3>1, <3>2, <4>1 DEF Attempted
      <4>2. CASE ~(q = p /\ d = c)
        BY <3>1, <3>2, <4>2 DEF Attempted
      <4>3. QED
        BY <4>1, <4>2
    <3>3. ASSUME Faults \cap {"redis", "expire"} = {},
                 NEW q \in Procs, NEW s \in Procs,
                 NEW d \in Completes, NEW e \in Completes,
                 Embedding(q, d)', Embedding(s, e)', target'[d] = target'[e]
          PROVE  q = s /\ d = e
      <4> HIDE DEF Embedding
      <4>0. /\ target' = target
            /\ \A t \in Procs, f \in Completes :
                  t # p \/ f # c => (Embedding(t, f)' <=> Embedding(t, f))
        BY <3>1 DEF Attempted, Embedding
      <4>1. CASE task'[p][c] = "locked"
        <5>1. ~lock[target[c]]
          BY <3>1, <3>3, <4>1 DEF Attempted
        <5>2. ASSUME NEW t \in Procs, NEW f \in Completes, target[f] = target[c],
                     Embedding(t, f)'
              PROVE  t = p /\ f = c
          <6>1. Embedding(t, f) => lock[target[f]]
            BY <3>3
          <6>2. SUFFICES ASSUME t # p \/ f # c
                         PROVE  FALSE
            OBVIOUS
          <6>3. Embedding(t, f)
            BY <4>0, <5>2, <6>2
          <6>4. lock[target[f]] = lock[target[c]]
            BY <5>2
          <6>5. QED
            BY <5>1, <6>1, <6>3, <6>4
        <5>3. CASE target[d] = target[c]
          <6>1. target[e] = target[c]
            BY <3>3, <4>0, <5>3
          <6>2. q = p /\ d = c
            BY <3>3, <5>2, <5>3
          <6>3. s = p /\ e = c
            BY <3>3, <5>2, <6>1
          <6>4. QED
            BY <6>2, <6>3
        <5>4. CASE target[d] # target[c]
          <6>1. (q # p \/ d # c) /\ (s # p \/ e # c)
            BY <3>3, <4>0, <5>4
          <6>2. Embedding(q, d) /\ Embedding(s, e) /\ target[d] = target[e]
            BY <3>3, <4>0, <6>1
          <6>3. QED
            BY <3>3, <6>2
        <5>5. QED
          BY <5>3, <5>4
      <4>2. CASE task'[p][c] = "done"
        <5>1. ~Embedding(p, c)'
          BY <4>2 DEF Embedding
        <5>2. (q # p \/ d # c) /\ (s # p \/ e # c)
          BY <3>3, <5>1
        <5>3. Embedding(q, d) /\ Embedding(s, e) /\ target[d] = target[e]
          BY <3>3, <4>0, <5>2
        <5>4. QED
          BY <3>3, <5>3
      <4>3. QED
        BY <3>1, <4>1, <4>2 DEF Attempted
    <3>4. QED
      BY <3>2, <3>3
  <2>18. ASSUME NEW p \in Procs, NEW c \in Completes, LoadAsset(p, c)
        PROVE  OneEmbedderPerAsset'
    BY <2>18, TaskGotoEffect DEF LoadAsset, TaskGoto, Live, rowVars, traffic
  <2>19. ASSUME NEW p \in Procs, NEW c \in Completes, StoreEmbedding(p, c)
        PROVE  OneEmbedderPerAsset'
    BY <2>19, TaskGotoEffect DEF StoreEmbedding, TaskGoto, rowVars, traffic
  <2>20. ASSUME NEW p \in Procs, NEW c \in Completes, RecheckExists(p, c)
        PROVE  OneEmbedderPerAsset'
    BY <2>20, TaskGotoEffect DEF RecheckExists, TaskGoto, Live, rowVars, traffic
  <2>21. ASSUME NEW p \in Procs, NEW c \in Completes, UpdateStatusReady(p, c)
        PROVE  OneEmbedderPerAsset'
    BY <2>21, TaskGotoEffect DEF UpdateStatusReady, TaskGoto, RowLocked, rowVars, traffic
  <2>22. ASSUME NEW p \in Procs, NEW c \in Completes, HandlerFails(p, c)
        PROVE  OneEmbedderPerAsset'
    BY <2>22 DEF HandlerFails, rowVars, traffic
  <2>23. ASSUME NEW p \in Procs, Disconnect(p)
        PROVE  OneEmbedderPerAsset'
    BY <2>23 DEF Disconnect, rowVars, traffic
  <2>24. ASSUME NEW p \in Procs, Reconnect(p)
        PROVE  OneEmbedderPerAsset'
    BY <2>24 DEF Reconnect, rowVars, traffic
  <2>25. ASSUME NEW p \in Procs, Crash(p)
        PROVE  OneEmbedderPerAsset'
    BY <2>25, CrashEffect DEF Crash, rowVars, traffic
  <2>26. CASE UNCHANGED vars
    BY <2>26 DEF vars
  <2>27. QED
    BY <2>1, <2>2, <2>3, <2>4, <2>5, <2>6, <2>7, <2>8, <2>9, <2>10,
       <2>11, <2>12, <2>13, <2>14, <2>15, <2>16, <2>17, <2>18,
       <2>19, <2>20, <2>21, <2>22, <2>23, <2>24, <2>25, <2>26
       DEF Next, ServeComplete, ServeDelete, RunHandler
<1>3. QED
  BY <1>1, <1>2, TypeCorrect, PTL DEF Spec

\* While Qdrant accepts every call, a live READY file has its point.
THEOREM IndexCorrect == Spec => []ReadyIsIndexed
<1>1. Init => IndexInv
  BY DEF Init, IndexInv, ReadyIsIndexed, Requests, TypeOK, TaskPCs, RequestPCs
<1>2. ASSUME TypeOK, TypeOK', IndexInv, [Next]_vars
      PROVE  IndexInv'
  <2> USE <1>2 DEF IndexInv, ReadyIsIndexed, Requests, TypeOK, TaskPCs, RequestPCs
  <2>1. ASSUME NEW a \in Assets, InitUpload(a)
        PROVE  IndexInv'
    BY <2>1 DEF InitUpload, rowVars, traffic
  <2>2. ASSUME NEW a \in Assets, PutObject(a)
        PROVE  IndexInv'
    BY <2>2 DEF PutObject, rowVars, traffic
  <2>3. ASSUME NEW a \in Assets, GraphqlDelete(a)
        PROVE  IndexInv'
    BY <2>3 DEF GraphqlDelete, RowLocked, rowVars, traffic
  <2>4. ASSUME NEW a \in Assets, LockExpires(a)
        PROVE  IndexInv'
    BY <2>4 DEF LockExpires, rowVars, traffic
  <2>5. ASSUME NEW r \in Completes, CompleteLookup(r)
        PROVE  IndexInv'
    BY <2>5 DEF CompleteLookup, Goto, Live, rowVars, traffic
  <2>6. ASSUME NEW r \in Completes, CompleteVerify(r)
        PROVE  IndexInv'
    BY <2>6 DEF CompleteVerify, Goto, rowVars, traffic
  <2>7. ASSUME NEW r \in Completes, UpdateBlob(r)
        PROVE  IndexInv'
    BY <2>7 DEF UpdateBlob, Goto, rowVars, traffic
  <2>8. ASSUME NEW r \in Completes, PublishUploadComplete(r)
        PROVE  IndexInv'
    <3>1. Published(r)
      BY <2>8, PublishEffect
    <3>2. ASSUME "index" \notin Faults, NEW q \in Procs, NEW d \in Completes,
                 task'[q][d] \in {"stored", "checked"}
          PROVE  deleted'[target'[d]] \/ point'[target'[d]]
      <4>1. CASE d = r
        BY <3>1, <3>2, <4>1 DEF Published
      <4>2. CASE ~(d = r)
        BY <3>1, <3>2, <4>2 DEF Published
      <4>3. QED
        BY <4>1, <4>2
    <3>3. (\A d \in Deletes : pc[d] \in {"committed", "unindexed"} => deleted[target[d]])'
          /\ ReadyIsIndexed'
      BY <3>1 DEF Published
    <3>4. QED
      BY <3>2, <3>3
  <2>9. ASSUME NEW r \in Completes, CommitComplete(r)
        PROVE  IndexInv'
    BY <2>9 DEF CommitComplete, Goto, rowVars, traffic
  <2>10. ASSUME NEW r \in Requests, CommitFails(r)
        PROVE  IndexInv'
    BY <2>10 DEF CommitFails, Goto, rowVars, traffic
  <2>11. ASSUME NEW r \in Deletes, DeleteLookup(r)
        PROVE  IndexInv'
    BY <2>11 DEF DeleteLookup, Goto, Live, rowVars, traffic
  <2>12. ASSUME NEW r \in Deletes, SoftDelete(r)
        PROVE  IndexInv'
    BY <2>12, PipelineAssumption DEF SoftDelete, Goto, rowVars, traffic
  <2>13. ASSUME NEW r \in Deletes, PublishDeleted(r)
        PROVE  IndexInv'
    BY <2>13 DEF PublishDeleted, Goto, rowVars, traffic
  <2>14. ASSUME NEW r \in Deletes, CommitDelete(r)
        PROVE  IndexInv'
    BY <2>14, PipelineAssumption DEF CommitDelete, Goto, rowVars, traffic
  <2>15. ASSUME NEW r \in Deletes, DeleteFromIndex(r)
        PROVE  IndexInv'
    BY <2>15 DEF DeleteFromIndex, Goto, rowVars, traffic
  <2>16. ASSUME NEW r \in Deletes, DeleteBlob(r)
        PROVE  IndexInv'
    BY <2>16 DEF DeleteBlob, Goto, rowVars, traffic
  <2>17. ASSUME NEW p \in Procs, NEW c \in Completes, AcquireLock(p, c)
        PROVE  IndexInv'
    <3>1. Attempted(p, c)
      BY <2>17, AcquireEffect
    <3>2. ASSUME "index" \notin Faults, NEW q \in Procs, NEW d \in Completes,
                 task'[q][d] \in {"stored", "checked"}
          PROVE  deleted'[target'[d]] \/ point'[target'[d]]
      <4>1. CASE q = p /\ d = c
        BY <3>1, <3>2, <4>1 DEF Attempted
      <4>2. CASE ~(q = p /\ d = c)
        BY <3>1, <3>2, <4>2 DEF Attempted
      <4>3. QED
        BY <4>1, <4>2
    <3>3. (\A d \in Deletes : pc[d] \in {"committed", "unindexed"} => deleted[target[d]])'
          /\ ReadyIsIndexed'
      BY <3>1 DEF Attempted
    <3>4. QED
      BY <3>2, <3>3
  <2>18. ASSUME NEW p \in Procs, NEW c \in Completes, LoadAsset(p, c)
        PROVE  IndexInv'
    BY <2>18, TaskGotoEffect DEF LoadAsset, TaskGoto, Live, rowVars, traffic
  <2>19. ASSUME NEW p \in Procs, NEW c \in Completes, StoreEmbedding(p, c)
        PROVE  IndexInv'
    BY <2>19, TaskGotoEffect DEF StoreEmbedding, TaskGoto, rowVars, traffic
  <2>20. ASSUME NEW p \in Procs, NEW c \in Completes, RecheckExists(p, c)
        PROVE  IndexInv'
    BY <2>20, TaskGotoEffect DEF RecheckExists, TaskGoto, Live, rowVars, traffic
  <2>21. ASSUME NEW p \in Procs, NEW c \in Completes, UpdateStatusReady(p, c)
        PROVE  IndexInv'
    BY <2>21, TaskGotoEffect DEF UpdateStatusReady, TaskGoto, RowLocked, rowVars, traffic
  <2>22. ASSUME NEW p \in Procs, NEW c \in Completes, HandlerFails(p, c)
        PROVE  IndexInv'
    BY <2>22 DEF HandlerFails, Embedding, rowVars, traffic
  <2>23. ASSUME NEW p \in Procs, Disconnect(p)
        PROVE  IndexInv'
    BY <2>23 DEF Disconnect, rowVars, traffic
  <2>24. ASSUME NEW p \in Procs, Reconnect(p)
        PROVE  IndexInv'
    BY <2>24 DEF Reconnect, rowVars, traffic
  <2>25. ASSUME NEW p \in Procs, Crash(p)
        PROVE  IndexInv'
    BY <2>25, CrashEffect DEF Crash, rowVars, traffic
  <2>26. CASE UNCHANGED vars
    BY <2>26 DEF vars
  <2>27. QED
    BY <2>1, <2>2, <2>3, <2>4, <2>5, <2>6, <2>7, <2>8, <2>9, <2>10,
       <2>11, <2>12, <2>13, <2>14, <2>15, <2>16, <2>17, <2>18,
       <2>19, <2>20, <2>21, <2>22, <2>23, <2>24, <2>25, <2>26
       DEF Next, ServeComplete, ServeDelete, RunHandler
<1>3. IndexInv => ReadyIsIndexed
  BY DEF IndexInv
<1>4. QED
  BY <1>1, <1>2, <1>3, TypeCorrect, PTL DEF Spec

\* While commits succeed and processes stay up, a live READY file has its
\* blob_ref although its event is published before the commit.
THEOREM BlobCorrect == Spec => []ReadyHasBlob
<1>1. Init => BlobInv
  BY DEF Init, BlobInv, ReadyHasBlob, Requests, TypeOK, TaskPCs, RequestPCs
<1>2. ASSUME TypeOK, TypeOK', BlobInv, [Next]_vars
      PROVE  BlobInv'
  <2> USE <1>2 DEF BlobInv, ReadyHasBlob, Requests, TypeOK, TaskPCs, RequestPCs
  <2>1. ASSUME NEW a \in Assets, InitUpload(a)
        PROVE  BlobInv'
    BY <2>1 DEF InitUpload, rowVars, traffic
  <2>2. ASSUME NEW a \in Assets, PutObject(a)
        PROVE  BlobInv'
    BY <2>2 DEF PutObject, rowVars, traffic
  <2>3. ASSUME NEW a \in Assets, GraphqlDelete(a)
        PROVE  BlobInv'
    BY <2>3 DEF GraphqlDelete, RowLocked, rowVars, traffic
  <2>4. ASSUME NEW a \in Assets, LockExpires(a)
        PROVE  BlobInv'
    BY <2>4 DEF LockExpires, rowVars, traffic
  <2>5. ASSUME NEW r \in Completes, CompleteLookup(r)
        PROVE  BlobInv'
    BY <2>5 DEF CompleteLookup, Goto, Live, rowVars, traffic
  <2>6. ASSUME NEW r \in Completes, CompleteVerify(r)
        PROVE  BlobInv'
    BY <2>6 DEF CompleteVerify, Goto, rowVars, traffic
  <2>7. ASSUME NEW r \in Completes, UpdateBlob(r)
        PROVE  BlobInv'
    BY <2>7 DEF UpdateBlob, Goto, rowVars, traffic
  <2>8. ASSUME NEW r \in Completes, PublishUploadComplete(r)
        PROVE  BlobInv'
    <3>1. Published(r)
      BY <2>8, PublishEffect
    <3>2. ASSUME Faults \cap {"commit", "crash"} = {},
                 NEW q \in Procs, NEW d \in Completes, task'[q][d] # "none"
          PROVE  pc'[d] = "published" \/ blobRef'[target'[d]]
      <4>1. CASE d = r
        BY <3>1, <3>2, <4>1 DEF Published
      <4>2. CASE ~(d = r)
        BY <3>1, <3>2, <4>2 DEF Published
      <4>3. QED
        BY <4>1, <4>2
    <3>3. ReadyHasBlob'
      BY <3>1 DEF Published
    <3>4. QED
      BY <3>2, <3>3
  <2>9. ASSUME NEW r \in Completes, CommitComplete(r)
        PROVE  BlobInv'
    BY <2>9 DEF CommitComplete, Goto, rowVars, traffic
  <2>10. ASSUME NEW r \in Requests, CommitFails(r)
        PROVE  BlobInv'
    BY <2>10 DEF CommitFails, Goto, rowVars, traffic
  <2>11. ASSUME NEW r \in Deletes, DeleteLookup(r)
        PROVE  BlobInv'
    BY <2>11 DEF DeleteLookup, Goto, Live, rowVars, traffic
  <2>12. ASSUME NEW r \in Deletes, SoftDelete(r)
        PROVE  BlobInv'
    BY <2>12, PipelineAssumption DEF SoftDelete, Goto, rowVars, traffic
  <2>13. ASSUME NEW r \in Deletes, PublishDeleted(r)
        PROVE  BlobInv'
    BY <2>13 DEF PublishDeleted, Goto, rowVars, traffic
  <2>14. ASSUME NEW r \in Deletes, CommitDelete(r)
        PROVE  BlobInv'
    BY <2>14, PipelineAssumption DEF CommitDelete, Goto, rowVars, traffic
  <2>15. ASSUME NEW r \in Deletes, DeleteFromIndex(r)
        PROVE  BlobInv'
    BY <2>15 DEF DeleteFromIndex, Goto, rowVars, traffic
  <2>16. ASSUME NEW r \in Deletes, DeleteBlob(r)
        PROVE  BlobInv'
    BY <2>16 DEF DeleteBlob, Goto, rowVars, traffic
  <2>17. ASSUME NEW p \in Procs, NEW c \in Completes, AcquireLock(p, c)
        PROVE  BlobInv'
    <3>1. Attempted(p, c)
      BY <2>17, AcquireEffect
    <3>2. ASSUME Faults \cap {"commit", "crash"} = {},
                 NEW q \in Procs, NEW d \in Completes, task'[q][d] # "none"
          PROVE  pc'[d] = "published" \/ blobRef'[target'[d]]
      <4>1. CASE q = p /\ d = c
        BY <3>1, <3>2, <4>1 DEF Attempted
      <4>2. CASE ~(q = p /\ d = c)
        BY <3>1, <3>2, <4>2 DEF Attempted
      <4>3. QED
        BY <4>1, <4>2
    <3>3. ReadyHasBlob'
      BY <3>1 DEF Attempted
    <3>4. QED
      BY <3>2, <3>3
  <2>18. ASSUME NEW p \in Procs, NEW c \in Completes, LoadAsset(p, c)
        PROVE  BlobInv'
    BY <2>18, TaskGotoEffect DEF LoadAsset, TaskGoto, Live, rowVars, traffic
  <2>19. ASSUME NEW p \in Procs, NEW c \in Completes, StoreEmbedding(p, c)
        PROVE  BlobInv'
    BY <2>19, TaskGotoEffect DEF StoreEmbedding, TaskGoto, rowVars, traffic
  <2>20. ASSUME NEW p \in Procs, NEW c \in Completes, RecheckExists(p, c)
        PROVE  BlobInv'
    BY <2>20, TaskGotoEffect DEF RecheckExists, TaskGoto, Live, rowVars, traffic
  <2>21. ASSUME NEW p \in Procs, NEW c \in Completes, UpdateStatusReady(p, c)
        PROVE  BlobInv'
    BY <2>21, TaskGotoEffect DEF UpdateStatusReady, TaskGoto, RowLocked, rowVars, traffic
  <2>22. ASSUME NEW p \in Procs, NEW c \in Completes, HandlerFails(p, c)
        PROVE  BlobInv'
    BY <2>22 DEF HandlerFails, Embedding, rowVars, traffic
  <2>23. ASSUME NEW p \in Procs, Disconnect(p)
        PROVE  BlobInv'
    BY <2>23 DEF Disconnect, rowVars, traffic
  <2>24. ASSUME NEW p \in Procs, Reconnect(p)
        PROVE  BlobInv'
    BY <2>24 DEF Reconnect, rowVars, traffic
  <2>25. ASSUME NEW p \in Procs, Crash(p)
        PROVE  BlobInv'
    BY <2>25, CrashEffect DEF Crash, rowVars, traffic
  <2>26. CASE UNCHANGED vars
    BY <2>26 DEF vars
  <2>27. QED
    BY <2>1, <2>2, <2>3, <2>4, <2>5, <2>6, <2>7, <2>8, <2>9, <2>10,
       <2>11, <2>12, <2>13, <2>14, <2>15, <2>16, <2>17, <2>18,
       <2>19, <2>20, <2>21, <2>22, <2>23, <2>24, <2>25, <2>26
       DEF Next, ServeComplete, ServeDelete, RunHandler
<1>3. BlobInv => ReadyHasBlob
  BY DEF BlobInv
<1>4. QED
  BY <1>1, <1>2, <1>3, TypeCorrect, PTL DEF Spec

-----------------------------------------------------------------------------
(* The pipeline implements AssetLifecycle. *)

\* A step that writes no row but a's moves no phase but a's.
RowsButUnchanged(a) ==
    \A b \in Assets :
        b # a => /\ status'[b] = status[b]
                 /\ deleted'[b] = deleted[b]
                 /\ blobRef'[b] = blobRef[b]

LEMMA PhaseMoves ==
    ASSUME NEW a \in Assets, RowsButUnchanged(a)
    PROVE  [b \in Assets |-> Phase(b)]'
             = [[b \in Assets |-> Phase(b)] EXCEPT ![a] = Phase(a)']
  BY DEF RowsButUnchanged, Phase

\* A step that moves no row and no object is no step of the lifecycle.
LEMMA LifecycleStutters ==
    ASSUME UNCHANGED <<status, deleted, blobRef, stored>>
    PROVE  UNCHANGED Lifecycle!lifecycleVars
  BY DEF Lifecycle!lifecycleVars, Phase

\* A file with a row moves past PENDING, or stays where it was, with its
\* content in the bucket.
LEMMA LifecycleAvailable ==
    ASSUME NEW a \in Assets, TypeOK, RowsButUnchanged(a),
           status[a] # "none", Kept(a), UNCHANGED <<deleted, stored>>,
           status'[a] \in {"processing", "ready"}
    PROVE  [Lifecycle!Next]_(Lifecycle!lifecycleVars)
<1>1. CASE Phase(a) = "reserved"
  <2>1. Phase(a)' = "available"
    BY <1>1 DEF Phase
  <2>2. stored[a]
    BY <1>1 DEF Kept, Phase
  <2>3. Lifecycle!MakeAvailable(a)
    BY <1>1, <2>1, <2>2, PhaseMoves DEF Lifecycle!MakeAvailable
  <2>4. QED
    BY <2>3 DEF Lifecycle!Next
<1>2. CASE Phase(a) # "reserved"
  <2>1. Phase(a)' = Phase(a)
    BY <1>2 DEF Phase
  <2>2. UNCHANGED Lifecycle!lifecycleVars
    BY <2>1, PhaseMoves DEF Lifecycle!lifecycleVars
  <2>3. QED
    BY <2>2
<1>3. QED
  BY <1>1, <1>2

\* A file with a row is deleted, or deleted again.
LEMMA LifecycleRemove ==
    ASSUME NEW a \in Assets, RowsButUnchanged(a), status[a] # "none",
           UNCHANGED stored, status'[a] # "none", deleted'[a]
    PROVE  [Lifecycle!Next]_(Lifecycle!lifecycleVars)
<1>1. Phase(a)' = "gone"
  BY DEF Phase
<1>2. CASE Phase(a) \in {"reserved", "available"}
  <2>1. Lifecycle!Remove(a)
    BY <1>1, <1>2, PhaseMoves DEF Lifecycle!Remove
  <2>2. QED
    BY <2>1 DEF Lifecycle!Next
<1>3. CASE Phase(a) \notin {"reserved", "available"}
  <2>1. Phase(a) = "gone"
    BY <1>3 DEF Phase
  <2>2. UNCHANGED Lifecycle!lifecycleVars
    BY <1>1, <2>1, PhaseMoves DEF Lifecycle!lifecycleVars
  <2>3. QED
    BY <2>2
<1>4. QED
  BY <1>2, <1>3

\* Each step of the pipeline is a step of the lifecycle or a stutter.
LEMMA StepImplements ==
    ASSUME TypeOK, ContentInv, RowsExist, [Next]_vars
    PROVE  [Lifecycle!Next]_(Lifecycle!lifecycleVars)
<1> DEFINE Implemented == [Lifecycle!Next]_(Lifecycle!lifecycleVars)
<1>1. ASSUME UNCHANGED <<status, deleted, blobRef, stored>>
      PROVE  Implemented
  BY <1>1, LifecycleStutters
<1>2. ASSUME NEW a \in Assets, InitUpload(a)
      PROVE  Implemented
  <2>1. RowsButUnchanged(a)
    BY <1>2 DEF InitUpload, RowsButUnchanged, TypeOK
  <2>2. Phase(a) = "absent" /\ Phase(a)' = "reserved"
    BY <1>2 DEF InitUpload, Phase, TypeOK, RowsExist
  <2>3. Lifecycle!Reserve(a)
    BY <1>2, <2>1, <2>2, PhaseMoves DEF InitUpload, Lifecycle!Reserve
  <2>4. QED
    BY <2>3 DEF Lifecycle!Next
<1>3. ASSUME NEW a \in Assets, PutObject(a)
      PROVE  Implemented
  <2>1. Phase(a) # "absent"
    BY <1>3 DEF PutObject, Phase
  <2>2. Lifecycle!Fill(a)
    BY <1>3, <2>1 DEF PutObject, Lifecycle!Fill, rowVars, Phase
  <2>3. QED
    BY <2>2 DEF Lifecycle!Next
<1>4. ASSUME NEW a \in Assets, GraphqlDelete(a)
      PROVE  Implemented
  <2>1. RowsButUnchanged(a)
    BY <1>4 DEF GraphqlDelete, RowsButUnchanged, TypeOK
  <2>2. status[a] # "none" /\ status'[a] # "none" /\ deleted'[a] /\ UNCHANGED stored
    BY <1>4 DEF GraphqlDelete, TypeOK
  <2>3. QED
    BY <2>1, <2>2, LifecycleRemove
<1>5. ASSUME NEW r \in Completes, CommitComplete(r)
      PROVE  Implemented
  <2>1. target[r] \in Assets /\ pc[r] = "published"
    BY <1>5 DEF CommitComplete, Goto, TypeOK, Requests
  <2>2. RowsButUnchanged(target[r])
    BY <1>5, <2>1 DEF CommitComplete, RowsButUnchanged, TypeOK
  <2>3. /\ status'[target[r]] = "processing"
        /\ UNCHANGED <<deleted, stored>>
    BY <1>5, <2>1 DEF CommitComplete, TypeOK
  <2>4. status[target[r]] # "none" /\ Kept(target[r])
    BY <2>1 DEF RowsExist, ContentInv, Verified, Requests
  <2>5. QED
    BY <2>1, <2>2, <2>3, <2>4, LifecycleAvailable
<1>6. ASSUME NEW r \in Deletes, CommitDelete(r)
      PROVE  Implemented
  <2>1. target[r] \in Assets /\ pc[r] = "published"
    BY <1>6 DEF CommitDelete, Goto, TypeOK, Requests
  <2>2. RowsButUnchanged(target[r])
    BY <1>6, <2>1 DEF CommitDelete, RowsButUnchanged, TypeOK
  <2>3. /\ status'[target[r]] # "none" /\ deleted'[target[r]]
        /\ UNCHANGED stored
    BY <1>6, <2>1 DEF CommitDelete, TypeOK
  <2>4. status[target[r]] # "none"
    BY <2>1 DEF RowsExist, Requests
  <2>5. QED
    BY <2>1, <2>2, <2>3, <2>4, LifecycleRemove
<1>7. ASSUME NEW r \in Deletes, DeleteBlob(r)
      PROVE  Implemented
  <2>1. CASE UNCHANGED stored
    BY <1>1, <1>7, <2>1 DEF DeleteBlob, rowVars
  <2>2. CASE stored' = [stored EXCEPT ![target[r]] = FALSE]
    <3>1. target[r] \in Assets /\ pc[r] = "unindexed"
      BY <1>7 DEF DeleteBlob, Goto, TypeOK, Requests
    <3>2. Phase(target[r]) = "gone"
      BY <3>1 DEF ContentInv, RowsExist, Requests, Phase
    <3>3. Lifecycle!Reclaim(target[r])
      BY <1>7, <2>2, <3>1, <3>2 DEF DeleteBlob, rowVars, Lifecycle!Reclaim, Phase
    <3>4. QED
      BY <3>1, <3>3 DEF Lifecycle!Next
  <2>3. QED
    BY <1>7, <2>1, <2>2 DEF DeleteBlob
<1>8. ASSUME NEW p \in Procs, NEW c \in Completes, UpdateStatusReady(p, c)
      PROVE  Implemented
  <2>1. target[c] \in Assets /\ task[p][c] = "checked"
    BY <1>8 DEF UpdateStatusReady, TaskGoto, TypeOK, Requests
  <2>2. RowsButUnchanged(target[c])
    BY <1>8, <2>1 DEF UpdateStatusReady, RowsButUnchanged, TypeOK
  <2>3. /\ status'[target[c]] = "ready"
        /\ UNCHANGED <<deleted, stored>>
    BY <1>8, <2>1 DEF UpdateStatusReady, TypeOK
  <2>4. status[target[c]] # "none" /\ Kept(target[c])
    BY <2>1 DEF RowsExist, ContentInv, Running
  <2>5. QED
    BY <2>1, <2>2, <2>3, <2>4, LifecycleAvailable
<1>9. ASSUME NEW r \in Completes,
             CompleteLookup(r) \/ CompleteVerify(r) \/ UpdateBlob(r)
               \/ PublishUploadComplete(r)
      PROVE  Implemented
  BY <1>1, <1>9 DEF CompleteLookup, CompleteVerify, UpdateBlob,
                    PublishUploadComplete, rowVars
<1>10. ASSUME NEW r \in Requests,
              CommitFails(r) \/ DeleteLookup(r) \/ SoftDelete(r)
                \/ PublishDeleted(r) \/ DeleteFromIndex(r)
       PROVE  Implemented
  BY <1>1, <1>10 DEF CommitFails, DeleteLookup, SoftDelete, PublishDeleted,
                     DeleteFromIndex, rowVars
<1>11. ASSUME NEW p \in Procs, NEW c \in Completes,
              AcquireLock(p, c) \/ LoadAsset(p, c) \/ StoreEmbedding(p, c)
                \/ RecheckExists(p, c) \/ HandlerFails(p, c)
       PROVE  Implemented
  BY <1>1, <1>11 DEF AcquireLock, LoadAsset, StoreEmbedding, RecheckExists,
                     HandlerFails, rowVars
<1>12. ASSUME NEW p \in Procs, Disconnect(p) \/ Reconnect(p) \/ Crash(p)
       PROVE  Implemented
  BY <1>1, <1>12 DEF Disconnect, Reconnect, Crash, rowVars
<1>13. ASSUME NEW a \in Assets, LockExpires(a)
       PROVE  Implemented
  BY <1>1, <1>13 DEF LockExpires, rowVars
<1>14. ASSUME UNCHANGED vars
       PROVE  Implemented
  <2>1. UNCHANGED <<status, deleted, blobRef, stored>>
    BY <1>14 DEF vars
  <2>2. QED
    BY <1>1, <2>1
<1> HIDE DEF Implemented
<1>15. Implemented
  BY <1>2, <1>3, <1>4, <1>5, <1>6, <1>7, <1>8, <1>9, <1>10, <1>11, <1>12,
     <1>13, <1>14
     DEF Next, ServeComplete, ServeDelete, RunHandler, Requests
<1>16. QED
  BY <1>15 DEF Implemented

\* The pipeline, with any number of processes, files and requests and with
\* every fault, implements the abstract life of a file.
THEOREM PipelineImplementsLifecycle == Spec => ImplementsLifecycle
<1>1. Init => Lifecycle!Init
  BY DEF Init, Lifecycle!Init, Phase
<1>2. QED
  BY <1>1, TypeCorrect, ContentInvariant, RowsExistCorrect, StepImplements, PTL
     DEF Spec, ImplementsLifecycle, Lifecycle!Spec

-----------------------------------------------------------------------------
(***************************************************************************)
(* A committed upload does not stay in PROCESSING, when no process, no     *)
(* subscription, no event, no commit and no handler fails, and each file   *)
(* is completed by one request at most.  Redis, Qdrant and the bucket may  *)
(* fail, and the lock may expire.                                          *)
(***************************************************************************)
NoneLost == Faults \cap {"crash", "disconnect", "publish", "commit", "worker"} = {}

OnePerFile == \A c, d \in Completes : target[c] = target[d] => c = d

\* A handler works on the file, or will take the lock when it gets to run.
InHand(p, c) == Embedding(p, c) \/ (~lock[target[c]] /\ task[p][c] = "queued")

\* From its event on, a file that is to be processed is in some handler's hand:
\* the key of the lock is set by handlers of that event only, none of which ends
\* before the row is READY.
Announced ==
    \A p \in Procs, c \in Completes : task[p][c] # "none" => pc[c] \in {"published", "done"}

KeysOfEvents ==
    \A c \in Completes : lock[target[c]] => pc[c] \in {"published", "done"}

Committed ==
    \A a \in Assets :
        status[a] = "processing" => \E c \in Completes : target[c] = a /\ pc[c] = "done"

Owed(c) ==
    ~deleted[target[c]] /\ (pc[c] = "published" \/ status[target[c]] = "processing")

UploadInv ==
    /\ OnePerFile
    /\ \A p \in Procs : online[p]
    /\ Announced
    /\ KeysOfEvents
    /\ Committed
    /\ \A c \in Completes : Owed(c) => \E p \in Procs : InHand(p, c)

LEMMA UploadStep ==
    ASSUME NoneLost, TypeOK, TypeOK', RowsExist, UploadInv, [Next]_vars
    PROVE  UploadInv'
<1> USE PipelineAssumption
    DEF UploadInv, OnePerFile, Announced, KeysOfEvents, Committed, Owed, InHand, Embedding,
         TypeOK, Requests, RequestPCs, TaskPCs, Statuses
<1>1. ASSUME NEW a \in Assets, InitUpload(a) \/ PutObject(a) \/ GraphqlDelete(a)
      PROVE  UploadInv'
  BY <1>1 DEF InitUpload, PutObject, GraphqlDelete, rowVars, traffic
<1>2. ASSUME NEW a \in Assets, LockExpires(a)
      PROVE  UploadInv'
  BY <1>2 DEF LockExpires, rowVars, traffic
<1>3. ASSUME NEW r \in Completes,
             CompleteLookup(r) \/ CompleteVerify(r) \/ UpdateBlob(r)
      PROVE  UploadInv'
  <2>1. /\ UNCHANGED <<status, deleted, lock, online, target, task>>
        /\ pc[r] \in {"idle", "found", "verified"}
        /\ pc'[r] # "published"
        /\ \A c \in Completes \ {r} : pc'[c] = pc[c]
    BY <1>3 DEF CompleteLookup, CompleteVerify, UpdateBlob, Goto, rowVars, traffic
  <2>2. status[target[r]] # "processing"
    BY <2>1
  <2>3. Announced' /\ KeysOfEvents'
    BY <2>1
  <2>4. Committed'
    BY <2>1
  <2>5. ASSUME NEW c \in Completes, Owed(c)'
        PROVE  \E p \in Procs : InHand(p, c)'
    <3>1. c # r /\ Owed(c)
      BY <2>1, <2>2, <2>5
    <3>2. QED
      BY <2>1, <3>1
  <2>6. QED
    BY <2>1, <2>3, <2>4, <2>5
<1>4. ASSUME NEW r \in Completes, PublishUploadComplete(r)
      PROVE  UploadInv'
  <2>1. pc[r] = "written" /\ ~lock[target[r]]
    BY <1>4 DEF PublishUploadComplete, Goto
  <2>2. /\ UNCHANGED <<status, deleted, lock, online, target>>
        /\ pc' = [pc EXCEPT ![r] = "published"]
    BY <1>4 DEF PublishUploadComplete, Goto, rowVars, traffic
  <2>3. task' = [p \in Procs |-> [task[p] EXCEPT ![r] = "queued"]]
    <3>1. "publish" \notin Faults
      BY DEF NoneLost
    <3>2. task' = [p \in Procs |->
                     IF online[p] THEN [task[p] EXCEPT ![r] = "queued"]
                                  ELSE task[p]]
      BY <1>4, <3>1 DEF PublishUploadComplete
    <3>3. QED
      BY <3>2
  <2>4. host[r] \in Procs /\ InHand(host[r], r)'
    BY <2>1, <2>2, <2>3
  <2>5. \A p \in Procs, c \in Completes \ {r} :
           task'[p][c] = task[p][c] /\ pc'[c] = pc[c]
    BY <2>2, <2>3
  <2>6. \A p \in Procs, c \in Completes \ {r} : InHand(p, c) => InHand(p, c)'
    BY <2>2, <2>5
  <2>7. Announced' /\ KeysOfEvents'
    BY <2>2, <2>5
  <2>8. Committed'
    BY <2>1, <2>2, <2>5
  <2>9. ASSUME NEW c \in Completes, Owed(c)'
        PROVE  \E p \in Procs : InHand(p, c)'
    <3>1. CASE c = r
      BY <2>4, <3>1
    <3>2. CASE c # r
      <4>1. Owed(c)
        BY <2>2, <2>5, <2>9, <3>2
      <4>2. QED
        BY <2>6, <3>2, <4>1
    <3>3. QED
      BY <3>1, <3>2
  <2>10. QED
    BY <2>2, <2>7, <2>8, <2>9
<1>5. ASSUME NEW r \in Completes, CommitComplete(r)
      PROVE  UploadInv'
  <2>1. /\ pc[r] = "published"
        /\ pc' = [pc EXCEPT ![r] = "done"]
        /\ status' = [status EXCEPT ![target[r]] = "processing"]
        /\ UNCHANGED <<deleted, lock, online, target, task>>
    BY <1>5 DEF CommitComplete, Goto, traffic
  <2>2. QED
    BY <2>1
<1>6. ASSUME NEW r \in Deletes,
             DeleteLookup(r) \/ SoftDelete(r) \/ PublishDeleted(r) \/ CommitDelete(r)
               \/ DeleteFromIndex(r) \/ DeleteBlob(r)
      PROVE  UploadInv'
  <2>1. \A c \in Completes : pc'[c] = pc[c]
    BY <1>6 DEF DeleteLookup, SoftDelete, PublishDeleted, CommitDelete, DeleteFromIndex,
                DeleteBlob, Goto
  <2>2. UNCHANGED <<lock, online, target, task>>
    BY <1>6 DEF DeleteLookup, SoftDelete, PublishDeleted, CommitDelete, DeleteFromIndex,
                DeleteBlob, traffic
  <2>3. \A a \in Assets : /\ deleted[a] => deleted'[a]
                          /\ status'[a] = "processing" => status[a] = "processing"
    BY <1>6 DEF DeleteLookup, SoftDelete, PublishDeleted, CommitDelete, DeleteFromIndex,
                DeleteBlob, rowVars
  <2>4. QED
    BY <2>1, <2>2, <2>3
<1>7. ASSUME NEW p \in Procs, NEW c \in Completes, AcquireLock(p, c)
      PROVE  UploadInv'
  <2>1. /\ UNCHANGED <<status, deleted, online, target, pc>>
        /\ task[p][c] = "queued"
        /\ \A q \in Procs, d \in Completes : q # p \/ d # c => task'[q][d] = task[q][d]
    BY <1>7, AcquireEffect DEF Attempted
  <2>2. \A a \in Assets : a # target[c] => lock'[a] = lock[a]
    BY <1>7 DEF AcquireLock
  <2>3. \/ task'[p][c] = "locked"
        \/ lock[target[c]] /\ UNCHANGED lock
    BY <1>7 DEF AcquireLock, TaskGoto
  <2>4. \A d \in Completes \ {c} : target[d] # target[c]
    OBVIOUS
  <2>5. \A d \in Completes \ {c}, q \in Procs : InHand(q, d) => InHand(q, d)'
    BY <2>1, <2>2, <2>4
  <2>6. ASSUME NEW q \in Procs, InHand(q, c)
        PROVE  \E o \in Procs : InHand(o, c)'
    <3>1. CASE task'[p][c] = "locked"
      BY <3>1
    <3>2. CASE lock[target[c]] /\ UNCHANGED lock
      <4>1. Embedding(q, c)
        BY <2>6, <3>2
      <4>2. q # p
        BY <2>1, <4>1
      <4>3. Embedding(q, c)'
        BY <2>1, <4>1, <4>2
      <4>4. QED
        BY <4>3
    <3>3. QED
      BY <2>3, <3>1, <3>2
  <2>7. pc[c] \in {"published", "done"}
    BY <2>1
  <2>8. Announced'
    <3> SUFFICES ASSUME NEW q \in Procs, NEW d \in Completes, task'[q][d] # "none"
                 PROVE  pc[d] \in {"published", "done"}
      BY <2>1
    <3>1. CASE q = p /\ d = c
      BY <2>7, <3>1
    <3>2. CASE ~(q = p /\ d = c)
      BY <2>1, <3>2
    <3>3. QED
      BY <3>1, <3>2
  <2>9. KeysOfEvents'
    BY <2>1, <2>2, <2>4, <2>7
  <2>10. Committed'
    BY <2>1
  <2>11. \A d \in Completes : Owed(d)' => \E q \in Procs : InHand(q, d)'
    <3> SUFFICES ASSUME NEW d \in Completes, Owed(d)' PROVE \E q \in Procs : InHand(q, d)'
      OBVIOUS
    <3>1. Owed(d)
      BY <2>1
    <3>2. PICK q \in Procs : InHand(q, d)
      BY <3>1
    <3>3. CASE d = c
      BY <2>6, <3>2, <3>3
    <3>4. CASE d # c
      <4>1. InHand(q, d)'
        BY <2>5, <3>2, <3>4
      <4>2. QED
        BY <4>1
    <3>5. QED
      BY <3>3, <3>4
  <2>12. QED
    BY <2>1, <2>8, <2>9, <2>10, <2>11
<1>8. ASSUME NEW p \in Procs, NEW c \in Completes,
             LoadAsset(p, c) \/ StoreEmbedding(p, c) \/ RecheckExists(p, c)
      PROVE  UploadInv'
  <2>1. UNCHANGED <<status, deleted, lock, online, target, pc>>
    BY <1>8 DEF LoadAsset, StoreEmbedding, RecheckExists, rowVars, traffic
  <2>2. \E to \in TaskPCs :
           /\ TaskGoto(p, c, "locked", to) \/ TaskGoto(p, c, "loaded", to)
                \/ TaskGoto(p, c, "stored", to)
           /\ Live(target[c]) => to \in {"loaded", "stored", "checked"}
    BY <1>8 DEF LoadAsset, StoreEmbedding, RecheckExists
  <2>3. /\ \A q \in Procs, d \in Completes : q # p \/ d # c => task'[q][d] = task[q][d]
        /\ task[p][c] \in {"locked", "loaded", "stored"}
        /\ Live(target[c]) => task'[p][c] \in {"loaded", "stored", "checked"}
    BY <2>2, TaskGotoEffect
  <2>4. ~Live(target[c]) => deleted[target[c]]
    BY <2>3 DEF Live, RowsExist, Running
  <2>5. ASSUME NEW q \in Procs, NEW d \in Completes, InHand(q, d), ~deleted[target[d]]
        PROVE  InHand(q, d)'
    <3>1. CASE q = p /\ d = c
      <4>1. Embedding(q, d)'
        BY <2>3, <2>4, <2>5, <3>1
      <4>2. QED
        BY <4>1
    <3>2. CASE ~(q = p /\ d = c)
      <4>1. task'[q][d] = task[q][d]
        BY <2>3, <3>2
      <4>2. QED
        BY <2>1, <2>5, <4>1
    <3>3. QED
      BY <3>1, <3>2
  <2>6. Announced'
    <3> SUFFICES ASSUME NEW q \in Procs, NEW d \in Completes, task'[q][d] # "none"
                 PROVE  pc[d] \in {"published", "done"}
      BY <2>1
    <3>1. task[q][d] # "none"
      <4>1. CASE q = p /\ d = c
        BY <2>3, <4>1
      <4>2. CASE ~(q = p /\ d = c)
        <5>1. task'[q][d] = task[q][d]
          BY <2>3, <4>2
        <5>2. QED
          BY <5>1
      <4>3. QED
        BY <4>1, <4>2
    <3>2. QED
      BY <3>1
  <2>7. KeysOfEvents' /\ Committed'
    BY <2>1
  <2>8. \A d \in Completes : Owed(d)' => \E q \in Procs : InHand(q, d)'
    <3> SUFFICES ASSUME NEW d \in Completes, Owed(d)' PROVE \E q \in Procs : InHand(q, d)'
      OBVIOUS
    <3>1. Owed(d)
      BY <2>1
    <3>2. PICK q \in Procs : InHand(q, d)
      BY <3>1
    <3>3. InHand(q, d)'
      BY <2>5, <3>1, <3>2
    <3>4. QED
      BY <3>3
  <2>9. QED
    BY <2>1, <2>6, <2>7, <2>8
<1>9. ASSUME NEW p \in Procs, NEW c \in Completes, UpdateStatusReady(p, c)
      PROVE  UploadInv'
  <2>1. /\ status' = [status EXCEPT ![target[c]] = "ready"]
        /\ UNCHANGED <<deleted, lock, online, target, pc>>
        /\ ~RowLocked(target[c])
        /\ TaskGoto(p, c, "checked", "done")
    BY <1>9 DEF UpdateStatusReady, traffic
  <2>2. /\ \A q \in Procs, d \in Completes : q # p \/ d # c => task'[q][d] = task[q][d]
        /\ task[p][c] = "checked"
    BY <2>1, TaskGotoEffect
  <2>3. pc[c] # "published" /\ status'[target[c]] = "ready"
    BY <2>1 DEF RowLocked
  <2>4. \A d \in Completes \ {c} : target[d] # target[c] /\ status'[target[d]] = status[target[d]]
    BY <2>1
  <2>5. \A d \in Completes \ {c}, q \in Procs : InHand(q, d) => InHand(q, d)'
    BY <2>1, <2>2
  <2>6. Announced'
    <3> SUFFICES ASSUME NEW q \in Procs, NEW d \in Completes, task'[q][d] # "none"
                 PROVE  pc[d] \in {"published", "done"}
      BY <2>1
    <3>1. task[q][d] # "none"
      <4>1. CASE q = p /\ d = c
        BY <2>2, <4>1
      <4>2. CASE ~(q = p /\ d = c)
        <5>1. task'[q][d] = task[q][d]
          BY <2>2, <4>2
        <5>2. QED
          BY <5>1
      <4>3. QED
        BY <4>1, <4>2
    <3>2. QED
      BY <3>1
  <2>7. KeysOfEvents' /\ Committed'
    BY <2>1
  <2>8. \A d \in Completes : Owed(d)' => \E q \in Procs : InHand(q, d)'
    <3> SUFFICES ASSUME NEW d \in Completes, Owed(d)' PROVE \E q \in Procs : InHand(q, d)'
      OBVIOUS
    <3>1. d # c
      BY <2>1, <2>3
    <3>2. Owed(d)
      BY <2>1, <2>4, <3>1
    <3>3. PICK q \in Procs : InHand(q, d)
      BY <3>2
    <3>4. InHand(q, d)'
      BY <2>5, <3>1, <3>3
    <3>5. QED
      BY <3>4
  <2>9. QED
    BY <2>1, <2>6, <2>7, <2>8
<1>10. ASSUME NEW p \in Procs, Reconnect(p)
       PROVE  UploadInv'
  BY <1>10 DEF Reconnect, rowVars, traffic
<1>11. CASE UNCHANGED vars
  BY <1>11 DEF vars
<1>12. /\ \A r \in Requests : ~CommitFails(r)
       /\ \A p \in Procs, c \in Completes : ~HandlerFails(p, c)
       /\ \A p \in Procs : ~Disconnect(p) /\ ~Crash(p)
  BY DEF NoneLost, CommitFails, HandlerFails, Disconnect, Crash
<1>13. QED
  BY <1>1, <1>2, <1>3, <1>4, <1>5, <1>6, <1>7, <1>8, <1>9, <1>10, <1>11, <1>12
     DEF Next, ServeComplete, ServeDelete, RunHandler

LEMMA UploadInvariant ==
    ASSUME NoneLost
    PROVE  OnePerFile /\ Spec => []UploadInv
<1>1. OnePerFile /\ Init => UploadInv
  BY DEF Init, UploadInv, OnePerFile, Announced, KeysOfEvents, Committed, Owed, Requests, TypeOK, TaskPCs
<1>2. TypeOK /\ TypeOK' /\ RowsExist /\ UploadInv /\ [Next]_vars => UploadInv'
  BY UploadStep
<1>3. QED
  BY <1>1, <1>2, TypeCorrect, RowsExistCorrect, PTL DEF Spec
-----------------------------------------------------------------------------
(***************************************************************************)
(* What is owed is done.  The handler that has the file in hand goes from  *)
(* stage to stage; the last one waits for the row, which only a delete can *)
(* hold then, and a delete that holds it ends in deleting the file.        *)
(***************************************************************************)
Settled(a) == status[a] = "ready" \/ deleted[a]

Waiting(c, a) ==
    target[c] = a /\ pc[c] = "done" /\ status[a] = "processing" /\ ~deleted[a]

At(p, c, a, stage) == Waiting(c, a) /\ task[p][c] = stage

Free(p, c, a) == At(p, c, a, "queued") /\ ~lock[a]

Holds(d, a, step) == target[d] = a /\ pc[d] = step

HandlerReady(p, c) ==
    \/ task[p][c] \in {"queued", "locked", "loaded", "stored"}
    \/ task[p][c] = "checked" /\ ~RowLocked(target[c])

\* What the prover is not told of ENABLED: the guard of a step is all it needs.
CanDelete(d) == ENABLED <<ServeDelete(d)>>_vars
CanHandle(p, c) == ENABLED <<RunHandler(p, c)>>_vars

GuardsSuffice ==
    /\ \A d \in Deletes : pc[d] \in {"written", "published"} => CanDelete(d)
    /\ \A p \in Procs, c \in Completes : HandlerReady(p, c) => CanHandle(p, c)

\* From some point of a behaviour on.
Onward == [][Next]_vars /\ []TypeOK /\ []RowsExist /\ []UploadInv /\ []Fairness /\ []GuardsSuffice

SettlesLater(a) == <>Settled(a)

LEMMA FairParts ==
    Fairness => /\ \A r \in Deletes : Deleting(r)
                /\ \A p \in Procs, c \in Completes : Handling(p, c)
BY PTL DEF Fairness

-----------------------------------------------------------------------------
\* A request that waits for the handler waits on, or its file is settled.
LEMMA WaitingStays ==
    ASSUME NoneLost, TypeOK, UploadInv, [Next]_vars,
           NEW c \in Completes, NEW a \in Assets, Waiting(c, a)
    PROVE  Waiting(c, a)' \/ Settled(a)'
<1> USE PipelineAssumption DEF Waiting, Settled, TypeOK, Requests
<1>1. ASSUME NEW b \in Assets,
             InitUpload(b) \/ PutObject(b) \/ GraphqlDelete(b) \/ LockExpires(b)
      PROVE  Waiting(c, a)' \/ Settled(a)'
  BY <1>1 DEF InitUpload, PutObject, GraphqlDelete, LockExpires, rowVars, traffic
<1>2. ASSUME NEW r \in Completes,
             CompleteLookup(r) \/ CompleteVerify(r) \/ UpdateBlob(r)
               \/ PublishUploadComplete(r) \/ CommitComplete(r)
      PROVE  Waiting(c, a)' \/ Settled(a)'
  <2>1. r # c /\ target[r] # a
    BY <1>2 DEF CompleteLookup, CompleteVerify, UpdateBlob, PublishUploadComplete,
                CommitComplete, Goto, UploadInv, OnePerFile
  <2>2. pc'[c] = pc[c]
    BY <1>2, <2>1 DEF CompleteLookup, CompleteVerify, UpdateBlob, PublishUploadComplete,
                      CommitComplete, Goto
  <2>3. status'[a] = status[a] /\ deleted'[a] = deleted[a] /\ UNCHANGED target
    BY <1>2, <2>1 DEF CompleteLookup, CompleteVerify, UpdateBlob, PublishUploadComplete,
                      CommitComplete, rowVars, traffic
  <2>4. QED
    BY <2>2, <2>3
<1>3. ASSUME NEW d \in Deletes,
             DeleteLookup(d) \/ SoftDelete(d) \/ PublishDeleted(d) \/ CommitDelete(d)
               \/ DeleteFromIndex(d) \/ DeleteBlob(d)
      PROVE  Waiting(c, a)' \/ Settled(a)'
  BY <1>3 DEF DeleteLookup, SoftDelete, PublishDeleted, CommitDelete, DeleteFromIndex,
              DeleteBlob, Goto, rowVars, traffic
<1>4. ASSUME NEW p \in Procs, NEW b \in Completes, RunHandler(p, b)
      PROVE  Waiting(c, a)' \/ Settled(a)'
  <2>1. UNCHANGED <<pc, deleted, target>>
    BY <1>4 DEF RunHandler, AcquireLock, LoadAsset, StoreEmbedding, RecheckExists,
                UpdateStatusReady, HandlerFails, rowVars, traffic
  <2>2. status'[a] \in {status[a], "ready"}
    BY <1>4 DEF RunHandler, AcquireLock, LoadAsset, StoreEmbedding, RecheckExists,
                UpdateStatusReady, HandlerFails, rowVars
  <2>3. QED
    BY <2>1, <2>2
<1>5. ASSUME NEW p \in Procs, Reconnect(p)
      PROVE  Waiting(c, a)' \/ Settled(a)'
  BY <1>5 DEF Reconnect, rowVars, traffic
<1>6. CASE UNCHANGED vars
  BY <1>6 DEF vars
<1>7. /\ \A r \in Requests : ~CommitFails(r)
      /\ \A p \in Procs : ~Disconnect(p) /\ ~Crash(p)
  BY DEF NoneLost, CommitFails, Disconnect, Crash
<1>8. QED
  BY <1>1, <1>2, <1>3, <1>4, <1>5, <1>6, <1>7 DEF Next, ServeComplete, ServeDelete

\* Nobody else moves a handler of an event that is over.
LEMMA TaskStays ==
    ASSUME NoneLost, TypeOK, [Next]_vars,
           NEW p \in Procs, NEW c \in Completes, pc[c] = "done", ~RunHandler(p, c)
    PROVE  task'[p][c] = task[p][c]
<1>1. ASSUME NEW q \in Procs, NEW b \in Completes, RunHandler(q, b)
      PROVE  task'[p][c] = task[p][c]
  <2>1. ~(q = p /\ b = c)
    BY <1>1
  <2>2. CASE AcquireLock(q, b)
    BY <2>1, <2>2, AcquireEffect DEF Attempted
  <2>3. ASSUME NEW from, NEW to \in TaskPCs, TaskGoto(q, b, from, to)
        PROVE  task'[p][c] = task[p][c]
    BY <2>1, <2>3, TaskGotoEffect
  <2>4. CASE LoadAsset(q, b) \/ StoreEmbedding(q, b) \/ RecheckExists(q, b) \/ UpdateStatusReady(q, b)
    BY <2>3, <2>4 DEF LoadAsset, StoreEmbedding, RecheckExists, UpdateStatusReady, TaskPCs
  <2>5. ~HandlerFails(q, b)
    BY DEF NoneLost, HandlerFails
  <2>6. QED
    BY <1>1, <2>2, <2>4, <2>5 DEF RunHandler
<1>2. ASSUME NEW r \in Completes, PublishUploadComplete(r)
      PROVE  task'[p][c] = task[p][c]
  BY <1>2, PublishEffect DEF Published
<1>3. ASSUME ~\E q \in Procs, b \in Completes : RunHandler(q, b),
             ~\E r \in Completes : PublishUploadComplete(r)
      PROVE  UNCHANGED task
  BY <1>3 DEF NoneLost, Next, ServeComplete, ServeDelete, InitUpload, PutObject, GraphqlDelete,
              LockExpires, CompleteLookup, CompleteVerify, UpdateBlob, CommitComplete, CommitFails,
              DeleteLookup, SoftDelete, PublishDeleted, CommitDelete, DeleteFromIndex, DeleteBlob,
              Disconnect, Reconnect, Crash, vars
<1>4. QED
  BY <1>1, <1>2, <1>3

\* Nor a delete.
LEMMA DeleteStays ==
    ASSUME NoneLost, TypeOK, [Next]_vars, NEW d \in Deletes, pc[d] # "idle", ~ServeDelete(d)
    PROVE  pc'[d] = pc[d]
<1> USE PipelineAssumption DEF TypeOK, Requests
<1>1. ASSUME NEW r \in Completes, CompleteLookup(r) \/ ServeComplete(r)
      PROVE  pc'[d] = pc[d]
  BY <1>1 DEF ServeComplete, CompleteLookup, CompleteVerify, UpdateBlob, PublishUploadComplete,
              CommitComplete, CommitFails, Goto
<1>2. ASSUME NEW r \in Deletes, DeleteLookup(r) \/ ServeDelete(r)
      PROVE  pc'[d] = pc[d]
  <2>1. r # d
    BY <1>2 DEF DeleteLookup, Goto
  <2>2. QED
    BY <1>2, <2>1 DEF ServeDelete, DeleteLookup, SoftDelete, PublishDeleted, CommitDelete,
                      CommitFails, DeleteFromIndex, DeleteBlob, Goto
<1>3. ASSUME ~\E r \in Completes : CompleteLookup(r) \/ ServeComplete(r),
             ~\E r \in Deletes : DeleteLookup(r) \/ ServeDelete(r)
      PROVE  UNCHANGED pc
  BY <1>3 DEF NoneLost, Next, InitUpload, PutObject, GraphqlDelete, LockExpires, RunHandler,
              AcquireLock, LoadAsset, StoreEmbedding, RecheckExists, UpdateStatusReady,
              HandlerFails, Disconnect, Reconnect, Crash, vars
<1>4. QED
  BY <1>1, <1>2, <1>3

LEMMA TargetStays == [Next]_vars => UNCHANGED target
BY DEF Next, ServeComplete, ServeDelete, RunHandler, InitUpload, PutObject, GraphqlDelete,
       LockExpires, CompleteLookup, CompleteVerify, UpdateBlob, PublishUploadComplete,
       CommitComplete, CommitFails, DeleteLookup, SoftDelete, PublishDeleted, CommitDelete,
       DeleteFromIndex, DeleteBlob, AcquireLock, LoadAsset, StoreEmbedding, RecheckExists,
       UpdateStatusReady, HandlerFails, Disconnect, Reconnect, Crash, traffic, vars

-----------------------------------------------------------------------------
\* A delete that holds the row deletes the file.
LEMMA HolderDeletes ==
    ASSUME NoneLost, NEW d \in Deletes, NEW a \in Assets
    PROVE  Onward /\ (Holds(d, a, "written") \/ Holds(d, a, "published")) => SettlesLater(a)
<1>1. ASSUME TypeOK, [Next]_vars, Holds(d, a, "written")
      PROVE  /\ Holds(d, a, "written")' \/ Holds(d, a, "published")'
             /\ ServeDelete(d) => Holds(d, a, "published")'
  <2>1. CASE ServeDelete(d)
    BY <1>1, <2>1, TargetStays
       DEF Holds, ServeDelete, SoftDelete, PublishDeleted, CommitDelete, CommitFails,
           DeleteFromIndex, DeleteBlob, Goto, TypeOK, Requests
  <2>2. CASE ~ServeDelete(d)
    BY <1>1, <2>2, TargetStays, DeleteStays DEF Holds
  <2>3. QED
    BY <2>1, <2>2
<1>2. ASSUME TypeOK, [Next]_vars, Holds(d, a, "published")
      PROVE  /\ Holds(d, a, "published")' \/ Settled(a)'
             /\ ServeDelete(d) => Settled(a)'
  <2>1. CASE ServeDelete(d)
    BY <1>2, <2>1, TargetStays
       DEF Holds, Settled, NoneLost, ServeDelete, SoftDelete, PublishDeleted, CommitDelete,
           CommitFails, DeleteFromIndex, DeleteBlob, Goto, TypeOK, Requests
  <2>2. CASE ~ServeDelete(d)
    BY <1>2, <2>2, TargetStays, DeleteStays DEF Holds
  <2>3. QED
    BY <2>1, <2>2
<1>3. /\ TypeOK /\ Holds(d, a, "written") /\ [Next]_vars
           => Holds(d, a, "written")' \/ Holds(d, a, "published")'
      /\ TypeOK /\ [Next]_vars /\ Holds(d, a, "written") /\ <<ServeDelete(d)>>_vars
           => Holds(d, a, "published")'
  BY <1>1
<1>4. /\ TypeOK /\ Holds(d, a, "published") /\ [Next]_vars
           => Holds(d, a, "published")' \/ Settled(a)'
      /\ TypeOK /\ [Next]_vars /\ Holds(d, a, "published") /\ <<ServeDelete(d)>>_vars
           => Settled(a)'
  BY <1>2
<1>5. GuardsSuffice /\ (Holds(d, a, "written") \/ Holds(d, a, "published")) => CanDelete(d)
  BY DEF GuardsSuffice, Holds
<1>6. (\A r \in Deletes : Deleting(r)) => Deleting(d)
  OBVIOUS
<1>7. Deleting(d) => WF_vars(ServeDelete(d))
  BY PTL DEF Deleting
<1>8. QED
  BY <1>3, <1>4, <1>5, <1>6, <1>7, FairParts, PTL DEF Onward, CanDelete, SettlesLater

RowHeld(a) == \E d \in Deletes : Holds(d, a, "written") \/ Holds(d, a, "published")

LEMMA RowIsFreed ==
    ASSUME NoneLost, NEW a \in Assets
    PROVE  Onward /\ RowHeld(a) => SettlesLater(a)
BY HolderDeletes DEF RowHeld
-----------------------------------------------------------------------------
\* The stages of a handler whose file waits for it.
LEMMA StageAdvances ==
    ASSUME NoneLost, TypeOK, RowsExist, UploadInv, [Next]_vars,
           NEW p \in Procs, NEW c \in Completes, NEW a \in Assets,
           NEW stage \in {"locked", "loaded", "stored", "checked"}, NEW following,
           At(p, c, a, stage),
           \/ stage = "locked" /\ following = "loaded"
           \/ stage = "loaded" /\ following = "stored"
           \/ stage = "stored" /\ following = "checked"
           \/ stage = "checked" /\ following = "done"
    PROVE  /\ At(p, c, a, stage)' \/ At(p, c, a, following)' \/ Settled(a)'
           /\ RunHandler(p, c) => At(p, c, a, following)' \/ Settled(a)'
           /\ stage = "checked" => At(p, c, a, stage)' \/ Settled(a)'
           /\ stage = "checked" /\ RunHandler(p, c) => Settled(a)'
<1>1. Waiting(c, a) /\ task[p][c] = stage /\ pc[c] = "done"
  BY DEF At, Waiting
<1>2. Waiting(c, a)' \/ Settled(a)'
  BY <1>1, WaitingStays
<1>3. CASE RunHandler(p, c)
  <2>1. Live(target[c])
    BY <1>1 DEF Waiting, Live
  <2>2. ~AcquireLock(p, c) /\ ~HandlerFails(p, c)
    BY <1>1, AcquireEffect DEF Attempted, NoneLost, HandlerFails
  <2>3. ASSUME NEW from, NEW to \in TaskPCs, TaskGoto(p, c, from, to)
        PROVE  task'[p][c] = to /\ from = stage
    BY <1>1, <2>3, TaskGotoEffect
  <2>4. CASE LoadAsset(p, c)
    BY <1>1, <1>2, <2>1, <2>3, <2>4 DEF LoadAsset, TaskPCs, At
  <2>5. CASE StoreEmbedding(p, c)
    BY <1>1, <1>2, <2>3, <2>5 DEF StoreEmbedding, TaskPCs, At
  <2>6. CASE RecheckExists(p, c)
    BY <1>1, <1>2, <2>1, <2>3, <2>6 DEF RecheckExists, TaskPCs, At
  <2>7. CASE UpdateStatusReady(p, c)
    <3>1. Settled(a)'
      BY <1>1, <2>7 DEF UpdateStatusReady, Waiting, Settled, TypeOK
    <3>2. stage = "checked"
      BY <2>3, <2>7 DEF UpdateStatusReady, TaskPCs
    <3>3. QED
      BY <1>3, <3>1
  <2>8. QED
    BY <1>3, <2>2, <2>4, <2>5, <2>6, <2>7 DEF RunHandler
<1>4. CASE ~RunHandler(p, c)
  <2>1. task'[p][c] = stage
    BY <1>1, <1>4, TaskStays
  <2>2. QED
    BY <1>2, <1>4, <2>1 DEF At
<1>5. QED
  BY <1>3, <1>4

\* It gets to the end of them, whoever holds the row in between.
LEMMA HandlerSettles ==
    ASSUME NoneLost, NEW p \in Procs, NEW c \in Completes, NEW a \in Assets
    PROVE  /\ Onward /\ At(p, c, a, "locked") => SettlesLater(a)
           /\ Onward /\ At(p, c, a, "loaded") => SettlesLater(a)
           /\ Onward /\ At(p, c, a, "stored") => SettlesLater(a)
           /\ Onward /\ At(p, c, a, "checked") => SettlesLater(a)
<1> DEFINE Inv == TypeOK /\ RowsExist /\ UploadInv
<1> HIDE DEF Inv
<1>1. ASSUME Inv, [Next]_vars
      PROVE  /\ At(p, c, a, "locked") =>
                   /\ At(p, c, a, "locked")' \/ At(p, c, a, "loaded")' \/ Settled(a)'
                   /\ RunHandler(p, c) => At(p, c, a, "loaded")' \/ Settled(a)'
             /\ At(p, c, a, "loaded") =>
                   /\ At(p, c, a, "loaded")' \/ At(p, c, a, "stored")' \/ Settled(a)'
                   /\ RunHandler(p, c) => At(p, c, a, "stored")' \/ Settled(a)'
             /\ At(p, c, a, "stored") =>
                   /\ At(p, c, a, "stored")' \/ At(p, c, a, "checked")' \/ Settled(a)'
                   /\ RunHandler(p, c) => At(p, c, a, "checked")' \/ Settled(a)'
             /\ At(p, c, a, "checked") =>
                   /\ At(p, c, a, "checked")' \/ Settled(a)'
                   /\ RunHandler(p, c) => Settled(a)'
  BY <1>1, StageAdvances DEF Inv
<1>2. /\ Inv /\ [Next]_vars /\ At(p, c, a, "locked")
           => At(p, c, a, "locked")' \/ At(p, c, a, "loaded")' \/ Settled(a)'
      /\ Inv /\ [Next]_vars /\ At(p, c, a, "locked") /\ <<RunHandler(p, c)>>_vars
           => At(p, c, a, "loaded")' \/ Settled(a)'
  BY <1>1
<1>3. /\ Inv /\ [Next]_vars /\ At(p, c, a, "loaded")
           => At(p, c, a, "loaded")' \/ At(p, c, a, "stored")' \/ Settled(a)'
      /\ Inv /\ [Next]_vars /\ At(p, c, a, "loaded") /\ <<RunHandler(p, c)>>_vars
           => At(p, c, a, "stored")' \/ Settled(a)'
  BY <1>1
<1>4. /\ Inv /\ [Next]_vars /\ At(p, c, a, "stored")
           => At(p, c, a, "stored")' \/ At(p, c, a, "checked")' \/ Settled(a)'
      /\ Inv /\ [Next]_vars /\ At(p, c, a, "stored") /\ <<RunHandler(p, c)>>_vars
           => At(p, c, a, "checked")' \/ Settled(a)'
  BY <1>1
<1>5. /\ Inv /\ [Next]_vars /\ At(p, c, a, "checked")
           => At(p, c, a, "checked")' \/ Settled(a)'
      /\ Inv /\ [Next]_vars /\ At(p, c, a, "checked") /\ <<RunHandler(p, c)>>_vars
           => Settled(a)'
  BY <1>1
<1>6. GuardsSuffice
        => /\ At(p, c, a, "locked") => CanHandle(p, c)
           /\ At(p, c, a, "loaded") => CanHandle(p, c)
           /\ At(p, c, a, "stored") => CanHandle(p, c)
           /\ At(p, c, a, "checked") /\ ~RowLocked(a) => CanHandle(p, c)
  BY DEF GuardsSuffice, HandlerReady, At, Waiting
<1>7. Inv /\ At(p, c, a, "checked") /\ RowLocked(a) => RowHeld(a)
  <2> SUFFICES ASSUME Inv, At(p, c, a, "checked"), RowLocked(a) PROVE RowHeld(a)
    OBVIOUS
  <2>1. PICK r \in Requests : target[r] = a /\ pc[r] \in {"written", "published"}
    BY DEF RowLocked
  <2>2. r \notin Completes
    BY <2>1 DEF At, Waiting, Inv, UploadInv, OnePerFile
  <2>3. QED
    BY <2>1, <2>2 DEF RowHeld, Holds, Requests
<1>8. Onward /\ RowHeld(a) => SettlesLater(a)
  BY RowIsFreed
<1>9. (\A q \in Procs, b \in Completes : Handling(q, b)) => Handling(p, c)
  OBVIOUS
<1>11. Handling(p, c) => WF_vars(RunHandler(p, c))
  BY PTL DEF Handling
<1>12. TypeOK /\ RowsExist /\ UploadInv => Inv
  BY DEF Inv
<1>13. Fairness => Handling(p, c)
  BY FairParts, <1>9
<1>14. Onward /\ At(p, c, a, "checked") => SettlesLater(a)
  BY <1>5, <1>6, <1>7, <1>8, <1>11, <1>12, <1>13, PTL
     DEF Onward, CanHandle, SettlesLater
<1>15. Onward /\ At(p, c, a, "stored") => SettlesLater(a)
  BY <1>4, <1>6, <1>11, <1>12, <1>13, <1>14, PTL DEF Onward, CanHandle, SettlesLater
<1>16. Onward /\ At(p, c, a, "loaded") => SettlesLater(a)
  BY <1>3, <1>6, <1>11, <1>12, <1>13, <1>15, PTL DEF Onward, CanHandle, SettlesLater
<1>17. Onward /\ At(p, c, a, "locked") => SettlesLater(a)
  BY <1>2, <1>6, <1>11, <1>12, <1>13, <1>16, PTL DEF Onward, CanHandle, SettlesLater
<1>18. QED
  BY <1>14, <1>15, <1>16, <1>17
Worked(a) ==
    \E p \in Procs, c \in Completes :
        \/ At(p, c, a, "locked")
        \/ At(p, c, a, "loaded")
        \/ At(p, c, a, "stored")
        \/ At(p, c, a, "checked")

LEMMA WorkedSettles ==
    ASSUME NoneLost, NEW a \in Assets
    PROVE  Onward /\ Worked(a) => SettlesLater(a)
BY HandlerSettles DEF Worked

\* While the key is free, the next handler that asks for it gets it.
LEMMA FreeStays ==
    ASSUME NoneLost, TypeOK, UploadInv, [Next]_vars,
           NEW p \in Procs, NEW c \in Completes, NEW a \in Assets, Free(p, c, a)
    PROVE  /\ Free(p, c, a)' \/ Worked(a)' \/ Settled(a)'
           /\ RunHandler(p, c) => Worked(a)' \/ Settled(a)'
<1>1. Waiting(c, a) /\ task[p][c] = "queued" /\ ~lock[a] /\ target[c] = a /\ pc[c] = "done"
  BY DEF Free, At, Waiting
<1>2. Waiting(c, a)' \/ Settled(a)'
  BY <1>1, WaitingStays
<1>3. ASSUME NEW q \in Procs, AcquireLock(q, c)
      PROVE  Worked(a)' \/ Settled(a)'
  <2>1. TaskGoto(q, c, "queued", "locked")
    BY <1>1, <1>3 DEF AcquireLock
  <2>2. task'[q][c] = "locked"
    BY <2>1, TaskGotoEffect DEF TaskPCs
  <2>3. QED
    BY <1>2, <2>2 DEF Worked, At
<1>4. ASSUME NEW q \in Procs, NEW b \in Completes \ {c}, AcquireLock(q, b)
      PROVE  lock'[a] = lock[a]
  <2>1. target[b] # a
    BY <1>1 DEF UploadInv, OnePerFile
  <2>2. QED
    BY <1>4, <2>1 DEF AcquireLock, TypeOK
<1>5. CASE RunHandler(p, c)
  <2>1. AcquireLock(p, c)
    <3>1. ~LoadAsset(p, c) /\ ~StoreEmbedding(p, c) /\ ~RecheckExists(p, c) /\ ~UpdateStatusReady(p, c)
      BY <1>1 DEF LoadAsset, StoreEmbedding, RecheckExists, UpdateStatusReady, TaskGoto
    <3>2. QED
      BY <1>5, <3>1 DEF RunHandler, HandlerFails, NoneLost
  <2>2. QED
    BY <1>3, <2>1
<1>6. CASE ~RunHandler(p, c)
  <2>1. task'[p][c] = "queued"
    BY <1>1, <1>6, TaskStays
  <2>2. CASE \E q \in Procs : AcquireLock(q, c)
    BY <1>3, <1>6, <2>2
  <2>3. CASE ~\E q \in Procs : AcquireLock(q, c)
    <3>1. lock'[a] => lock[a]
      <4>1. CASE \E q \in Procs, b \in Completes \ {c} : AcquireLock(q, b)
        BY <1>4, <4>1
      <4>2. ASSUME NEW b \in Assets, LockExpires(b)
            PROVE  lock'[a] => lock[a]
        BY <4>2 DEF LockExpires, TypeOK
      <4>3. ASSUME ~\E q \in Procs, b \in Completes : AcquireLock(q, b),
                   ~\E b \in Assets : LockExpires(b)
            PROVE  UNCHANGED lock
        BY <4>3 DEF Next, ServeComplete, ServeDelete, RunHandler, InitUpload, PutObject,
           GraphqlDelete, CompleteLookup, CompleteVerify, UpdateBlob, PublishUploadComplete,
           CommitComplete, CommitFails, DeleteLookup, SoftDelete, PublishDeleted, CommitDelete,
           DeleteFromIndex, DeleteBlob, LoadAsset, StoreEmbedding, RecheckExists,
           UpdateStatusReady, HandlerFails, Disconnect, Reconnect, Crash, vars
      <4>4. QED
        BY <2>3, <4>1, <4>2, <4>3
    <3>2. QED
      BY <1>1, <1>2, <1>6, <2>1, <3>1 DEF Free, At
  <2>4. QED
    BY <2>2, <2>3
<1>7. QED
  BY <1>5, <1>6

LEMMA FreeSettles ==
    ASSUME NoneLost, NEW p \in Procs, NEW c \in Completes, NEW a \in Assets
    PROVE  Onward /\ Free(p, c, a) => SettlesLater(a)
<1>1. TypeOK /\ UploadInv /\ [Next]_vars /\ Free(p, c, a)
        => Free(p, c, a)' \/ Worked(a)' \/ Settled(a)'
  BY FreeStays
<1>2. TypeOK /\ UploadInv /\ [Next]_vars /\ Free(p, c, a) /\ <<RunHandler(p, c)>>_vars
        => Worked(a)' \/ Settled(a)'
  BY FreeStays
<1>3. GuardsSuffice /\ Free(p, c, a) => CanHandle(p, c)
  BY DEF GuardsSuffice, HandlerReady, Free, At
<1>4. (\A q \in Procs, b \in Completes : Handling(q, b)) => Handling(p, c)
  OBVIOUS
<1>5. Fairness => Handling(p, c)
  BY FairParts, <1>4
<1>6. Handling(p, c) => WF_vars(RunHandler(p, c))
  BY PTL DEF Handling
<1>7. Onward /\ Worked(a) => SettlesLater(a)
  BY WorkedSettles
<1>8. QED
  BY <1>1, <1>2, <1>3, <1>5, <1>6, <1>7, PTL DEF Onward, CanHandle, SettlesLater

Waited(a) == Worked(a) \/ \E p \in Procs, c \in Completes : Free(p, c, a)

LEMMA WaitedSettles ==
    ASSUME NoneLost, NEW a \in Assets
    PROVE  Onward /\ Waited(a) => SettlesLater(a)
BY WorkedSettles, FreeSettles DEF Waited

LEMMA ProcessingIsWaited ==
    ASSUME UploadInv, TypeOK, NEW a \in Assets, status[a] = "processing", ~deleted[a]
    PROVE  Waited(a)
<1>1. PICK c \in Completes : target[c] = a /\ pc[c] = "done"
  BY DEF UploadInv, Committed
<1>2. PICK p \in Procs : InHand(p, c)
  BY <1>1 DEF UploadInv, Owed
<1>3. Waiting(c, a)
  BY <1>1 DEF Waiting
<1>4. QED
  BY <1>1, <1>2, <1>3 DEF InHand, Embedding, Waited, Worked, Free, At

\* handle_upload_complete ends what complete_upload began: without lost processes,
\* events, commits and handlers, a file does not stay in PROCESSING, although its
\* handlers compete for a key that nothing gives back, the last stage waits for a row
\* that a delete may hold, and Redis, Qdrant and the lock's lifetime do as they like.
\* The fairness is that of FairSpec, stated from every point of the behaviour on.
THEOREM UploadsAreProcessed ==
    ASSUME NoneLost
    PROVE  OnePerFile /\ Spec /\ []Fairness /\ []GuardsSuffice => UploadIsProcessed
<1>1. ASSUME NEW a \in Assets
      PROVE  Onward => ((status[a] = "processing" /\ ~deleted[a])
                            ~> (status[a] = "ready" \/ deleted[a]))
  <2>1. UploadInv /\ TypeOK /\ status[a] = "processing" /\ ~deleted[a] => Waited(a)
    BY ProcessingIsWaited
  <2>2. Onward /\ Waited(a) => SettlesLater(a)
    BY WaitedSettles
  <2>3. Settled(a) => status[a] = "ready" \/ deleted[a]
    BY DEF Settled
  <2>4. QED
    BY <2>1, <2>2, <2>3, PTL DEF Onward, SettlesLater
<1>2. Onward => UploadIsProcessed
  BY <1>1 DEF UploadIsProcessed
<1>3. QED
  BY <1>2, TypeCorrect, RowsExistCorrect, UploadInvariant, PTL DEF Spec, Onward
=============================================================================
