------------------------- MODULE ReindexRepairProofs -------------------------
(***************************************************************************)
(* Proofs about the dry run and the repair, for any assets, collections    *)
(* and chunk size, any number of workers, retries and runs, any faults and *)
(* any way of stopping a run.                                              *)
(***************************************************************************)
EXTENDS ReindexRepair, SequenceTheorems, FiniteSetTheorems, TLAPS

\* What the dry run has seen is among what there has been since it began.
SeenInv ==
    /\ ready \subseteq Assets /\ toAsk \subseteq Assets
    /\ Assets \ points \subseteq pointless
    /\ \A a \in points : CollectionOf[a] \in made
    /\ objects \subseteq stored
    /\ missing \subseteq pointless
    /\ CandidatesWereMissing

(***************************************************************************)
(* AllRepaired is not inductive: it rests on the dry run's dropping no     *)
(* row that was ready, with its object, throughout.  Such a row is still   *)
(* to be asked for, or to be looked at in the store, or it has an outcome. *)
(***************************************************************************)
NoneDropped ==
    /\ stage \in {"fetch", "collections"} => missing = {}
    /\ stage \in {"objects", "done"} => toAsk = {}
    /\ stage = "done" => missing = {}
    /\ stage # "fetch" =>
          /\ steady \subseteq ready
          /\ steady \subseteq toAsk \cup missing \cup candidates \cup flagged \cup points
    /\ stage = "fetch" => steady = {}
    /\ stage \in {"fetch", "collections", "points", "objects", "done"}
    /\ ready \cap deleted = {}

DryRunInv == SeenInv /\ NoneDropped

\* Were a noted as done now, DoneUnlessCut would have nothing to say of it.
Settled(a) == a \in points \cup cut \cup handling \cup deleted

(***************************************************************************)
(* DoneUnlessCut is not inductive either: a worker that finds the lock     *)
(* held notes its asset as done, so an asset whose lock is held must be    *)
(* settled, or in the hands of a handler of the script.  What the service  *)
(* does keeps a settled asset settled.                                     *)
(***************************************************************************)
DoneInv ==
    /\ job \in [Assets -> {"none", "queued", "ended"} \cup Busy]
    /\ \A a \in Assets : job[a] = "working" => pc = "running"
    /\ lock \subseteq Assets
    /\ \A a \in lock : Settled(a) \/ job[a] = "working"
    /\ DoneUnlessCut

Inv == DryRunInv /\ DoneInv
-----------------------------------------------------------------------------
\* What the repair does to the dry run and to the service: nothing, but for locks,
\* and for the points its handlers put.
LEMMA RepairTouches ==
    ASSUME Repair
    PROVE  /\ UNCHANGED <<ready, deleted, objects, handling, pointless, stored, steady, script>>
           /\ \E W \in SUBSET Assets : /\ points' = points \cup W
                                       /\ made' = made \cup {CollectionOf[a] : a \in W}
           /\ lock' = lock \/ \E a \in Assets : lock' = lock \cup {a}
           /\ \E S \in SUBSET Assets : cut' = cut \cup S
<1> USE DEF reconcileVars, service, rows, index, handlers, seen
<1> DEFINE Touched ==
    /\ UNCHANGED <<ready, deleted, objects, handling, pointless, stored, steady, script>>
    /\ \E W \in SUBSET Assets : points' = points \cup W /\ made' = made \cup {CollectionOf[a] : a \in W}
    /\ lock' = lock \/ \E a \in Assets : lock' = lock \cup {a}
    /\ \E S \in SUBSET Assets : cut' = cut \cup S
<1>0. {} \in SUBSET Assets /\ points = points \cup {} /\ made = made \cup {CollectionOf[a] : a \in {}} /\ cut = cut \cup {}
  OBVIOUS
<1>1. ASSUME UNCHANGED reconcileVars PROVE Touched
  BY <1>0, <1>1
<1>2. ASSUME NEW S \in SUBSET Assets, CutOff(S) PROVE Touched
  <2>1. PICK W \in SUBSET S : points' = points \cup W /\ made' = made \cup {CollectionOf[a] : a \in W}
    BY <1>2 DEF CutOff
  <2>2. W \in SUBSET Assets
    OBVIOUS
  <2>3. \E V \in SUBSET Assets : points' = points \cup V /\ made' = made \cup {CollectionOf[a] : a \in V}
    BY <2>1, <2>2
  <2>4. QED
    BY <1>2, <2>3 DEF CutOff
<1>3. CASE Launch \/ EndDispatch \/ Finish \/ Save
  BY <1>1, <1>3 DEF Launch, EndDispatch, Finish, Save
<1>4. CASE Interrupt \/ Kill
  BY <1>2, <1>4 DEF Interrupt, Kill, Working
<1>5. ASSUME NEW a \in Assets, Worker(a) PROVE Touched
  <2>1. CASE PickUp(a) \/ Retry(a)
    BY <1>1, <2>1 DEF PickUp, Retry
  <2>2. CASE CallHandler(a)
    BY <1>0, <2>2 DEF CallHandler
  <2>3. CASE Return(a)
    <3>1. /\ UNCHANGED <<ready, deleted, objects, handling, pointless, stored, steady, script, lock>>
          /\ cut' = cut \cup {} \/ cut' = cut \cup {a}
      BY <2>3 DEF Return
    <3>2. \/ points' = points \cup {} /\ made' = made \cup {CollectionOf[b] : b \in {}}
          \/ points' = points \cup {a} /\ made' = made \cup {CollectionOf[b] : b \in {a}}
      BY <2>3 DEF Return
    <3>3. {} \in SUBSET Assets /\ {a} \in SUBSET Assets
      OBVIOUS
    <3>4. \E W \in SUBSET Assets : points' = points \cup W /\ made' = made \cup {CollectionOf[b] : b \in W}
      BY <3>2, <3>3
    <3>5. QED
      BY <3>1, <3>3, <3>4
  <2>4. CASE TimeOut(a)
    <3>1. CutOff({a}) /\ {a} \in SUBSET Assets
      BY <2>4 DEF TimeOut
    <3>2. QED
      BY <1>2, <3>1
  <2>5. QED
    BY <1>5, <2>1, <2>2, <2>3, <2>4 DEF Worker
<1>6. Touched
  BY <1>3, <1>4, <1>5 DEF Repair
<1>7. QED
  BY <1>6

LEMMA DryRunInvInit == RepairInit => DryRunInv
BY DEF RepairInit, Init, DryRunInv, SeenInv, NoneDropped, CandidatesWereMissing

LEMMA SeenInvServe ==
    ASSUME SeenInv, Serve
    PROVE  SeenInv'
<1> USE DEF SeenInv, CandidatesWereMissing, script, rows, index, handlers, seen
<1>1. ASSUME NEW a \in Assets, InsertReady(a) PROVE SeenInv'
  BY <1>1 DEF InsertReady
<1>2. ASSUME NEW a \in Assets, TakeLock(a) PROVE SeenInv'
  BY <1>2 DEF TakeLock
<1>3. ASSUME NEW a \in Assets, PutPoint(a) PROVE SeenInv'
  BY <1>3 DEF PutPoint
<1>4. ASSUME NEW a \in Assets, EndHandler(a) PROVE SeenInv'
  BY <1>4 DEF EndHandler
<1>5. ASSUME NEW a \in Assets, Expire(a) PROVE SeenInv'
  BY <1>5 DEF Expire
<1>6. ASSUME NEW a \in Assets, DeleteRow(a) PROVE SeenInv'
  BY <1>6 DEF DeleteRow
<1>7. ASSUME NEW a \in Assets, DropPoint(a) PROVE SeenInv'
  BY <1>7 DEF DropPoint
<1>8. ASSUME NEW a \in Assets, DropObject(a) PROVE SeenInv'
  BY <1>8 DEF DropObject
<1>9. QED
  BY <1>1, <1>2, <1>3, <1>4, <1>5, <1>6, <1>7, <1>8 DEF Serve, Handle

LEMMA SeenInvReconcile ==
    ASSUME SeenInv, Reconcile
    PROVE  SeenInv'
<1> USE DEF SeenInv, CandidatesWereMissing, service, rows, index, handlers, seen
<1>1. ASSUME Fetch PROVE SeenInv'
  BY <1>1 DEF Fetch
<1>2. ASSUME ListCollections PROVE SeenInv'
  BY <1>2 DEF ListCollections
<1>3. ASSUME NEW c \in Collections, Retrieve(c) PROVE SeenInv'
  BY <1>3 DEF Retrieve, Chunks, NotFound, Found
<1>4. ASSUME CheckObjects PROVE SeenInv'
  BY <1>4 DEF CheckObjects
<1>5. ASSUME NEW a \in Assets, HeadObject(a) PROVE SeenInv'
  BY <1>5 DEF HeadObject, ObjectExists
<1>6. ASSUME Summarise PROVE SeenInv'
  BY <1>6 DEF Summarise
<1>7. QED
  BY <1>1, <1>2, <1>3, <1>4, <1>5, <1>6 DEF Reconcile

LEMMA NoneDroppedServe ==
    ASSUME NoneDropped, Serve
    PROVE  NoneDropped'
<1> USE DEF NoneDropped, script, rows, index, handlers, seen
<1>1. ASSUME NEW a \in Assets, InsertReady(a) PROVE NoneDropped'
  BY <1>1 DEF InsertReady
<1>2. ASSUME NEW a \in Assets, TakeLock(a) PROVE NoneDropped'
  BY <1>2 DEF TakeLock
<1>3. ASSUME NEW a \in Assets, PutPoint(a) PROVE NoneDropped'
  BY <1>3 DEF PutPoint
<1>4. ASSUME NEW a \in Assets, EndHandler(a) PROVE NoneDropped'
  BY <1>4 DEF EndHandler
<1>5. ASSUME NEW a \in Assets, Expire(a) PROVE NoneDropped'
  BY <1>5 DEF Expire
<1>6. ASSUME NEW a \in Assets, DeleteRow(a) PROVE NoneDropped'
  BY <1>6 DEF DeleteRow
<1>7. ASSUME NEW a \in Assets, DropPoint(a) PROVE NoneDropped'
  BY <1>7 DEF DropPoint
<1>8. ASSUME NEW a \in Assets, DropObject(a) PROVE NoneDropped'
  BY <1>8 DEF DropObject
<1>9. QED
  BY <1>1, <1>2, <1>3, <1>4, <1>5, <1>6, <1>7, <1>8 DEF Serve, Handle

LEMMA NoneDroppedReconcile ==
    ASSUME NoneDropped, Reconcile
    PROVE  NoneDropped'
<1> USE DEF NoneDropped, service, rows, index, handlers, seen
<1>1. ASSUME Fetch PROVE NoneDropped'
  BY <1>1 DEF Fetch
<1>2. ASSUME ListCollections PROVE NoneDropped'
  BY <1>2 DEF ListCollections
<1>3. ASSUME NEW c \in Collections, Retrieve(c) PROVE NoneDropped'
  BY <1>3 DEF Retrieve, Chunks, NotFound, Found
<1>4. ASSUME CheckObjects PROVE NoneDropped'
  BY <1>4 DEF CheckObjects
<1>5. ASSUME NEW a \in Assets, HeadObject(a) PROVE NoneDropped'
  BY <1>5 DEF HeadObject
<1>6. ASSUME Summarise PROVE NoneDropped'
  BY <1>6 DEF Summarise
<1>7. QED
  BY <1>1, <1>2, <1>3, <1>4, <1>5, <1>6 DEF Reconcile

LEMMA DryRunInvNext ==
    ASSUME DryRunInv, [Next]_vars
    PROVE  DryRunInv'
<1>1. CASE Serve \/ Reconcile
  BY <1>1, SeenInvServe, SeenInvReconcile, NoneDroppedServe, NoneDroppedReconcile DEF DryRunInv
<1>2. CASE Repair
  BY <1>2, RepairTouches DEF DryRunInv, SeenInv, NoneDropped, CandidatesWereMissing, script
<1>3. CASE UNCHANGED vars
  BY <1>3 DEF DryRunInv, SeenInv, NoneDropped, CandidatesWereMissing, vars, reconcileVars,
              service, script, rows, index, handlers, seen
<1>4. QED
  BY <1>1, <1>2, <1>3 DEF Next

-----------------------------------------------------------------------------
LEMMA DoneInvInit == RepairInit => DoneInv
BY DEF RepairInit, Init, DoneInv, DoneUnlessCut, Settled

\* No step of the service or of the dry run unsettles an asset, and a lock is set
\* only by a handler that is at work from then on.
LEMMA ServiceSettles ==
    ASSUME Serve \/ Reconcile
    PROVE  /\ \A a : Settled(a) => Settled(a)'
           /\ lock' \subseteq lock \cup Assets
           /\ \A a \in lock' : a \in lock \/ Settled(a)'
<1> USE DEF Settled, rows, index, handlers, seen, script, service
<1>1. CASE Reconcile
  BY <1>1 DEF Reconcile, Fetch, ListCollections, Retrieve, CheckObjects, HeadObject, Summarise
<1>2. ASSUME NEW b \in Assets, TakeLock(b) \/ EndHandler(b) \/ Expire(b)
      PROVE  /\ \A a : Settled(a) => Settled(a)'
             /\ lock' \subseteq lock \cup Assets
             /\ \A a \in lock' : a \in lock \/ Settled(a)'
  BY <1>2 DEF TakeLock, EndHandler, Expire
<1>3. ASSUME NEW b \in Assets, InsertReady(b) \/ PutPoint(b) \/ DeleteRow(b) \/ DropPoint(b) \/ DropObject(b)
      PROVE  /\ \A a : Settled(a) => Settled(a)'
             /\ UNCHANGED lock
  BY <1>3 DEF InsertReady, PutPoint, DeleteRow, DropPoint, DropObject
<1>4. QED
  BY <1>1, <1>2, <1>3 DEF Serve, Handle

LEMMA DoneInvService ==
    ASSUME DoneInv, Serve \/ Reconcile, UNCHANGED repairVars
    PROVE  DoneInv'
<1>1. /\ \A a : Settled(a) => Settled(a)'
      /\ lock' \subseteq lock \cup Assets
      /\ \A a \in lock' : a \in lock \/ Settled(a)'
  BY ServiceSettles
<1>2. UNCHANGED <<job, pc, done, file>>
  BY DEF repairVars
<1>3. \A a \in done \cup file.done : Settled(a)
  BY DEF DoneInv, DoneUnlessCut, Settled
<1>4. (done \cup file.done \subseteq points \cup cut \cup handling \cup deleted)'
  BY <1>1, <1>2, <1>3 DEF Settled
<1>5. (\A a \in lock : Settled(a) \/ job[a] = "working")'
  BY <1>1, <1>2 DEF DoneInv
<1>6. QED
  BY <1>1, <1>2, <1>4, <1>5 DEF DoneInv, DoneUnlessCut

\* A step of a's worker takes a's job to st, and no other's anywhere.
Moved(a, st) ==
    /\ job' \in [Assets -> {"none", "queued", "ended"} \cup Busy]
    /\ job'[a] = st
    /\ \A b \in Assets \ {a} : job'[b] = job[b]

LEMMA MovedEffect ==
    ASSUME NEW a \in Assets, NEW st \in {"none", "queued", "ended"} \cup Busy,
           job \in [Assets -> {"none", "queued", "ended"} \cup Busy],
           job' = [job EXCEPT ![a] = st]
    PROVE  Moved(a, st)
BY DEF Moved

\* A worker that records an outcome notes its asset as done, or not, and no other.
LEMMA RecordEffect ==
    ASSUME NEW a \in Assets, NEW f, Record(a, f),
           job \in [Assets -> {"none", "queued", "ended"} \cup Busy]
    PROVE  Moved(a, "ended") /\ done \subseteq done' /\ done' \subseteq done \cup {a}
BY MovedEffect DEF Record

\* What every step of a worker is like: it may note its asset as done if that is
\* settled, and set its lock if that is settled or its handler works from then on.
Worked(a, st) ==
    /\ Moved(a, st)
    /\ pc = "running"
    /\ UNCHANGED <<handling, deleted, pc, file>>
    /\ points \subseteq points' /\ cut \subseteq cut'
    /\ lock' \subseteq lock \cup {a} /\ done' \subseteq done \cup {a}
    /\ a \in done' => a \in done \/ Settled(a)'
    /\ a \in lock' => Settled(a)' \/ st = "working"

LEMMA DoneInvWorked ==
    ASSUME DoneInv, NEW a \in Assets, NEW st, Worked(a, st)
    PROVE  DoneInv'
<1> USE DEF DoneInv, Worked, Moved
<1>1. \A b \in Assets \cup lock \cup done \cup file.done : Settled(b) => Settled(b)'
  BY DEF Settled
<1>2. (\A b \in lock : Settled(b) \/ job[b] = "working")'
  BY <1>1
<1>3. DoneUnlessCut'
  BY <1>1 DEF DoneUnlessCut, Settled
<1>4. QED
  BY <1>2, <1>3

LEMMA DoneInvWorker ==
    ASSUME DoneInv, NEW a \in Assets, Worker(a)
    PROVE  DoneInv'
<1> USE DEF reconcileVars, service, script, rows, index, handlers, seen, Settled
<1>0. /\ job \in [Assets -> {"none", "queued", "ended"} \cup Busy]
      /\ a \in lock => Settled(a) \/ job[a] = "working"
  BY DEF DoneInv
<1>1. CASE PickUp(a)
  <2>1. PICK st \in {"trying", "ended"} : Moved(a, st)
    BY <1>0, <1>1, MovedEffect DEF PickUp, Busy
  <2>2. Worked(a, st)
    BY <1>0, <1>1, <2>1 DEF PickUp, Worked
  <2>3. QED
    BY <2>2, DoneInvWorked
<1>2. CASE CallHandler(a)
  <2>1. CASE a \in lock /\ Record(a, FALSE) /\ UNCHANGED lock
    <3>1. Moved(a, "ended") /\ done' \subseteq done \cup {a}
      BY <1>0, <2>1, RecordEffect
    <3>2. Worked(a, "ended")
      BY <1>0, <1>2, <2>1, <3>1 DEF CallHandler, Worked
    <3>3. QED
      BY <3>2, DoneInvWorked
  <2>2. CASE /\ job' = [job EXCEPT ![a] = "working"]
             /\ lock' \subseteq lock \cup {a}
             /\ UNCHANGED <<done, recent, tripped>>
    <3>1. Moved(a, "working")
      BY <1>0, <2>2, MovedEffect DEF Busy
    <3>2. Worked(a, "working")
      BY <1>2, <2>2, <3>1 DEF CallHandler, Worked
    <3>3. QED
      BY <3>2, DoneInvWorked
  <2>3. QED
    BY <1>2, <2>1, <2>2 DEF CallHandler
<1>3. CASE Return(a)
  <2>1. Moved(a, "ended") /\ done' \subseteq done \cup {a}
    BY <1>0, <1>3, RecordEffect DEF Return
  <2>2. points \subseteq points' /\ cut \subseteq cut' /\ Settled(a)'
    BY <1>3 DEF Return
  <2>3. Worked(a, "ended")
    BY <1>3, <2>1, <2>2 DEF Return, Worked
  <2>4. QED
    BY <2>3, DoneInvWorked
<1>4. CASE TimeOut(a)
  <2>1. PICK st \in {"waiting", "ended"} : Moved(a, st) /\ done' = done
    <3>1. CASE Record(a, TRUE)
      BY <1>0, <3>1, RecordEffect DEF Record
    <3>2. CASE job' = [job EXCEPT ![a] = "waiting"] /\ UNCHANGED <<done, recent, tripped>>
      BY <1>0, <3>2, MovedEffect DEF Busy
    <3>3. QED
      BY <1>4, <3>1, <3>2 DEF TimeOut
  <2>2. Worked(a, st)
    BY <1>4, <2>1 DEF TimeOut, CutOff, Worked
  <2>3. QED
    BY <2>2, DoneInvWorked
<1>5. CASE Retry(a)
  <2>1. Moved(a, "trying")
    BY <1>0, <1>5, MovedEffect DEF Retry, Busy
  <2>2. Worked(a, "trying")
    BY <1>0, <1>5, <2>1 DEF Retry, Worked
  <2>3. QED
    BY <2>2, DoneInvWorked
<1>6. QED
  BY <1>1, <1>2, <1>3, <1>4, <1>5 DEF Worker

LEMMA DoneInvCutOff ==
    ASSUME DoneInv, CutOff(Working), UNCHANGED done \/ done' = {}, file' = file \/ file'.done = {},
           job' \in [Assets -> {"none", "queued", "ended"} \cup Busy],
           \A a \in Assets : job'[a] # "working"
    PROVE  DoneInv'
<1>1. \A a : Settled(a) => Settled(a)'
  BY DEF CutOff, Settled, rows
<1>2. \A a \in Assets : job[a] = "working" => Settled(a)'
  BY DEF CutOff, Working, Settled
<1>3. UNCHANGED lock
  BY DEF CutOff
<1>4. (\A a \in lock : Settled(a) \/ job[a] = "working")'
  BY <1>1, <1>2, <1>3 DEF DoneInv
<1>5. DoneUnlessCut'
  BY <1>1 DEF DoneInv, DoneUnlessCut, Settled
<1>6. QED
  BY <1>3, <1>4, <1>5 DEF DoneInv

LEMMA DoneInvRepair ==
    ASSUME DoneInv, Repair
    PROVE  DoneInv'
<1> USE DEF DoneInv, DoneUnlessCut, Settled, reconcileVars, service, rows, index, handlers, seen, script, Busy
<1>1. ASSUME Launch PROVE DoneInv'
  <2>1. /\ done' = file.done
        /\ job' \in [Assets -> {"none", "queued", "ended"} \cup Busy]
        /\ \A a \in Assets : job[a] # "working" /\ job'[a] # "working"
        /\ UNCHANGED <<deleted, points, handling, lock, cut>>
    BY <1>1 DEF Launch, Load
  <2>2. file' = file \/ file'.done = {}
    BY <1>1 DEF Launch, OpenFile
  <2>3. QED
    BY <2>1, <2>2
<1>2. ASSUME EndDispatch PROVE DoneInv'
  BY <1>2 DEF EndDispatch, WriteFile
<1>3. ASSUME Finish PROVE DoneInv'
  BY <1>3 DEF Finish, OpenFile
<1>4. ASSUME Save PROVE DoneInv'
  BY <1>4 DEF Save, WriteFile
<1>5. ASSUME Interrupt \/ Kill PROVE DoneInv'
  <2>1. /\ CutOff(Working)
        /\ UNCHANGED done \/ done' = {}
        /\ file' = file \/ file'.done = {}
    BY <1>5 DEF Interrupt, Kill, OpenFile
  <2>2. /\ job' \in [Assets -> {"none", "queued", "ended"} \cup Busy]
        /\ \A a \in Assets : job'[a] # "working"
    BY <1>5 DEF Interrupt, Kill
  <2>3. QED
    BY <2>1, <2>2, DoneInvCutOff
<1>6. ASSUME NEW a \in Assets, Worker(a) PROVE DoneInv'
  BY <1>6, DoneInvWorker
<1>7. QED
  BY <1>1, <1>2, <1>3, <1>4, <1>5, <1>6 DEF Repair

LEMMA DoneInvNext ==
    ASSUME DoneInv, [Next]_vars
    PROVE  DoneInv'
<1>1. CASE (Serve \/ Reconcile) /\ UNCHANGED repairVars
  BY <1>1, DoneInvService
<1>2. CASE Repair
  BY <1>2, DoneInvRepair
<1>3. CASE UNCHANGED vars
  BY <1>3 DEF vars, reconcileVars, repairVars, service, script, rows, index, handlers, seen,
              DoneInv, DoneUnlessCut, Settled
<1>4. QED
  BY <1>1, <1>2, <1>3 DEF Next

LEMMA ProgressNext ==
    ASSUME ProgressIsKept, [Next]_vars
    PROVE  ProgressIsKept'
<1> USE DEF ProgressIsKept
<1>1. CASE UNCHANGED repairVars
  BY <1>1 DEF repairVars
<1>2. CASE Launch
  BY <1>2 DEF Launch, Load, OpenFile
<1>3. CASE EndDispatch \/ Save
  BY <1>3 DEF EndDispatch, Save, WriteFile
<1>4. CASE Finish \/ Interrupt \/ Kill
  BY <1>4 DEF Finish, Interrupt, Kill, OpenFile
<1>5. ASSUME NEW a \in Assets, Worker(a) PROVE ProgressIsKept'
  <2>1. UNCHANGED <<pc, file, noted>> /\ done \subseteq done'
    BY <1>5 DEF Worker, PickUp, CallHandler, Return, TimeOut, Retry, Record
  <2>2. QED
    BY <2>1
<1>6. QED
  BY <1>1, <1>2, <1>3, <1>4, <1>5 DEF Next, Repair, vars

LEMMA InvAlways == Spec => []Inv
<1>1. RepairInit => Inv
  BY DryRunInvInit, DoneInvInit DEF Inv
<1>2. Inv /\ [Next]_vars => Inv'
  BY DryRunInvNext, DoneInvNext DEF Inv
<1>3. QED
  BY <1>1, <1>2, PTL DEF Spec

-----------------------------------------------------------------------------
\* qdrant_reindex_reconcile.py names only assets that lacked their point, and had
\* their object, at some moment of its run, however rows, points and objects come
\* and go between its queries.
THEOREM OnlyMissingAreCandidates == Spec => []CandidatesWereMissing
<1>1. Inv => CandidatesWereMissing
  BY DEF Inv, DryRunInv, SeenInv
<1>2. QED
  BY <1>1, InvAlways, PTL

\* qdrant_reindex_repair.py notes no asset as done that has no point, although a call
\* returns at once for a lock that a worker's handler holds, or held and failed: but
\* where a handler was cut off or failed silently, one is at work, or the row is gone.
THEOREM DoneHasItsPoint == Spec => []DoneUnlessCut
<1>1. Inv => DoneUnlessCut
  BY DEF Inv, DoneInv
<1>2. QED
  BY <1>1, InvAlways, PTL

\* The dry run and the repair together, with the service's handlers at work: with all
\* candidates in the checkpoint, every asset that could be repaired throughout has its
\* point, or some handler has failed it or is at work on it, or it was flagged.
THEOREM RepairIsComplete == Spec => []AllRepaired
<1>1. Inv => AllRepaired
  BY DEF Inv, DryRunInv, NoneDropped, DoneInv, DoneUnlessCut, AllRepaired
<1>2. QED
  BY <1>1, InvAlways, PTL

\* load_checkpoint and save_checkpoint: no run forgets what a file once said.
THEOREM CheckpointIsMonotone == Spec => []ProgressIsKept
<1>1. RepairInit => ProgressIsKept
  BY DEF RepairInit, ProgressIsKept
<1>2. ProgressIsKept /\ [Next]_vars => ProgressIsKept'
  BY ProgressNext
<1>3. QED
  BY <1>1, <1>2, PTL DEF Spec

-----------------------------------------------------------------------------
(***************************************************************************)
(* How many work at a time, and how often.  That a worker which waits has  *)
(* a try left comes on top of the types.                                   *)
(***************************************************************************)
AtWork == {a \in Assets : job[a] \in Busy}

WorkInv ==
    /\ RepairTypeOK
    /\ \A a \in Assets : job[a] = "waiting" => attempt[a] < MaxRetries

LEMMA ReconcileTypes ==
    ASSUME ReconcileTypeOK, Serve \/ Reconcile
    PROVE  ReconcileTypeOK'
<1> USE DEF ReconcileTypeOK, service, script, rows, index, handlers, seen, Collections
<1>1. ASSUME NEW a \in Assets, InsertReady(a) \/ Handle(a) \/ DeleteRow(a) \/ DropPoint(a) \/ DropObject(a)
      PROVE  ReconcileTypeOK'
  <2>1. CASE InsertReady(a)
    BY <2>1 DEF InsertReady
  <2>2. CASE TakeLock(a)
    BY <2>2 DEF TakeLock
  <2>3. CASE PutPoint(a)
    BY <2>3 DEF PutPoint
  <2>4. CASE EndHandler(a)
    BY <2>4 DEF EndHandler
  <2>5. CASE Expire(a)
    BY <2>5 DEF Expire
  <2>6. CASE DeleteRow(a)
    BY <2>6 DEF DeleteRow
  <2>7. CASE DropPoint(a)
    BY <2>7 DEF DropPoint
  <2>8. CASE DropObject(a)
    BY <2>8 DEF DropObject
  <2>9. QED
    BY <1>1, <2>1, <2>2, <2>3, <2>4, <2>5, <2>6, <2>7, <2>8 DEF Handle
<1>2. CASE Fetch
  BY <1>2 DEF Fetch
<1>3. CASE ListCollections
  BY <1>3 DEF ListCollections
<1>4. CASE CheckObjects \/ Summarise
  BY <1>4 DEF CheckObjects, Summarise
<1>5. ASSUME NEW c \in Collections, Retrieve(c) PROVE ReconcileTypeOK'
  BY <1>5 DEF Retrieve, Chunks, NotFound, Found
<1>6. ASSUME NEW a \in Assets, HeadObject(a) PROVE ReconcileTypeOK'
  BY <1>6 DEF HeadObject
<1>7. QED
  BY <1>1, <1>2, <1>3, <1>4, <1>5, <1>6 DEF Serve, Reconcile

LEMMA ReconcileTypesRepair ==
    ASSUME ReconcileTypeOK, Repair
    PROVE  ReconcileTypeOK'
<1>1. PICK W \in SUBSET Assets : points' = points \cup W /\ made' = made \cup {CollectionOf[a] : a \in W}
  BY RepairTouches
<1>2. \A a \in points' : CollectionOf[a] \in made'
  BY <1>1 DEF ReconcileTypeOK
<1>3. made' \subseteq Collections /\ points' \subseteq Assets
  BY <1>1 DEF ReconcileTypeOK, Collections
<1>4. lock' \subseteq Assets /\ cut' \subseteq Assets
  BY RepairTouches DEF ReconcileTypeOK
<1>5. QED
  BY <1>2, <1>3, <1>4, RepairTouches DEF ReconcileTypeOK, Collections, script

LEMMA NoMoreAtWork ==
    ASSUME WorkInv, AtWork' \subseteq AtWork
    PROVE  Cardinality(AtWork') <= Concurrency
<1>1. IsFiniteSet(AtWork) /\ Cardinality(AtWork) <= Concurrency
  BY ReconcileAssumption, FS_Subset DEF WorkInv, RepairTypeOK, AtWork
<1>2. Cardinality(AtWork') <= Cardinality(AtWork) /\ IsFiniteSet(AtWork')
  BY <1>1, FS_Subset
<1>3. Cardinality(AtWork) \in Nat /\ Cardinality(AtWork') \in Nat /\ Concurrency \in Nat
  BY <1>1, <1>2, FS_CardinalityType, RepairAssumption
<1>4. QED
  BY <1>1, <1>2, <1>3

LEMMA RememberFacts ==
    ASSUME WorkInv, NEW failed \in BOOLEAN
    PROVE  Remember(failed) \in Seq(BOOLEAN) /\ Len(Remember(failed)) <= Window
<1> DEFINE s == Append(recent, failed)
<1>1. /\ recent \in Seq(BOOLEAN) /\ Len(recent) \in Nat /\ Len(recent) <= Window
      /\ Window \in Nat
  BY RepairAssumption DEF WorkInv, RepairTypeOK
<1>2. s \in Seq(BOOLEAN) /\ Len(s) = Len(recent) + 1
  BY <1>1, AppendProperties
<1>3. s # << >>
  BY <1>1, <1>2
<1>4. Tail(s) \in Seq(BOOLEAN) /\ Len(Tail(s)) = Len(recent)
  BY <1>1, <1>2, <1>3, HeadTailProperties
<1>5. Remember(failed) = IF Len(s) > Window THEN Tail(s) ELSE s
  BY DEF Remember
<1> HIDE DEF s
<1>6. CASE Len(s) > Window
  BY <1>1, <1>4, <1>5, <1>6
<1>7. CASE ~(Len(s) > Window)
  BY <1>1, <1>2, <1>5, <1>7
<1>8. QED
  BY <1>6, <1>7

\* A worker's step but for PickUp: it takes nobody's place.
LEMMA WorkGoesOn ==
    ASSUME WorkInv, ReconcileTypeOK', NEW a \in Assets, job[a] \in Busy,
           NEW st \in {"ended"} \cup Busy, job' = [job EXCEPT ![a] = st],
           attempt' \in [Assets -> 0 .. MaxRetries], \A b \in Assets \ {a} : attempt'[b] = attempt[b],
           st = "waiting" => attempt'[a] < MaxRetries,
           done' \subseteq Assets,
           recent' \in Seq(BOOLEAN), Len(recent') <= Window, tripped' \in BOOLEAN,
           UNCHANGED <<file, pc, runs, noted>>
    PROVE  WorkInv'
<1>1. /\ job' \in [Assets -> {"none", "queued", "ended"} \cup Busy] /\ job'[a] = st
      /\ \A b \in Assets \ {a} : job'[b] = job[b]
  BY DEF WorkInv, RepairTypeOK
<1>2. AtWork' \subseteq AtWork
  BY <1>1 DEF AtWork, Busy
<1>3. Cardinality(AtWork') <= Concurrency
  BY <1>2, NoMoreAtWork
<1>4. \A b \in Assets : job'[b] = "waiting" => attempt'[b] < MaxRetries
  BY <1>1 DEF WorkInv
<1>5. QED
  BY <1>1, <1>3, <1>4 DEF WorkInv, RepairTypeOK, AtWork, Busy

LEMMA WorkOfWorker ==
    ASSUME WorkInv, ReconcileTypeOK', NEW a \in Assets, Worker(a)
    PROVE  WorkInv'
<1>0. /\ job \in [Assets -> {"none", "queued", "ended"} \cup Busy]
      /\ attempt \in [Assets -> 0 .. MaxRetries]
      /\ done \subseteq Assets
      /\ recent \in Seq(BOOLEAN) /\ Len(recent) <= Window /\ tripped \in BOOLEAN
      /\ job[a] = "waiting" => attempt[a] < MaxRetries
      /\ MaxRetries \in Nat \ {0} /\ attempt[a] \in 0 .. MaxRetries
  BY RepairAssumption DEF WorkInv, RepairTypeOK
<1>1. ASSUME NEW failed \in BOOLEAN, Record(a, failed)
      PROVE  /\ job' = [job EXCEPT ![a] = "ended"] /\ done' \subseteq Assets
             /\ recent' \in Seq(BOOLEAN) /\ Len(recent') <= Window /\ tripped' \in BOOLEAN
  BY <1>0, <1>1, RememberFacts DEF Record
<1>2. CASE PickUp(a)
  <2>1. CASE Admitted
    <3>1. /\ job' = [job EXCEPT ![a] = "trying"] /\ attempt' = [attempt EXCEPT ![a] = 1]
          /\ Cardinality(AtWork) < Concurrency
          /\ UNCHANGED <<file, pc, runs, done, recent, tripped, noted>>
      BY <1>2, <2>1 DEF PickUp, AtWork
    <3>2. /\ job' \in [Assets -> {"none", "queued", "ended"} \cup Busy] /\ job'[a] = "trying"
          /\ \A b \in Assets \ {a} : job'[b] = job[b]
      BY <1>0, <3>1 DEF Busy
    <3>3. AtWork' = AtWork \cup {a}
      BY <3>2 DEF AtWork, Busy
    <3>4. IsFiniteSet(AtWork) /\ Concurrency \in Nat /\ Cardinality(AtWork) \in Nat
      BY ReconcileAssumption, RepairAssumption, FS_Subset, FS_CardinalityType DEF AtWork
    <3>5. Cardinality(AtWork') \in {Cardinality(AtWork), Cardinality(AtWork) + 1}
      BY <3>3, <3>4, FS_AddElement
    <3>6. Cardinality(AtWork') <= Concurrency
      BY <3>1, <3>4, <3>5
    <3>7. attempt' \in [Assets -> 0 .. MaxRetries] /\ \A b \in Assets \ {a} : attempt'[b] = attempt[b]
      BY <1>0, <3>1
    <3>8. \A b \in Assets : job'[b] = "waiting" => attempt'[b] < MaxRetries
      BY <3>2, <3>7 DEF WorkInv
    <3>9. QED
      BY <3>1, <3>2, <3>6, <3>7, <3>8 DEF WorkInv, RepairTypeOK, AtWork, Busy
  <2>2. CASE ~Admitted
    <3>1. /\ job' = [job EXCEPT ![a] = "ended"]
          /\ UNCHANGED <<attempt, file, pc, runs, done, recent, tripped, noted>>
      BY <1>2, <2>2 DEF PickUp
    <3>2. /\ job' \in [Assets -> {"none", "queued", "ended"} \cup Busy] /\ job'[a] = "ended"
          /\ \A b \in Assets \ {a} : job'[b] = job[b]
      BY <1>0, <3>1
    <3>3. AtWork' \subseteq AtWork
      BY <3>2 DEF AtWork, Busy
    <3>4. Cardinality(AtWork') <= Concurrency
      BY <3>3, NoMoreAtWork
    <3>5. \A b \in Assets : job'[b] = "waiting" => attempt'[b] < MaxRetries
      BY <3>1, <3>2 DEF WorkInv
    <3>6. QED
      BY <3>1, <3>2, <3>4, <3>5 DEF WorkInv, RepairTypeOK, AtWork, Busy
  <2>3. QED
    BY <2>1, <2>2
<1>3. CASE CallHandler(a)
  <2>1. job[a] \in Busy /\ UNCHANGED <<file, pc, runs, attempt, noted>>
    BY <1>0, <1>3 DEF CallHandler, Busy
  <2>2. CASE Record(a, FALSE)
    BY <1>0, <1>1, <2>1, <2>2, WorkGoesOn
  <2>3. CASE job' = [job EXCEPT ![a] = "working"] /\ UNCHANGED <<done, recent, tripped>>
    <3>1. "working" \in {"ended"} \cup Busy
      BY DEF Busy
    <3>2. QED
      BY <1>0, <2>1, <2>3, <3>1, WorkGoesOn
  <2>4. QED
    BY <1>3, <2>2, <2>3 DEF CallHandler
<1>4. CASE Return(a)
  <2>1. job[a] \in Busy /\ UNCHANGED <<file, pc, runs, attempt, noted>>
    BY <1>0, <1>4 DEF Return, Busy
  <2>2. Record(a, FALSE)
    BY <1>4 DEF Return
  <2>3. QED
    BY <1>0, <1>1, <2>1, <2>2, WorkGoesOn
<1>5. CASE TimeOut(a)
  <2>1. job[a] \in Busy /\ UNCHANGED <<file, pc, runs, attempt, noted>>
    BY <1>0, <1>5 DEF TimeOut, Busy
  <2>2. CASE attempt[a] < MaxRetries
    <3>1. job' = [job EXCEPT ![a] = "waiting"] /\ UNCHANGED <<done, recent, tripped>>
      BY <1>5, <2>2 DEF TimeOut
    <3>2. "waiting" \in {"ended"} \cup Busy
      BY DEF Busy
    <3>3. QED
      BY <1>0, <2>1, <2>2, <3>1, <3>2, WorkGoesOn
  <2>3. CASE Record(a, TRUE)
    BY <1>0, <1>1, <2>1, <2>3, WorkGoesOn
  <2>4. QED
    BY <1>5, <2>2, <2>3 DEF TimeOut
<1>6. CASE Retry(a)
  <2>1. /\ job[a] = "waiting" /\ job' = [job EXCEPT ![a] = "trying"]
        /\ attempt' = [attempt EXCEPT ![a] = @ + 1]
        /\ UNCHANGED <<file, pc, runs, done, recent, tripped, noted>>
    BY <1>6 DEF Retry
  <2>2. attempt[a] + 1 \in 0 .. MaxRetries
    BY <1>0, <2>1
  <2>3. attempt' \in [Assets -> 0 .. MaxRetries] /\ \A b \in Assets \ {a} : attempt'[b] = attempt[b]
    BY <1>0, <2>1, <2>2
  <2>4. job[a] \in Busy /\ "trying" \in {"ended"} \cup Busy
    BY <2>1 DEF Busy
  <2>5. QED
    BY <1>0, <2>1, <2>3, <2>4, WorkGoesOn
<1>7. QED
  BY <1>2, <1>3, <1>4, <1>5, <1>6 DEF Worker

\* A file that has been opened and not written yet.
LEMMA Torn == [done |-> {}, torn |-> TRUE] \in [done : SUBSET Assets, torn : BOOLEAN]
OBVIOUS

LEMMA WorkNext ==
    ASSUME WorkInv, [Next]_vars
    PROVE  WorkInv'
<1>0. /\ ReconcileTypeOK
      /\ Window \in Nat \ {0} /\ MaxRetries \in Nat \ {0} /\ Concurrency \in Nat \ {0} /\ MaxRuns \in Nat
  BY RepairAssumption DEF WorkInv, RepairTypeOK
<1>1. /\ file \in [done : SUBSET Assets, torn : BOOLEAN]
      /\ done \subseteq Assets /\ noted \subseteq Assets
      /\ runs \in 0 .. MaxRuns
  BY DEF WorkInv, RepairTypeOK
<1>2. CASE UNCHANGED vars
  BY <1>2 DEF vars, repairVars, reconcileVars, service, script, rows, index, handlers,
              seen, WorkInv, RepairTypeOK, ReconcileTypeOK
<1>3. CASE (Serve \/ Reconcile) /\ UNCHANGED repairVars
  <2>1. ReconcileTypeOK'
    BY <1>0, <1>3, ReconcileTypes
  <2>2. QED
    BY <1>3, <2>1 DEF WorkInv, RepairTypeOK, repairVars
<1>4. CASE Repair
  <2>0. ReconcileTypeOK'
    BY <1>0, <1>4, ReconcileTypesRepair
  <2>1. CASE Launch
    <3>1. /\ job' \in [Assets -> {"none", "queued", "ended"} \cup Busy]
          /\ \A a \in Assets : job'[a] \in {"none", "queued"}
          /\ attempt' \in [Assets -> 0 .. MaxRetries]
      BY <1>0, <2>1 DEF Launch
    <3>2. AtWork' \subseteq AtWork
      BY <3>1 DEF AtWork, Busy
    <3>3. Cardinality(AtWork') <= Concurrency
      BY <3>2, NoMoreAtWork
    <3>4. recent' \in Seq(BOOLEAN) /\ Len(recent') <= Window /\ tripped' \in BOOLEAN
      <4>1. recent' = << >> /\ tripped' = FALSE
        BY <2>1 DEF Launch
      <4>2. << >> \in Seq(BOOLEAN) /\ Len(<< >>) = 0
        OBVIOUS
      <4>3. tripped' \in BOOLEAN
        BY <4>1
      <4>4. recent' \in Seq(BOOLEAN) /\ Len(recent') = 0
        BY <4>1, <4>2
      <4>5. QED
        BY <1>0, <4>3, <4>4
    <3>5. /\ done' \subseteq Assets /\ file' \in [done : SUBSET Assets, torn : BOOLEAN]
          /\ pc' \in {"dispatching", "running"} /\ runs' \in 0 .. MaxRuns
          /\ UNCHANGED noted
      <4>1. done' = file.done /\ UNCHANGED noted /\ pc' \in {"dispatching", "running"}
        BY <2>1 DEF Launch, Load, OpenFile
      <4>2. file' = file \/ file' = [done |-> {}, torn |-> TRUE]
        BY <2>1 DEF Launch, OpenFile
      <4>3. runs < MaxRuns /\ runs' = runs + 1
        BY <2>1 DEF Launch
      <4>4. runs' \in 0 .. MaxRuns
        BY <1>0, <1>1, <4>3
      <4>5. file' \in [done : SUBSET Assets, torn : BOOLEAN] /\ file.done \subseteq Assets
        BY <1>1, <4>2, Torn
      <4>6. QED
        BY <4>1, <4>4, <4>5
    <3>6. QED
      BY <2>0, <3>1, <3>3, <3>4, <3>5 DEF WorkInv, RepairTypeOK, AtWork
  <2>2. CASE EndDispatch \/ Finish \/ Save
    <3>1. /\ UNCHANGED <<runs, done, job, attempt, recent, tripped>>
          /\ pc' \in {"off", "running", "saving"}
          /\ file' \in [done : SUBSET Assets, torn : BOOLEAN] /\ noted' \subseteq Assets
      <4>1. /\ UNCHANGED <<runs, done, job, attempt, recent, tripped>>
            /\ pc' \in {"off", "running", "saving"}
        BY <2>2 DEF EndDispatch, Finish, Save
      <4>2. \/ file' = [done |-> {}, torn |-> TRUE] /\ noted' = noted
            \/ file' = [done |-> done, torn |-> FALSE] /\ noted' = noted \cup done
        BY <2>2 DEF EndDispatch, Finish, Save, OpenFile, WriteFile
      <4>3. [done |-> done, torn |-> FALSE] \in [done : SUBSET Assets, torn : BOOLEAN]
        BY <1>1
      <4>4. file' \in [done : SUBSET Assets, torn : BOOLEAN]
        BY <4>2, <4>3, Torn
      <4>5. noted' \subseteq Assets
        BY <1>1, <4>2
      <4>6. QED
        BY <4>1, <4>4, <4>5
    <3>2. QED
      BY <2>0, <3>1 DEF WorkInv, RepairTypeOK
  <2>3. CASE Interrupt \/ Kill
    <3>1. /\ job' \in [Assets -> {"none", "queued", "ended"} \cup Busy]
          /\ \A a \in Assets : job'[a] \in {"none", "ended"}
      BY <2>3 DEF Interrupt, Kill
    <3>2. AtWork' \subseteq AtWork
      BY <3>1 DEF AtWork, Busy
    <3>3. Cardinality(AtWork') <= Concurrency
      BY <3>2, NoMoreAtWork
    <3>4. /\ UNCHANGED <<runs, attempt, recent, tripped, noted>> /\ pc' \in {"off", "saving"}
          /\ file' \in [done : SUBSET Assets, torn : BOOLEAN] /\ done' \subseteq Assets
      <4>1. UNCHANGED <<runs, attempt, recent, tripped, noted>> /\ pc' \in {"off", "saving"}
        BY <2>3 DEF Interrupt, Kill, OpenFile
      <4>2. file' = file \/ file' = [done |-> {}, torn |-> TRUE]
        BY <2>3 DEF Interrupt, Kill, OpenFile
      <4>3. done' \subseteq Assets
        BY <1>1, <2>3 DEF Interrupt, Kill, Working
      <4>4. file' \in [done : SUBSET Assets, torn : BOOLEAN]
        BY <1>1, <4>2, Torn
      <4>5. QED
        BY <4>1, <4>3, <4>4
    <3>5. QED
      BY <2>0, <3>1, <3>3, <3>4 DEF WorkInv, RepairTypeOK, AtWork
  <2>4. ASSUME NEW a \in Assets, Worker(a) PROVE WorkInv'
    BY <2>0, <2>4, WorkOfWorker
  <2>5. QED
    BY <1>4, <2>1, <2>2, <2>3, <2>4 DEF Repair
<1>5. QED
  BY <1>2, <1>3, <1>4 DEF Next

LEMMA WorkInit == RepairInit => WorkInv
<1> SUFFICES ASSUME RepairInit PROVE WorkInv
  OBVIOUS
<1>1. ReconcileTypeOK
  BY ReconcileAssumption DEF RepairInit, Init, ReconcileTypeOK, Collections
<1>2. {a \in Assets : job[a] \in Busy} = {}
  BY DEF RepairInit, Busy
<1>3. Cardinality({a \in Assets : job[a] \in Busy}) <= Concurrency
  BY <1>2, FS_EmptySet, RepairAssumption
<1>4. Window \in Nat /\ MaxRetries \in Nat /\ MaxRuns \in Nat
  BY RepairAssumption
<1>5. << >> \in Seq(BOOLEAN) /\ Len(<< >>) = 0
  OBVIOUS
<1>6. recent \in Seq(BOOLEAN) /\ Len(recent) <= Window
  BY <1>4, <1>5 DEF RepairInit
<1>7. /\ attempt \in [Assets -> 0 .. MaxRetries] /\ runs \in 0 .. MaxRuns
      /\ job \in [Assets -> {"none", "queued", "ended"} \cup Busy]
      /\ \A a \in Assets : job[a] # "waiting"
  BY <1>4 DEF RepairInit
<1>8. QED
  BY <1>1, <1>3, <1>6, <1>7 DEF RepairInit, WorkInv, RepairTypeOK

\* qdrant_reindex_repair.py keeps its limits: at most --concurrency assets are worked
\* on, none is tried more than MAX_RETRIES times, and the window holds no more than
\* its outcomes.
THEOREM LimitsAreKept == Spec => []RepairTypeOK
<1>1. WorkInv => RepairTypeOK
  BY DEF WorkInv
<1>2. QED
  BY <1>1, WorkInit, WorkNext, PTL DEF Spec


-----------------------------------------------------------------------------
(***************************************************************************)
(* Why a run ends: each asset has at most three steps a try before it, and *)
(* one to be picked up; what its worker does takes one of them away, and   *)
(* nothing in the run gives one back.  As long as the run goes on, some    *)
(* step of the script is due.                                              *)
(***************************************************************************)
StepsLeft(a) ==
    IF job[a] = "queued" THEN 3 * MaxRetries + 1
    ELSE IF job[a] = "trying" THEN 3 * (MaxRetries - attempt[a]) + 3
    ELSE IF job[a] = "working" THEN 3 * (MaxRetries - attempt[a]) + 2
    ELSE IF job[a] = "waiting" THEN 3 * (MaxRetries - attempt[a]) + 1
    ELSE 0

\* The guards of Worker(a), but for what happens to the call: a handler that runs
\* returns.
WorkerDue(a) ==
    \/ job[a] \in Busy
    \/ job[a] = "queued" /\ Cardinality({b \in Assets : job[b] \in Busy}) < Concurrency

ScriptDue ==
    \/ pc \in {"dispatching", "saving"}
    \/ pc = "running" /\ \A a \in Assets : job[a] \in {"none", "ended"}
    \/ pc = "running" /\ \E a \in Assets : WorkerDue(a)

Launched == pc = "off" /\ pc' # "off"

\* An asset has had its first try when it is worked on.
TryInv ==
    /\ WorkInv
    /\ \A a \in Assets : job[a] \in Busy => attempt[a] \in 1 .. MaxRetries

LEMMA TryWorker ==
    ASSUME TryInv, NEW a \in Assets, Worker(a)
    PROVE  /\ \E st : Moved(a, st)
           /\ \A b \in Assets \ {a} : attempt'[b] = attempt[b]
           /\ job'[a] \in Busy => attempt'[a] \in 1 .. MaxRetries
           /\ StepsLeft(a)' < StepsLeft(a)
<1>1. /\ job \in [Assets -> {"none", "queued", "ended"} \cup Busy]
      /\ attempt \in [Assets -> 0 .. MaxRetries] /\ attempt[a] \in 0 .. MaxRetries
      /\ job[a] \in Busy => attempt[a] \in 1 .. MaxRetries
      /\ job[a] = "waiting" => attempt[a] < MaxRetries
      /\ MaxRetries \in Nat \ {0}
  BY RepairAssumption DEF TryInv, WorkInv, RepairTypeOK
<1>2. ASSUME NEW f, Record(a, f) PROVE Moved(a, "ended") /\ job'[a] = "ended"
  BY <1>1, <1>2, RecordEffect DEF Moved
<1>3. CASE PickUp(a)
  <2>1. job[a] = "queued"
    BY <1>3 DEF PickUp
  <2>2. CASE job' = [job EXCEPT ![a] = "trying"] /\ attempt' = [attempt EXCEPT ![a] = 1]
    <3>1. Moved(a, "trying")
      BY <1>1, <2>2, MovedEffect DEF Busy
    <3>2. job'[a] = "trying" /\ attempt'[a] = 1
      BY <1>1, <2>2
    <3>3. StepsLeft(a)' = 3 * (MaxRetries - 1) + 3 /\ StepsLeft(a) = 3 * MaxRetries + 1
      BY <2>1, <3>2 DEF StepsLeft
    <3>4. QED
      BY <1>1, <2>2, <3>1, <3>2, <3>3
  <2>3. CASE job' = [job EXCEPT ![a] = "ended"] /\ UNCHANGED attempt
    <3>1. Moved(a, "ended")
      BY <1>1, <2>3, MovedEffect
    <3>2. job'[a] = "ended"
      BY <1>1, <2>3
    <3>3. StepsLeft(a)' = 0 /\ StepsLeft(a) = 3 * MaxRetries + 1
      BY <2>1, <3>2 DEF StepsLeft
    <3>4. QED
      BY <1>1, <2>3, <3>1, <3>2, <3>3 DEF Busy
  <2>4. QED
    BY <1>3, <2>2, <2>3 DEF PickUp
<1>4. CASE CallHandler(a)
  <2>1. job[a] = "trying" /\ UNCHANGED attempt
    BY <1>4 DEF CallHandler
  <2>2. attempt[a] \in 1 .. MaxRetries
    BY <1>1, <2>1 DEF Busy
  <2>3. StepsLeft(a) = 3 * (MaxRetries - attempt[a]) + 3
    BY <2>1 DEF StepsLeft
  <2>4. CASE Record(a, FALSE)
    <3>1. Moved(a, "ended") /\ job'[a] = "ended"
      BY <1>2, <2>4
    <3>2. StepsLeft(a)' = 0
      BY <3>1 DEF StepsLeft
    <3>3. QED
      BY <1>1, <2>1, <2>2, <2>3, <3>1, <3>2 DEF Busy
  <2>5. CASE job' = [job EXCEPT ![a] = "working"]
    <3>1. Moved(a, "working")
      BY <1>1, <2>5, MovedEffect DEF Busy
    <3>2. job'[a] = "working" /\ attempt'[a] = attempt[a]
      BY <1>1, <2>1, <2>5
    <3>3. StepsLeft(a)' = 3 * (MaxRetries - attempt[a]) + 2
      BY <3>2 DEF StepsLeft
    <3>4. QED
      BY <1>1, <2>1, <2>2, <2>3, <3>1, <3>2, <3>3
  <2>6. QED
    BY <1>4, <2>4, <2>5 DEF CallHandler
<1>5. CASE Return(a) \/ TimeOut(a)
  <2>1. job[a] = "working" /\ UNCHANGED attempt
    BY <1>5 DEF Return, TimeOut
  <2>2. attempt[a] \in 1 .. MaxRetries
    BY <1>1, <2>1 DEF Busy
  <2>3. StepsLeft(a) = 3 * (MaxRetries - attempt[a]) + 2
    BY <2>1 DEF StepsLeft
  <2>4. ASSUME NEW f, Record(a, f)
        PROVE  /\ \E st : Moved(a, st)
               /\ job'[a] \notin Busy
               /\ StepsLeft(a)' < StepsLeft(a)
    <3>1. Moved(a, "ended") /\ job'[a] = "ended"
      BY <1>2, <2>4
    <3>2. StepsLeft(a)' = 0
      BY <3>1 DEF StepsLeft
    <3>3. StepsLeft(a)' < StepsLeft(a)
      BY <1>1, <2>2, <2>3, <3>2
    <3>4. QED
      BY <3>1, <3>3 DEF Busy
  <2>5. CASE job' = [job EXCEPT ![a] = "waiting"]
    <3>1. Moved(a, "waiting")
      BY <1>1, <2>5, MovedEffect DEF Busy
    <3>2. job'[a] = "waiting" /\ attempt'[a] = attempt[a]
      BY <1>1, <2>1, <2>5
    <3>3. StepsLeft(a)' = 3 * (MaxRetries - attempt[a]) + 1
      BY <3>2 DEF StepsLeft
    <3>4. QED
      BY <1>1, <2>1, <2>2, <2>3, <3>1, <3>2, <3>3
  <2>6. QED
    BY <1>5, <2>1, <2>4, <2>5 DEF Return, TimeOut
<1>6. CASE Retry(a)
  <2>1. /\ job[a] = "waiting" /\ job' = [job EXCEPT ![a] = "trying"]
        /\ attempt' = [attempt EXCEPT ![a] = @ + 1]
    BY <1>6 DEF Retry
  <2>2. Moved(a, "trying")
    BY <1>1, <2>1, MovedEffect DEF Busy
  <2>3. job'[a] = "trying" /\ attempt'[a] = attempt[a] + 1
    BY <1>1, <2>1
  <2>4. attempt[a] \in 1 .. MaxRetries /\ attempt[a] < MaxRetries
    BY <1>1, <2>1 DEF Busy
  <2>5. /\ StepsLeft(a)' = 3 * (MaxRetries - (attempt[a] + 1)) + 3
        /\ StepsLeft(a) = 3 * (MaxRetries - attempt[a]) + 1
    BY <2>1, <2>3 DEF StepsLeft
  <2>6. QED
    BY <1>1, <2>1, <2>2, <2>3, <2>4, <2>5
<1>7. QED
  BY <1>3, <1>4, <1>5, <1>6 DEF Worker

\* The other steps leave the tries alone, begin a run or take its jobs away.
LEMMA OthersKeepTries ==
    ASSUME TryInv, [Next]_vars, ~\E a \in Assets : Worker(a)
    PROVE  \/ Launched /\ \A a \in Assets : job'[a] \in {"queued", "none"}
           \/ \A a \in Assets : \/ job'[a] = job[a] /\ attempt'[a] = attempt[a]
                                \/ job'[a] \in {"none", "ended"}
<1>1. CASE Launch
  BY <1>1 DEF Launch, Launched
<1>2. CASE EndDispatch \/ Finish \/ Save
  BY <1>2 DEF EndDispatch, Finish, Save
<1>3. CASE Interrupt \/ Kill
  BY <1>3 DEF Interrupt, Kill
<1>4. CASE UNCHANGED repairVars
  BY <1>4 DEF repairVars
<1>5. UNCHANGED vars => UNCHANGED repairVars
  BY DEF vars
<1>6. QED
  BY <1>1, <1>2, <1>3, <1>4, <1>5 DEF Next, Repair

LEMMA TryNext ==
    ASSUME TryInv, WorkInv', [Next]_vars
    PROVE  TryInv'
<1>1. ASSUME NEW a \in Assets, Worker(a) PROVE TryInv'
  <2>1. ASSUME NEW b \in Assets, job'[b] \in Busy PROVE attempt'[b] \in 1 .. MaxRetries
    <3>1. CASE b = a
      BY <1>1, <2>1, <3>1, TryWorker
    <3>2. CASE b # a
      <4>1. job'[b] = job[b] /\ attempt'[b] = attempt[b]
        BY <1>1, <3>2, TryWorker DEF Moved
      <4>2. QED
        BY <2>1, <4>1 DEF TryInv
    <3>3. QED
      BY <3>1, <3>2
  <2>2. UNCHANGED MaxRetries
    OBVIOUS
  <2>3. QED
    BY <2>1 DEF TryInv, Busy
<1>2. CASE ~\E a \in Assets : Worker(a)
  BY <1>2, OthersKeepTries DEF TryInv, Busy
<1>3. QED
  BY <1>1, <1>2

LEMMA SomethingIsDue ==
    ASSUME TryInv, pc # "off"
    PROVE  ScriptDue
<1>1. pc \in {"dispatching", "saving", "running"} /\ Concurrency \in Nat \ {0}
      /\ job \in [Assets -> {"none", "queued", "ended"} \cup Busy]
  BY RepairAssumption DEF TryInv, WorkInv, RepairTypeOK
<1>2. ASSUME pc = "running", NEW a \in Assets, job[a] \notin {"none", "ended"}
      PROVE  \E b \in Assets : WorkerDue(b)
  <2>1. CASE \E b \in Assets : job[b] \in Busy
    BY <2>1 DEF WorkerDue
  <2>2. CASE ~\E b \in Assets : job[b] \in Busy
    <3>1. {b \in Assets : job[b] \in Busy} = {}
      BY <2>2
    <3>2. Cardinality({b \in Assets : job[b] \in Busy}) < Concurrency
      BY <1>1, <3>1, FS_EmptySet
    <3>3. job[a] = "queued"
      BY <1>1, <1>2, <2>2
    <3>4. QED
      BY <3>2, <3>3 DEF WorkerDue
  <2>3. QED
    BY <2>1, <2>2
<1>3. QED
  BY <1>1, <1>2 DEF ScriptDue

\* A run of qdrant_reindex_repair.py that is on has a step of the script due, whoever
\* holds the semaphore and whether or not the breaker has tripped; each step of an
\* asset's worker brings it nearer its end, and no step of the run, of a stop or of
\* the service takes an asset further from it.
THEOREM RunsGetOn ==
    Spec => /\ [](pc # "off" => ScriptDue)
            /\ [][\A a \in Assets : /\ Worker(a) => StepsLeft(a)' < StepsLeft(a)
                                    /\ Launched \/ StepsLeft(a)' <= StepsLeft(a)]_vars
<1>1. RepairInit => TryInv
  BY WorkInit DEF TryInv, RepairInit, Busy
<1>2. TryInv /\ [Next]_vars => TryInv'
  BY WorkNext, TryNext DEF TryInv
<1>3. TryInv => (pc # "off" => ScriptDue)
  BY SomethingIsDue
<1>4. ASSUME TryInv, TryInv', [Next]_vars, NEW a \in Assets
      PROVE  /\ Worker(a) => StepsLeft(a)' < StepsLeft(a)
             /\ Launched \/ StepsLeft(a)' <= StepsLeft(a)
  <2>1. /\ MaxRetries \in Nat \ {0} /\ attempt[a] \in 0 .. MaxRetries /\ attempt'[a] \in 0 .. MaxRetries
    BY <1>4, RepairAssumption DEF TryInv, WorkInv, RepairTypeOK
  <2>2. StepsLeft(a) \in Nat /\ StepsLeft(a)' \in Nat
    BY <2>1 DEF StepsLeft
  <2>3. CASE Worker(a)
    BY <1>4, <2>2, <2>3, TryWorker
  <2>4. ASSUME NEW b \in Assets, b # a, Worker(b) PROVE StepsLeft(a)' = StepsLeft(a)
    <3>1. job'[a] = job[a] /\ attempt'[a] = attempt[a]
      BY <1>4, <2>4, TryWorker DEF Moved
    <3>2. QED
      BY <3>1 DEF StepsLeft
  <2>5. CASE ~\E b \in Assets : Worker(b)
    <3>1. CASE job'[a] = job[a] /\ attempt'[a] = attempt[a]
      BY <2>2, <2>5, <3>1 DEF StepsLeft
    <3>2. CASE job'[a] \in {"none", "ended"}
      <4>1. StepsLeft(a)' = 0
        BY <3>2 DEF StepsLeft
      <4>2. QED
        BY <2>2, <2>5, <4>1
    <3>3. QED
      BY <1>4, <2>5, <3>1, <3>2, OthersKeepTries
  <2>6. QED
    BY <2>2, <2>3, <2>4, <2>5
<1>5. TryInv /\ TryInv' /\ [Next]_vars
        => [\A a \in Assets : /\ Worker(a) => StepsLeft(a)' < StepsLeft(a)
                              /\ Launched \/ StepsLeft(a)' <= StepsLeft(a)]_vars
  BY <1>4
<1>6. QED
  BY <1>1, <1>2, <1>3, <1>5, PTL DEF Spec
=============================================================================
