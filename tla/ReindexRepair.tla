--------------------------- MODULE ReindexRepair ---------------------------
(***************************************************************************)
(* scripts/utilities/qdrant_reindex_repair.py: the upload handler is       *)
(* called again for every asset whose point is missing, a few at a time,   *)
(* with a timeout and retries, and a checkpoint file says what is done.    *)
(* The script may be interrupted, or killed, and run again.  The assets    *)
(* are the candidates of a dry run of ReindexReconcile, which may be stale *)
(* by then: the service goes on.                                           *)
(*                                                                         *)
(* The handler is the one the workers of ReindexReconcile run, with the    *)
(* same lock, which the script meets whoever has taken it.  It raises      *)
(* nothing but a timeout's cancellation, so no outcome is a permanent      *)
(* failure.                                                                *)
(***************************************************************************)
EXTENDS ReindexReconcile, Sequences

CONSTANTS
    Concurrency, \* --concurrency
    MaxRetries,  \* MAX_RETRIES
    Window,      \* CIRCUIT_BREAKER_WINDOW
    Tolerated,   \* failures in a window that do not trip the breaker (20 %)
    SaveEvery,   \* dispatched assets between two saves (25)
    Stops,       \* how a run is stopped: a subset of {"interrupt", "kill"}
    MaxRuns      \* bound on the runs of the script

ASSUME RepairAssumption ==
    /\ Concurrency \in Nat \ {0} /\ MaxRetries \in Nat \ {0}
    /\ Window \in Nat \ {0} /\ Tolerated \in Nat
    /\ SaveEvery \in Nat \ {0} /\ MaxRuns \in Nat
    /\ Stops \subseteq {"interrupt", "kill"}

VARIABLES
    file,    \* the checkpoint file: [done, torn]
    pc,      \* "off", "dispatching", "running" or "saving"
    runs,    \* runs begun
    done,    \* state["done"], in memory
    job,     \* job[a]: where the worker of a is in this run
    attempt, \* attempt[a]
    recent,  \* recent_outcomes: TRUE for a failure
    tripped, \* circuit_open
    noted    \* history: what was once written to the file as done

repairVars == <<file, pc, runs, done, job, attempt, recent, tripped, noted>>
vars == <<reconcileVars, repairVars>>

Busy == {"trying", "working", "waiting"}

RepairTypeOK ==
    /\ ReconcileTypeOK
    /\ noted \subseteq Assets
    /\ file \in [done : SUBSET Assets, torn : BOOLEAN]
    /\ pc \in {"off", "dispatching", "running", "saving"}
    /\ runs \in 0 .. MaxRuns
    /\ done \subseteq Assets
    /\ job \in [Assets -> {"none", "queued", "ended"} \cup Busy]
    /\ attempt \in [Assets -> 0 .. MaxRetries]
    /\ recent \in Seq(BOOLEAN) /\ Len(recent) <= Window
    /\ tripped \in BOOLEAN
    /\ Cardinality({a \in Assets : job[a] \in Busy}) <= Concurrency

RepairInit ==
    /\ Init
    /\ noted = {}
    /\ file = [done |-> {}, torn |-> FALSE]
    /\ pc = "off" /\ runs = 0
    /\ done = {}
    /\ job = [a \in Assets |-> "none"]
    /\ attempt = [a \in Assets |-> 0]
    /\ recent = <<>>
    /\ tripped = FALSE

-----------------------------------------------------------------------------
(* The run. *)

\* Mutation: the checkpoint is not read.
LoadNothing == {}

\* load_checkpoint, which raises on what is no JSON.
Load == file.done

\* save_checkpoint opens the file, which empties it, and then writes it.
OpenFile ==
    /\ file' = [done |-> {}, torn |-> TRUE]
    /\ UNCHANGED noted
WriteFile ==
    /\ file'  = [done |-> done, torn |-> FALSE]
    /\ noted' = noted \cup done

\* main() up to the tasks: they are made without an await, so that the saves of
\* the loop write what was just read.
Launch ==
    /\ stage = "done" /\ pc = "off" /\ runs < MaxRuns /\ ~file.torn
    /\ done' = Load
    /\ candidates \ done' # {}
    /\ job' = [a \in Assets |-> IF a \in candidates \ done' THEN "queued" ELSE "none"]
    /\ attempt' = [a \in Assets |-> 0]
    /\ recent' = <<>> /\ tripped' = FALSE
    /\ runs' = runs + 1
    /\ IF Cardinality(candidates \ done') >= SaveEvery
       THEN pc' = "dispatching" /\ OpenFile
       ELSE pc' = "running" /\ UNCHANGED <<file, noted>>
    /\ UNCHANGED reconcileVars

EndDispatch ==
    /\ pc = "dispatching"
    /\ pc' = "running"
    /\ WriteFile
    /\ UNCHANGED <<reconcileVars, runs, done, job, attempt, recent, tripped>>

\* The tasks are gathered, and the finally saves.
Finish ==
    /\ pc = "running"
    /\ \A a \in Assets : job[a] \in {"none", "ended"}
    /\ pc' = "saving"
    /\ OpenFile
    /\ UNCHANGED <<reconcileVars, runs, done, job, attempt, recent, tripped>>

Save ==
    /\ pc = "saving"
    /\ pc' = "off"
    /\ WriteFile
    /\ UNCHANGED <<reconcileVars, runs, done, job, attempt, recent, tripped>>

Working == {a \in Assets : job[a] = "working"}

\* The handlers of S are cut off; some have put their points, and all leave their
\* locks.
CutOff(S) ==
    /\ \E W \in SUBSET S : /\ points' = points \cup W
                           /\ made' = made \cup {CollectionOf[a] : a \in W}
    /\ cut' = cut \cup S
    /\ UNCHANGED <<rows, objects, lock, handling, seen, script>>

\* Ctrl-C: the tasks are cancelled, and the finally saves.
Interrupt ==
    /\ "interrupt" \in Stops
    /\ pc = "running"
    /\ pc'  = "saving"
    /\ OpenFile
    /\ job' = [a \in Assets |-> IF job[a] = "none" THEN "none" ELSE "ended"]
    /\ CutOff(Working)
    /\ UNCHANGED <<runs, done, attempt, recent, tripped>>

\* The process is killed.
Kill ==
    /\ "kill" \in Stops
    /\ pc # "off"
    /\ pc'   = "off"
    /\ job'  = [a \in Assets |-> "none"]
    /\ done' = {}
    /\ CutOff(Working)
    /\ UNCHANGED <<file, runs, attempt, recent, tripped, noted>>

-----------------------------------------------------------------------------
(* worker(a) and process_one(a). *)

\* Looked at once the semaphore is held.
Admitted == ~tripped

\* A worker that has the semaphore begins, unless the breaker has tripped.
PickUp(a) ==
    /\ pc = "running" /\ job[a] = "queued"
    /\ Cardinality({b \in Assets : job[b] \in Busy}) < Concurrency
    /\ IF Admitted
       THEN /\ job' = [job EXCEPT ![a] = "trying"]
            /\ attempt' = [attempt EXCEPT ![a] = 1]
       ELSE /\ job' = [job EXCEPT ![a] = "ended"]
            /\ UNCHANGED attempt
    /\ UNCHANGED <<reconcileVars, file, pc, runs, done, recent, tripped, noted>>

Failures(s) == Cardinality({i \in DOMAIN s : s[i]})

\* The last Window outcomes.
Remember(failed) ==
    LET s == Append(recent, failed)
    IN  IF Len(s) > Window THEN Tail(s) ELSE s

\* What the worker does with the outcome.
Record(a, failed) ==
    /\ job'  = [job EXCEPT ![a] = "ended"]
    /\ done' = IF failed THEN done ELSE done \cup {a}
    /\ recent' = Remember(failed)
    /\ tripped' = (tripped \/ (Len(recent') = Window /\ Failures(recent') > Tolerated))

\* Mutation: an asset is noted as done when its handler is called.
CallHandlerNoting(a) ==
    /\ pc = "running" /\ job[a] = "trying"
    /\ lock' = lock \cup {a}
    /\ job'  = [job EXCEPT ![a] = "working"]
    /\ done' = done \cup {a}
    /\ UNCHANGED <<rows, index, objects, handling, cut, seen, script,
                   file, pc, runs, attempt, recent, tripped, noted>>

\* The handler asks for its lock: it returns if that is held, by a call of the script
\* or by a worker, and works if it is not or Redis fails.
CallHandler(a) ==
    /\ pc = "running" /\ job[a] = "trying"
    /\ \/ /\ a \in lock
          /\ Record(a, FALSE)
          /\ UNCHANGED lock
       \/ /\ a \notin lock
          /\ lock' = lock \cup {a}
          /\ job'  = [job EXCEPT ![a] = "working"]
          /\ UNCHANGED <<done, recent, tripped>>
       \/ /\ "redis" \in Faults
          /\ job'  = [job EXCEPT ![a] = "working"]
          /\ UNCHANGED <<lock, done, recent, tripped>>
    /\ UNCHANGED <<rows, index, objects, handling, cut, seen, script,
                   file, pc, runs, attempt, noted>>

\* The handler returns: with the point put, with an error caught, or because it
\* found no row.  The row of a candidate that is not deleted is ready as it is.
Return(a) ==
    /\ pc = "running" /\ job[a] = "working"
    /\ \/ /\ points' = points \cup {a} /\ made' = made \cup {CollectionOf[a]}
          /\ UNCHANGED cut
       \/ /\ "silent" \in Faults
          /\ cut' = cut \cup {a} /\ UNCHANGED index
       \/ /\ a \in deleted
          /\ UNCHANGED <<index, cut>>
    /\ Record(a, FALSE)
    /\ UNCHANGED <<rows, objects, lock, handling, seen, script, file, pc, runs, attempt, noted>>

\* Mutation: a call that timed out is not retried, nor given up.
TimeOutForgotten(a) ==
    /\ "slow" \in Faults
    /\ pc = "running" /\ job[a] = "working"
    /\ job' = [job EXCEPT ![a] = "waiting"]
    /\ attempt' = [attempt EXCEPT ![a] = 0]
    /\ CutOff({a})
    /\ UNCHANGED <<file, pc, runs, done, recent, tripped, noted>>

\* wait_for gives up and cancels the handler, whose lock stays.
TimeOut(a) ==
    /\ "slow" \in Faults
    /\ pc = "running" /\ job[a] = "working"
    /\ IF attempt[a] < MaxRetries
       THEN /\ job' = [job EXCEPT ![a] = "waiting"]
            /\ UNCHANGED <<done, recent, tripped>>
       ELSE Record(a, TRUE)
    /\ CutOff({a})
    /\ UNCHANGED <<file, pc, runs, attempt, noted>>

\* The back-off is over.
Retry(a) ==
    /\ pc = "running" /\ job[a] = "waiting"
    /\ job' = [job EXCEPT ![a] = "trying"]
    /\ attempt' = [attempt EXCEPT ![a] = @ + 1]
    /\ UNCHANGED <<reconcileVars, file, pc, runs, done, recent, tripped, noted>>

Worker(a) == PickUp(a) \/ CallHandler(a) \/ Return(a) \/ TimeOut(a) \/ Retry(a)

Repair ==
    \/ Launch \/ EndDispatch \/ Finish \/ Save
    \/ Interrupt \/ Kill
    \/ \E a \in Assets : Worker(a)

\* The dry run, the repair, and the service throughout.
Next ==
    \/ (Serve \/ Reconcile) /\ UNCHANGED repairVars
    \/ Repair

Spec == RepairInit /\ [][Next]_vars

\* The event loop runs its tasks, and each call ends or times out.
FairSpec ==
    /\ Spec
    /\ WF_vars(EndDispatch) /\ WF_vars(Finish) /\ WF_vars(Save)
    /\ \A a \in Assets : WF_vars(Worker(a))

-----------------------------------------------------------------------------
\* What is noted as done has its point, whichever runs were stopped and begun
\* again and whoever held its lock, unless its row has been deleted, a handler,
\* the script's or a worker's, was cut off or failed without raising and left it
\* without, or a worker's is at work on it.
DoneUnlessCut == done \cup file.done \subseteq points \cup cut \cup handling \cup deleted

\* An asset that could be repaired from the moment the dry run read the rows has
\* its point once the checkpoint names all candidates, whatever ran meanwhile,
\* unless the dry run flagged it, some handler left it without its point, or a
\* worker's is at work on it.
AllRepaired ==
    stage = "done" /\ candidates \subseteq file.done =>
        steady \subseteq points \cup cut \cup handling \cup flagged

\* What a file once said is done is known to every later run, and said by every
\* file that can be read.
ProgressIsKept ==
    /\ pc # "off" => noted \subseteq done
    /\ ~file.torn => noted \subseteq file.done

\* A run that is not killed ends, and leaves a file.
RunsEnd == pc # "off" ~> pc = "off"

-----------------------------------------------------------------------------
(* What the script's docstring says, and the code does not do. *)

\* "Transient failures (timeouts, connection errors) get up to 3 retries": what
\* is done at the end of them has a point, unless it has been deleted.
DoneIsIndexed == done \subseteq points \cup deleted

\* "safe to interrupt (Ctrl-C, process kill) and restart at any point": a script
\* that is off can be run again.
CanRestart == pc = "off" => ~file.torn

\* "Checkpoint file (JSON) records per-asset outcome as it goes": a kill loses
\* nothing that was done.
RecordedAsItGoes ==
    [][pc = "running" /\ pc' = "off" => done \subseteq file.done]_vars

=============================================================================
