-------------------------- MODULE ReindexReconcile --------------------------
(***************************************************************************)
(* qdrant_reindex_reconcile.py: which ready assets have no point in the    *)
(* vector index and are to be repaired.  The script reads the database     *)
(* once, then the index collection by collection, then the object store    *)
(* asset by asset, while the service goes on.  What it writes is what      *)
(* ReindexRepair reads.                                                    *)
(*                                                                         *)
(* Of the service this is the workers' upload handler, as far as the two   *)
(* scripts can tell: the lock it takes in Redis, the point it puts and the *)
(* row it makes ready, or its silent end.  All its errors are caught.      *)
(***************************************************************************)
EXTENDS Naturals, FiniteSets

CONSTANTS
    Assets,
    Blobless,      \* of type folder, or without a blob_ref: mirrored from GitHub
    CollectionOf,  \* CollectionOf[a]
    Chunk,         \* how many points are asked for at a time (200)
    Faults         \* what goes wrong: a subset of {"slow", "silent", "redis"}

ASSUME ReconcileAssumption ==
    /\ IsFiniteSet(Assets)
    /\ Blobless \subseteq Assets
    /\ DOMAIN CollectionOf = Assets
    /\ Chunk \in Nat \ {0}
    /\ Faults \subseteq {"slow", "silent", "redis"}

Collections == {CollectionOf[a] : a \in Assets}

VARIABLES
    ready,       \* ready assets that are not deleted
    deleted,     \* assets whose rows have been deleted
    made,        \* collections of the index
    points,      \* assets with a point
    objects,     \* assets whose object is in the store
    lock,        \* assets whose embedding:lock is set
    handling,    \* assets that a worker's handler is at work on
    stage,       \* "fetch", "collections", "points", "objects" or "done"
    toAsk, missing,
    candidates,  \* repair_candidate_asset_ids
    flagged,     \* source_missing
    cut,         \* history: assets that a handler left without a point: it failed
                 \* silently, died, or was cut off
    pointless,   \* history: assets that have been without a point since the script began
    stored,      \* history: assets that have had an object since then
    steady       \* history: assets ready and with an object ever since the rows were read

rows == <<ready, deleted>>
index == <<made, points>>
handlers == <<lock, handling, cut>>
seen == <<pointless, stored, steady>>
service == <<rows, index, objects, handlers, seen>>
script == <<stage, toAsk, missing, candidates, flagged>>
reconcileVars == <<service, script>>

ReconcileTypeOK ==
    /\ \A S \in {ready, deleted, points, objects, lock, handling, cut, toAsk, missing,
                 candidates, flagged, pointless, stored, steady} : S \subseteq Assets
    /\ made \subseteq Collections
    /\ stage \in {"fetch", "collections", "points", "objects", "done"}
    /\ \A a \in points : CollectionOf[a] \in made

\* Of a lock that is set, the handler has put the point, is at work, or has failed.
Init ==
    /\ ready \in SUBSET Assets /\ deleted = {}
    /\ objects \in SUBSET (Assets \ Blobless)
    /\ points \in SUBSET (Assets \ Blobless)
    /\ lock \in SUBSET (Assets \ Blobless) /\ handling \in SUBSET (Assets \ Blobless)
    /\ cut = lock \ (points \cup handling)
    /\ made = {CollectionOf[a] : a \in points}
    /\ stage = "fetch"
    /\ toAsk = {} /\ missing = {} /\ candidates = {} /\ flagged = {}
    /\ pointless = Assets \ points /\ stored = objects /\ steady = {}

-----------------------------------------------------------------------------
(* The service.  Of what it does after the script has ended, only what       *)
(* becomes of the candidates matters to the repair.                           *)

Matters(a) == stage = "done" => a \in candidates

\* A folder, or an asset mirrored from GitHub: inserted ready.
InsertReady(a) ==
    /\ stage # "done" /\ a \in Blobless \ (ready \cup deleted)
    /\ ready' = ready \cup {a}
    /\ UNCHANGED <<deleted, index, objects, handlers, seen, script>>

\* An upload's event arrives: its handler takes the lock for the asset, or goes on
\* without when Redis fails.  If another has it, it returns at once.
TakeLock(a) ==
    /\ Matters(a) /\ a \notin Blobless
    /\ \/ a \notin lock /\ lock' = lock \cup {a}
       \/ "redis" \in Faults /\ UNCHANGED lock
    /\ handling' = handling \cup {a}
    /\ UNCHANGED <<rows, index, objects, cut, seen, script>>

\* ensure_collection and upsert.
PutPoint(a) ==
    /\ Matters(a) /\ a \in handling \ points
    /\ points' = points \cup {a}
    /\ made' = made \cup {CollectionOf[a]}
    /\ UNCHANGED <<rows, objects, handlers, seen, script>>

\* A handler ends: it finds the row gone, or makes it ready, with the point put or
\* with that error caught; or it fails or dies before.  Its lock stays, and another
\* handler of the asset may be at work still.
EndHandler(a) ==
    /\ Matters(a) /\ a \in handling
    /\ \/ a \in deleted /\ UNCHANGED <<ready, cut>>
       \/ /\ a \in points \ deleted
          /\ ready' = ready \cup {a} /\ UNCHANGED cut
       \/ /\ "silent" \in Faults /\ a \notin deleted
          /\ ready' \in {ready, ready \cup {a}} /\ cut' = cut \cup ({a} \ points)
    /\ handling' \in {handling, handling \ {a}}
    /\ UNCHANGED <<deleted, index, objects, lock, seen, script>>

\* The lock expires (300 s), whoever has taken it.
Expire(a) ==
    /\ Matters(a) /\ a \in lock
    /\ lock' = lock \ {a}
    /\ UNCHANGED <<rows, index, objects, handling, cut, seen, script>>

\* A delete takes the row first; the point and the object go in any order, if at all.
DeleteRow(a) ==
    /\ Matters(a) /\ a \notin deleted
    /\ ready' = ready \ {a} /\ deleted' = deleted \cup {a} /\ steady' = steady \ {a}
    /\ UNCHANGED <<index, objects, handlers, pointless, stored, script>>

DropPoint(a) ==
    /\ Matters(a) /\ a \in points \cap deleted
    /\ points' = points \ {a} /\ pointless' = pointless \cup {a}
    /\ UNCHANGED <<rows, made, objects, handlers, stored, steady, script>>

DropObject(a) ==
    /\ stage # "done" /\ a \in objects
    /\ objects' = objects \ {a} /\ steady' = steady \ {a}
    /\ UNCHANGED <<rows, index, handlers, pointless, stored, script>>

-----------------------------------------------------------------------------
Indexable(a) == a \notin Blobless

Fetch ==
    /\ stage = "fetch" /\ stage' = "collections"
    /\ toAsk' = {a \in ready : Indexable(a)}
    /\ steady' = toAsk' \cap objects
    /\ UNCHANGED <<rows, index, objects, handlers, pointless, stored, missing, candidates, flagged>>

\* Mutation: what is in a collection that does not exist is left out.
ListCollectionsSkipping ==
    /\ stage = "collections" /\ stage' = "points"
    /\ toAsk' = {a \in toAsk : CollectionOf[a] \in made}
    /\ UNCHANGED <<service, missing, candidates, flagged>>

\* A collection that does not exist has none of the points.
ListCollections ==
    /\ stage = "collections" /\ stage' = "points"
    /\ missing' = {a \in toAsk : CollectionOf[a] \notin made}
    /\ toAsk' = {a \in toAsk : CollectionOf[a] \in made}
    /\ UNCHANGED <<service, candidates, flagged>>

\* The chunks of a collection.
Chunks(c) ==
    LET A == {a \in toAsk : CollectionOf[a] = c}
    IN  {S \in SUBSET A : S # {} /\ Cardinality(S) = IF Cardinality(A) < Chunk THEN Cardinality(A) ELSE Chunk}

Found(S) == S \cap points

\* Mutation: each chunk is compared with all that is asked for.
NotFoundOfAll(S) == toAsk \ Found(S)

NotFound(S) == S \ Found(S)

Retrieve(c) ==
    /\ stage = "points"
    /\ \E S \in Chunks(c) :
          /\ toAsk' = toAsk \ S
          /\ missing' = missing \cup NotFound(S)
    /\ UNCHANGED <<service, stage, candidates, flagged>>

CheckObjects ==
    /\ stage = "points" /\ toAsk = {}
    /\ stage' = "objects"
    /\ UNCHANGED <<service, toAsk, missing, candidates, flagged>>

\* object_exists; a store that does not answer is an object that is not there.
ObjectExists(a) == a \in objects

HeadObject(a) ==
    /\ stage = "objects" /\ a \in missing
    /\ missing' = missing \ {a}
    /\ \/ /\ ObjectExists(a)
          /\ candidates' = candidates \cup {a} /\ UNCHANGED flagged
       \/ /\ flagged' = flagged \cup {a} /\ UNCHANGED candidates
    /\ UNCHANGED <<service, stage, toAsk>>

Summarise ==
    /\ stage = "objects" /\ missing = {}
    /\ stage' = "done"
    /\ UNCHANGED <<service, toAsk, missing, candidates, flagged>>

Handle(a) == TakeLock(a) \/ PutPoint(a) \/ EndHandler(a) \/ Expire(a)

Serve ==
    \E a \in Assets : InsertReady(a) \/ Handle(a) \/ DeleteRow(a) \/ DropPoint(a) \/ DropObject(a)

Reconcile ==
    \/ Fetch \/ ListCollections \/ CheckObjects \/ Summarise
    \/ \E c \in Collections : Retrieve(c)
    \/ \E a \in Assets : HeadObject(a)

-----------------------------------------------------------------------------
\* A candidate was without its point, and had its object, at some moment of the
\* run: an asset that is well throughout is never repaired.
CandidatesWereMissing == candidates \subseteq pointless \cap stored

\* The header: an asset whose object is missing is "flagged, not excluded".
FlaggedNotExcluded == stage = "done" => flagged \subseteq candidates

=============================================================================
