-------------------------- MODULE MCReindexRepair --------------------------
(* A small instance of ReindexRepair, with the dry run before it. *)
EXTENDS ReindexRepair

CONSTANTS a1, a2, f1

\* a1 and a2 share a collection; f1 is a folder.
TwoCollections == [a \in Assets |-> IF a \in {a1, a2} THEN "c1" ELSE "c2"]

\* What is known of an asset.
Sets == [ready |-> ready, deleted |-> deleted, points |-> points, objects |-> objects,
         lock |-> lock, handling |-> handling, cut |-> cut,
         pointless |-> pointless, stored |-> stored, steady |-> steady]

Facts(a) == {s \in DOMAIN Sets : a \in Sets[s]}

\* What is still of importance of a candidate: of one that is deleted, or that some
\* handler left without its point, no property asks any more whether it has one.
Fate(a) == Facts(a) \cap
    IF a \in deleted THEN {"deleted", "lock"}
    ELSE IF a \in cut THEN {"cut", "steady", "lock"}
    ELSE {"steady", "points", "handling", "lock"}

\* What the rest of a behaviour depends on.  Once the dry run has read the rows and
\* the collections: all about an asset that it has still to look at, the fate of a
\* candidate, and of the others what the properties ask for.
ToLookAt == toAsk \cup missing

Left == steady \ (points \cup cut \cup handling \cup flagged \cup candidates \cup ToLookAt)

View ==
    IF stage \in {"fetch", "collections"} THEN vars
    ELSE <<stage, toAsk, missing, candidates, [a \in ToLookAt |-> Facts(a)],
           [a \in candidates |-> Fate(a)], Left, CandidatesWereMissing, repairVars>>
=============================================================================
