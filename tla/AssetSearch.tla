---------------------------- MODULE AssetSearch ----------------------------
(***************************************************************************)
(* One search of an organisation's assets, while assets are added, edited, *)
(* indexed and deleted: search_service.py and indexer.py.                  *)
(*                                                                         *)
(* A hybrid search runs two tasks at a time.  One asks the database for    *)
(* the words, the newest rows first.  The other asks the vector index of   *)
(* the organisation for what is alike, best first, and then reads the row  *)
(* of each hit.  The two lists are fused by reciprocal rank.  Assets are   *)
(* numbered in the order of their creation.                                *)
(***************************************************************************)
EXTENDS Naturals, Sequences, FiniteSets

CONSTANTS
    Assets, Orgs, Types,
    OrgOf,         \* OrgOf[a]
    TypeOf,        \* TypeOf[a]
    CollectionOf,  \* CollectionOf[o]: the collection named by the first 8 characters of o
    Alike,         \* what scores above the threshold for the query
    Org,           \* who searches
    Modes,         \* modes asked for: a subset of {"fulltext", "semantic", "hybrid"}
    Filters,       \* sets of types asked for; {} is no filter
    Limits,        \* how many results may be asked for
    Faults         \* what may fail: a subset of {"index", "database"}

ASSUME SearchAssumption ==
    /\ Assets \in SUBSET Nat /\ IsFiniteSet(Assets) /\ Alike \subseteq Assets
    /\ OrgOf \in [Assets -> Orgs] /\ TypeOf \in [Assets -> Types]
    /\ Org \in Orgs
    /\ Modes \subseteq {"fulltext", "semantic", "hybrid"}
    /\ Filters \subseteq SUBSET Types /\ \A T \in Filters : IsFiniteSet(T)
    /\ Limits \subseteq Nat \ {0}
    /\ Faults \subseteq {"index", "database"}

VARIABLES
    row,      \* row[a]: "absent", "live" or "gone"
    matching, \* assets whose name or summary has the words
    index,    \* assets with a point in the collection of their organisation
    mode, types, limit, \* what was asked
    ft,       \* the task for words: "todo", "done" or "off"
    sem,      \* the task for what is alike: "todo", "fetch", "done" or "off"
    words,    \* its result: a sequence of assets
    hits,     \* the hits whose rows are still to be read
    similar,  \* the result of the other task
    missed,   \* the index failed
    answer,   \* "none", "wait", "error", or "given"
    results,
    dropped,  \* history: the hits that were left out, foreign or gone
    seen,     \* history: what has been live since the search began
    steady    \* history: what has been live, with words and point as now, since then

search == <<mode, types, limit, ft, sem, words, hits, similar, dropped, missed, answer, results>>
vars == <<row, matching, index, search, seen, steady>>

Lists == UNION {[1 .. n -> Assets] : n \in 0 .. Cardinality(Assets)}

TypeOK ==
    /\ row \in [Assets -> {"absent", "live", "gone"}]
    /\ matching \subseteq Assets /\ index \subseteq Assets
    /\ mode \in Modes /\ types \in Filters /\ limit \in Limits
    /\ ft \in {"todo", "done", "off"} /\ sem \in {"todo", "fetch", "done", "off"}
    /\ \A l \in {words, hits, similar, results} : l \in Lists /\ Len(l) <= limit
    /\ dropped \subseteq Assets /\ missed \in BOOLEAN
    /\ answer \in {"none", "wait", "error", "given"}
    /\ seen \subseteq Assets
    /\ steady \in [words : SUBSET Assets, points : SUBSET Assets]

Live == {a \in Assets : row[a] = "live"}
Wanted(T) == {a \in Assets : T = {} \/ TypeOf[a] \in T}
Own == {a \in Assets : OrgOf[a] = Org}

Init ==
    /\ row \in [Assets -> {"absent", "live"}]
    /\ matching \in SUBSET Assets
    /\ index \in SUBSET {a \in Assets : row[a] = "live"}
    /\ mode \in Modes /\ types \in Filters /\ limit \in Limits
    /\ ft = "off" /\ sem = "off" /\ answer = "none"
    /\ words = << >> /\ hits = << >> /\ similar = << >> /\ results = << >>
    /\ dropped = {} /\ missed = FALSE
    /\ seen = {} /\ steady = [words |-> {}, points |-> {}]

-----------------------------------------------------------------------------
(* What others do meanwhile.  Nothing is asked of them once there is an answer. *)

Meanwhile == answer \in {"none", "wait"}

Add(a) ==
    /\ Meanwhile /\ row[a] = "absent"
    /\ row' = [row EXCEPT ![a] = "live"]
    /\ seen' = seen \cup {a}
    /\ UNCHANGED <<matching, index, search, steady>>

\* A name or a summary changes.
Edit(a) ==
    /\ Meanwhile /\ row[a] = "live"
    /\ matching' = IF a \in matching THEN matching \ {a} ELSE matching \cup {a}
    /\ steady' = [steady EXCEPT !.words = @ \ {a}]
    /\ UNCHANGED <<row, index, search, seen>>

\* The point is dropped later, by a background task, if at all.
Delete(a) ==
    /\ Meanwhile /\ row[a] = "live"
    /\ row' = [row EXCEPT ![a] = "gone"]
    /\ steady' = [words |-> steady.words \ {a}, points |-> steady.points \ {a}]
    /\ UNCHANGED <<matching, index, search, seen>>

\* index_asset reads the row and puts the point later: the row may be gone by then.
Upsert(a) ==
    /\ Meanwhile /\ row[a] # "absent"
    /\ index' = index \cup {a}
    /\ UNCHANGED <<row, matching, search, seen, steady>>

DropPoint(a) ==
    /\ Meanwhile /\ row[a] = "gone"
    /\ index' = index \ {a}
    /\ UNCHANGED <<row, matching, search, seen, steady>>

-----------------------------------------------------------------------------
Ask ==
    /\ answer = "none"
    /\ answer' = "wait"
    /\ ft'  = IF mode = "semantic" THEN "off" ELSE "todo"
    /\ sem' = IF mode = "fulltext" THEN "off" ELSE "todo"
    /\ seen' = Live
    /\ steady' = LET A == Live \cap Own \cap Wanted(types)
                 IN  [words |-> A \cap matching, points |-> A \cap index \cap Alike]
    /\ UNCHANGED <<row, matching, index, mode, types, limit, words, hits, similar, dropped, missed, results>>

\* The arrangements of a set, and the one from the newest to the oldest.
Arranged(S) == {l \in [1 .. Cardinality(S) -> S] : \A i, j \in DOMAIN l : l[i] = l[j] => i = j}
NewestFirst(S) == CHOOSE l \in Arranged(S) : \A i, j \in DOMAIN l : i < j => l[i] > l[j]

Elems(l) == {l[i] : i \in DOMAIN l}
Upto(l, n) == SubSeq(l, 1, IF Len(l) < n THEN Len(l) ELSE n)
RankIn(l, a) == CHOOSE i \in DOMAIN l : l[i] = a

\* What a list has of A, in its order; a list has nothing twice.
Only(l, A) ==
    CHOOSE k \in Arranged(Elems(l) \cap A) :
        \A i, j \in DOMAIN k : i < j => RankIn(l, k[i]) < RankIn(l, k[j])

FullText ==
    /\ answer = "wait" /\ ft = "todo"
    /\ ft' = "done"
    /\ words' = Upto(NewestFirst(Live \cap Own \cap Wanted(types) \cap matching), limit)
    /\ UNCHANGED <<row, matching, index, mode, types, limit, sem, hits, similar, dropped, missed,
                   answer, results, seen, steady>>

Collection == {a \in index : CollectionOf[OrgOf[a]] = CollectionOf[Org]}

\* A filter of more than one type is an error, which is caught.
Found == Collection \cap Alike \cap Wanted(types)

\* Limit is applied by the index, before the hits of others are dropped.
QueryIndex ==
    /\ answer = "wait" /\ sem = "todo"
    /\ sem' = "fetch"
    /\ \/ /\ Cardinality(types) <= 1
          /\ \E l \in Arranged(Found) :
                /\ hits' = Only(Upto(l, limit), Own)
                /\ dropped' = Elems(Upto(l, limit)) \ Own
          /\ UNCHANGED missed
       \/ /\ Cardinality(types) > 1
          /\ hits' = << >>
          /\ UNCHANGED <<dropped, missed>>
       \/ /\ "index" \in Faults
          /\ hits' = << >> /\ missed' = TRUE
          /\ UNCHANGED dropped
    /\ UNCHANGED <<row, matching, index, mode, types, limit, ft, words, similar, answer, results, seen, steady>>

\* Mutation: what the point says of the asset is enough.
ReadableByPoint(a) == TRUE

\* get_by_id
Readable(a) == a \in Live \cap Own

FetchHit ==
    /\ answer = "wait" /\ sem = "fetch"
    /\ \/ /\ hits # << >>
          /\ hits' = Tail(hits)
          /\ \/ /\ Readable(Head(hits))
                /\ similar' = Append(similar, Head(hits)) /\ UNCHANGED dropped
             \/ /\ ~Readable(Head(hits))
                /\ dropped' = dropped \cup {Head(hits)} /\ UNCHANGED similar
          /\ UNCHANGED sem
       \/ /\ hits = << >>
          /\ sem' = "done"
          /\ UNCHANGED <<hits, similar, dropped>>
    /\ UNCHANGED <<row, matching, index, mode, types, limit, ft, words, missed, answer, results, seen, steady>>

\* The database fails in either task, and the request with it.
DatabaseFails ==
    /\ answer = "wait" /\ "database" \in Faults
    /\ ft = "todo" \/ sem = "fetch"
    /\ answer' = "error"
    /\ UNCHANGED <<row, matching, index, mode, types, limit, ft, sem, words, hits, similar, dropped, missed,
                   results, seen, steady>>

-----------------------------------------------------------------------------
(* The fusion: 1 / (60 + rank) from each list, as a fraction. *)

Term(l, a) == 60 + RankIn(l, a)

Score(a, w, s) ==
    IF a \in Elems(w) /\ a \in Elems(s)
    THEN [num |-> Term(w, a) + Term(s, a), den |-> Term(w, a) * Term(s, a)]
    ELSE [num |-> 1, den |-> IF a \in Elems(w) THEN Term(w, a) ELSE Term(s, a)]

\* The order in which the scores were entered, kept between equals.
EnteredBefore(a, b, w, s) ==
    IF a \in Elems(w) THEN b \in Elems(w) => RankIn(w, a) < RankIn(w, b)
    ELSE b \notin Elems(w) /\ RankIn(s, a) < RankIn(s, b)

\* Mutation: the lowest score first.
AheadAscending(a, b, w, s) ==
    LET x == Score(a, w, s)
        y == Score(b, w, s)
    IN  \/ x.num * y.den < y.num * x.den
        \/ x.num * y.den = y.num * x.den /\ EnteredBefore(a, b, w, s)

Ahead(a, b, w, s) ==
    LET x == Score(a, w, s)
        y == Score(b, w, s)
    IN  \/ x.num * y.den > y.num * x.den
        \/ x.num * y.den = y.num * x.den /\ EnteredBefore(a, b, w, s)

Ranked(w, s) ==
    CHOOSE l \in Arranged(Elems(w) \cup Elems(s)) :
        \A i, j \in DOMAIN l : i < j => Ahead(l[i], l[j], w, s)

\* Mutation: only what is in both lists.
FusedCommon(w, s) == Upto(Only(Ranked(w, s), Elems(w) \cap Elems(s)), limit)

Fused(w, s) == Upto(Ranked(w, s), limit)

\* The semantic results are sorted by score again, which leaves them as they are.
Answer ==
    /\ answer = "wait" /\ ft # "todo" /\ sem \in {"done", "off"}
    /\ answer' = "given"
    /\ results' = IF mode = "hybrid" THEN Fused(words, similar)
                  ELSE IF mode = "fulltext" THEN words ELSE similar
    /\ UNCHANGED <<row, matching, index, mode, types, limit, ft, sem, words, hits, similar, dropped, missed,
                   seen, steady>>

Next ==
    \/ \E a \in Assets : Add(a) \/ Edit(a) \/ Delete(a) \/ Upsert(a) \/ DropPoint(a)
    \/ Ask \/ FullText \/ QueryIndex \/ FetchHit \/ DatabaseFails \/ Answer

Spec == Init /\ [][Next]_vars

-----------------------------------------------------------------------------
Given == answer = "given"

\* Every result was live at some moment of the search and is the searcher's
\* own, whatever points of gone or foreign assets the collection holds.
ResultsWereLive == \A i \in DOMAIN results : results[i] \in seen \cap Own

\* An asset that both tasks found is one result, and what both lists have ahead
\* of another asset is ahead of it in the results.
RankedByBoth ==
    Given /\ mode = "hybrid" =>
        /\ \A i, j \in DOMAIN results : results[i] = results[j] => i = j
        /\ \A b \in Elems(results), a \in Elems(words) \cap Elems(similar) :
             /\ b \in Elems(words) => RankIn(words, a) < RankIn(words, b)
             /\ b \in Elems(similar) => RankIn(similar, a) < RankIn(similar, b)
             => a \in Elems(results) /\ RankIn(results, a) < RankIn(results, b)

\* What had the words all along is found, whatever happens to the index
\* meanwhile, unless the page is full.  So is what is alike and had its point all
\* along, unless the index failed or a hit that was left out took its place; this
\* is of a search for one type or for any.
SteadyAreFound ==
    Given =>
        /\ mode # "semantic" => steady.words \subseteq Elems(results) \/ Len(results) = limit
        /\ mode # "fulltext" /\ ~missed /\ dropped = {} /\ Cardinality(types) <= 1 =>
              steady.points \subseteq Elems(results) \/ Len(results) = limit

-----------------------------------------------------------------------------
(* What docstrings and comments say, and the code does not always do. *)

\* "Search assets by semantic similarity", whatever types are asked for.
EveryFilterFinds ==
    Given /\ mode = "semantic" /\ ~missed /\ dropped = {} => steady.points \subseteq Elems(results) \/ Len(results) = limit

\* "Each org has its own Qdrant collection": no search meets another's points.
OwnCollection == dropped \subseteq Own

=============================================================================
