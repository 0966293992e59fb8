------------------------ MODULE MCPresentationLinks ------------------------
(* A small instance of PresentationLinks. *)
EXTENDS PresentationLinks, TLC

CONSTANTS s1, l1, u1, v1, v2, d1

\* A snapshot link, protected and expiring, and a live one.
TwoModes    == {s1, l1}
OneSnapshot == {s1}
OneUser     == {u1}
AllByOne    == [c \in Creates |-> u1]
TwoViews    == {v1, v2}
OneDelete   == {d1}

\* What a view has failed with, its count once committed, and what a delete has
\* used for the last time are read by no action and no property again.
Relevant ==
    <<fileVars, linkVars, pc, there,
      [v \in Views |-> IF pc[v] = "failed" THEN <<{}, 0, {}>>
                                          ELSE <<opened[v], got[v], acked[v]>>],
      [v \in Views |-> IF pc[v] = "recorded" THEN count[v] ELSE 0],
      [d \in Deletes |-> pc[d] \notin Answered /\ seenBlob[d]],
      [d \in Deletes |-> IF pc[d] = "revoking" THEN revoking[d] ELSE {}]>>

ViewSymmetry == Permutations(TwoViews)
=============================================================================
