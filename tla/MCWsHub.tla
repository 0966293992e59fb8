------------------------------ MODULE MCWsHub ------------------------------
(* A small instance of WsHub: model values for its sets. *)
EXTENDS WsHub, TLC

CONSTANTS c1, c2, c3, a1, p1, p2, o1

ThreeSymmetry == Permutations({c1, c2, c3})

OneOrg   == [c \in Conns |-> o1]
OneProc  == [c \in Conns |-> p1]
TwoProcs == [c \in Conns |-> IF c = c1 THEN p1 ELSE p2]
=============================================================================
