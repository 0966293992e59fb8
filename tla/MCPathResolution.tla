-------------------------- MODULE MCPathResolution --------------------------
(* A small instance of PathResolution, with the tree request beside it. *)
EXTENDS PathResolution, TLC

CONSTANTS a1, a2, a3, root, d1

ThreeAssets == {a1, a2, a3}
OneDelete   == {d1}

\* Assets are interchangeable.
ThreeSymmetry == Permutations(ThreeAssets)
=============================================================================
