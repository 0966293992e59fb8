--------------------------- MODULE MCAccessTokens ---------------------------
(* A small instance of AccessTokens. *)
EXTENDS AccessTokens, TLC

CONSTANTS u1, o1, o2, own, r1

OwnOrgs == [u \in Users |-> own]

\* Nothing, or a permission that only an owner's role has.
SomeExtras == {{}, {<<"org", "delete">>}}

\* The organizations are interchangeable.
OrgSymmetry == Permutations(Orgs)
=============================================================================
