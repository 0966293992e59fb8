------------------------ MODULE MCIdentityResolution ------------------------
(* A small instance of IdentityResolution. *)
EXTENDS IdentityResolution

CONSTANTS r1, r2, p1, p2

\* A bridged token, a native one with a claim, and one without a numeric uid.
Bridged == [uid |-> TRUE, trusted |-> FALSE, claim |-> 1]
Native  == [uid |-> TRUE, trusted |-> TRUE, claim |-> 1]
Foreign == [uid |-> FALSE, trusted |-> TRUE, claim |-> 2]

AllTokens == {Bridged, Native, Foreign}

TwoProcs == [r \in Requests |-> IF r = r1 THEN p1 ELSE p2]

\* Roles 11 and 12 in the organizations, none in the derived one.
SomeRoles == [o \in Orgs |-> IF o = Derived THEN None ELSE 10 + o]
=============================================================================
