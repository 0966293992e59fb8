------------------------------ MODULE MCEventBus ------------------------------
(* A small instance of EventBus. *)
EXTENDS EventBus

CONSTANTS p1, c1, o1, o2

OrgOne == [c \in Clients |-> o1]
=============================================================================
