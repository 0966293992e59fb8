--------------------------- MODULE AssetLifecycle ---------------------------
(***************************************************************************)
(* What the upload pipeline promises of each file, whatever interleaves    *)
(* and whatever fails: a name is reserved, it becomes available only when  *)
(* its content is in the bucket, the content stays there until the file is *)
(* gone, and a file that is gone never comes back.                         *)
(***************************************************************************)
CONSTANT Assets

VARIABLES
    phase,      \* "absent", "reserved", "available" or "gone"
    content     \* the file's object is in the bucket

lifecycleVars == <<phase, content>>

Init ==
    /\ phase   = [a \in Assets |-> "absent"]
    /\ content = [a \in Assets |-> FALSE]

Reserve(a) ==
    /\ phase[a] = "absent"
    /\ phase' = [phase EXCEPT ![a] = "reserved"]
    /\ UNCHANGED content

Fill(a) ==
    /\ phase[a] # "absent"
    /\ content' = [content EXCEPT ![a] = TRUE]
    /\ UNCHANGED phase

MakeAvailable(a) ==
    /\ phase[a] = "reserved"
    /\ content[a]
    /\ phase' = [phase EXCEPT ![a] = "available"]
    /\ UNCHANGED content

Remove(a) ==
    /\ phase[a] \in {"reserved", "available"}
    /\ phase' = [phase EXCEPT ![a] = "gone"]
    /\ UNCHANGED content

Reclaim(a) ==
    /\ phase[a] = "gone"
    /\ content' = [content EXCEPT ![a] = FALSE]
    /\ UNCHANGED phase

Next ==
    \E a \in Assets :
        Reserve(a) \/ Fill(a) \/ MakeAvailable(a) \/ Remove(a) \/ Reclaim(a)

Spec == Init /\ [][Next]_lifecycleVars
=============================================================================
