---------------------------- MODULE SpeakerNotes ----------------------------
(***************************************************************************)
(* presentation_service.py's strip_speaker_notes: what a viewer sees of a  *)
(* deck, without its speaker notes.  A note stands between two lines that  *)
(* are "???" but for blanks; the three parts go, with the newline after    *)
(* the second line.  The code does not look at every line: it jumps from   *)
(* one "???" of the text to the next.  Positions are counted from 1, and a *)
(* line ends at its newline or past the end of the text.                   *)
(***************************************************************************)
EXTENDS Naturals, Sequences, FiniteSets

CONSTANT Texts  \* the decks

Char == {"?", "blank", "newline", "other"}

ASSUME TextsAssumption == Texts \subseteq Seq(Char)

VARIABLES
    text,
    pos,     \* where the search goes on
    fences,  \* the fence lines found: <<where it starts, where it ends>>
    result,
    stage    \* "scan" or "done"

notesVars == <<text, pos, fences, result, stage>>

NotesTypeOK ==
    /\ text \in Seq(Char) /\ result \in Seq(Char)
    /\ pos \in 1 .. Len(text) + 1
    /\ stage \in {"scan", "done"}
    /\ fences \in Seq((1 .. Len(text)) \X (1 .. Len(text) + 1))
    /\ \A k \in 1 .. Len(fences) - 1 : fences[k][2] < fences[k + 1][1]

NotesInit ==
    /\ text \in Texts
    /\ pos = 1 /\ fences = << >>
    /\ result = << >> /\ stage = "scan"

-----------------------------------------------------------------------------
LeastOf(S) == CHOOSE x \in S : \A y \in S : x <= y
GreatestOf(S) == CHOOSE x \in S : \A y \in S : y <= x

\* Where "???" occurs at or after p: str.find, and there may be more than three.
Marks(t, p) ==
    {i \in p .. Len(t) : /\ i + 2 <= Len(t)
                         /\ \A j \in i .. i + 2 : t[j] = "?"}

Newlines(t) == {i \in 1 .. Len(t) : t[i] = "newline"}

LineStart(t, i) == 1 + GreatestOf({0} \cup {j \in Newlines(t) : j < i})
LineEnd(t, i) == LeastOf({Len(t) + 1} \cup {j \in Newlines(t) : i <= j})

\* What is in t from a to before b is "???" once stripped.
Bare(t, a, b) ==
    \E i \in a .. b : /\ i + 3 <= b
                      /\ \A j \in a .. b - 1 :
                            t[j] = IF j \in i .. i + 2 THEN "?" ELSE "blank"

\* Mutation: the search goes on at the mark just found.
GoOnHere(isFence, i, end) == IF isFence THEN end ELSE i

GoOn(isFence, i, end) == IF isFence THEN end ELSE i + 3

Scan ==
    /\ stage = "scan"
    /\ Marks(text, pos) # {}
    /\ LET i == LeastOf(Marks(text, pos))
           a == LineStart(text, i)
           b == LineEnd(text, i)
       IN  /\ pos' = GoOn(Bare(text, a, b), i, b)
           /\ fences' = IF Bare(text, a, b) THEN Append(fences, <<a, b>>) ELSE fences
    /\ UNCHANGED <<text, result, stage>>

\* Mutation: a fence without a partner begins a note as well.
NotesToggled(t, f) ==
    UNION {f[k][1] .. (IF k < Len(f) THEN f[k + 1][2] ELSE Len(t)) :
              k \in {j \in 1 .. Len(f) : j % 2 = 1}}

\* The fences pair up in order, and a last one without a partner stays.
Notes(t, f) ==
    UNION {f[k][1] .. f[k + 1][2] : k \in {j \in 1 .. Len(f) - 1 : j % 2 = 1}}

\* The j-th element of K, in order.
Nth(K, j) == CHOOSE i \in K : Cardinality({x \in K : x <= i}) = j

Without(t, S) ==
    LET kept == (1 .. Len(t)) \ S
    IN  [j \in 1 .. Cardinality(kept) |-> t[Nth(kept, j)]]

Return ==
    /\ stage = "scan"
    /\ Marks(text, pos) = {}
    /\ result' = Without(text, Notes(text, fences))
    /\ stage' = "done"
    /\ UNCHANGED <<text, pos, fences>>

NotesNext == Scan \/ Return

NotesSpec == NotesInit /\ [][NotesNext]_notesVars

\* The function is called and runs.
NotesFairSpec == NotesSpec /\ WF_notesVars(NotesNext)

-----------------------------------------------------------------------------
(* The reference reads line by line. *)

Fences(t) ==
    {a \in {LineStart(t, i) : i \in 1 .. Len(t)} : Bare(t, a, LineEnd(t, a))}

\* Position i is in a note if an odd number of fences come before its end and
\* one more follows, or if its line is itself one that closes a note.
InNote(t, i) ==
    LET a      == LineStart(t, i)
        before == Cardinality({f \in Fences(t) : f <= a})
    IN  \/ before % 2 = 1 /\ before < Cardinality(Fences(t))
        \/ before % 2 = 0 /\ a \in Fences(t)

\* The viewer gets every line outside the notes and none within, whatever the
\* marks in the text, and all of what follows a fence that has no partner; and
\* cutting a note never makes a new one of what was around it.
NotesAreStripped ==
    stage = "done" =>
        /\ result = Without(text, {i \in 1 .. Len(text) : InNote(text, i)})
        /\ Cardinality(Fences(result)) <= 1

\* The search always goes forward.
ScanEnds == <>(stage = "done")

=============================================================================
