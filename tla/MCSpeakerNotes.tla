--------------------------- MODULE MCSpeakerNotes ---------------------------
(* All decks of a few pieces, and all of a few lines. *)
EXTENDS SpeakerNotes, SequencesExt

CONSTANTS MaxPieces, MaxLines

Fence == <<"?", "?", "?">>
Pieces == {Fence, <<"?">>, <<"blank">>, <<"other">>, <<"newline">>}

Decks == {FlattenSeq(p) : p \in UNION {[1 .. k -> Pieces] : k \in 0 .. MaxPieces}}

\* Decks of whole lines: fences, indented fences, and lines that only hold one.
Lines == {Fence, <<"blank">> \o Fence, <<"?">> \o Fence, <<"other">>, << >>}

Joined(p) == FlattenSeq([i \in DOMAIN p |-> IF i < Len(p) THEN p[i] \o <<"newline">> ELSE p[i]])
LineDecks == {Joined(p) : p \in UNION {[1 .. k -> Lines] : k \in 0 .. MaxLines}}

AllDecks == Decks \cup LineDecks
=============================================================================
