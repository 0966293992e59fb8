\* All decks of up to five pieces and of up to five lines.
CONSTANTS
    Texts        <- AllDecks
    MaxPieces    = 5
    MaxLines     = 5
SPECIFICATION NotesFairSpec
INVARIANT NotesAreStripped
PROPERTY ScanEnds
CHECK_DEADLOCK FALSE
