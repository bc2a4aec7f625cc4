SPECIFICATION Spec
CONSTANTS
    Keys = {"a", "b"}
    Values <- MCValues
    NoteValues <- MCNoteValues
    Offsets = {0, 8}
    Spare <- MCSpare
    MaxItems = 2
    MaxNotes = 2
    MaxParses = 2
INVARIANTS TypeOK ByKey ByIndex PointersResolve NoParseError
