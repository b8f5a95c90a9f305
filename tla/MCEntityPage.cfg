SPECIFICATION Spec
CONSTANTS
    r1 = r1
    r2 = r2
    Entities = {e1}
    Facts = {1, 2}
    MaxAtoms = 1
    Regenerators = {r1, r2}
    Writers = {w1}
    Editors = {u1}
    Notes = {n1}
    LlmNotes = LlmNotes
    NoNotes = NoNotes
    MaxVersion = 2
    MaxAttempts = 1
SYMMETRY Symmetry
CHECK_DEADLOCK FALSE
INVARIANTS TypeOK SnapshotsValid CleanPageIsCurrent JournalNeverAhead
PROPERTIES UserNotesSurvive LateResultIsInert ImplementsContract
