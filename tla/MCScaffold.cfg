SPECIFICATION Spec
CONSTANTS
    Bots = {b1, b2}
    None = None
    Protected <- ProtectsCode
    MaxCommands = 3
    MaxEdits = 1
SYMMETRY Symmetry
INVARIANTS
    CompleteWhenLocked
    NewIsFirst
PROPERTIES
    IdentitiesKept
    EditsSurvive
CHECK_DEADLOCK FALSE
