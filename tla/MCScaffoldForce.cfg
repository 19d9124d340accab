SPECIFICATION Spec
CONSTANTS
    Bots = {b1}
    None = None
    Protected <- ProtectsCode
    MaxCommands = 2
    MaxEdits = 0
PROPERTY ForceOverrides
CHECK_DEADLOCK FALSE
