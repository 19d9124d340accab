\* Two daemons that start and end in any order, three runs of export and import.
SPECIFICATION MCSpec
CONSTANTS
    d1 = d1
    d2 = d2
    i1 = i1
    i2 = i2
    None = None
    Daemons <- MCDaemons
    Inodes <- MCInodes
    MaxCommands = 3
INVARIANTS
    OneDaemonPerLockFile
    ImportedIsBacked
    OneBotPerStore
PROPERTIES
    ShutdownEnds
