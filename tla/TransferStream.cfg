CONSTANTS
    Kinds = {"to", "from", "stat"}
    Chunks = 4
    Window = 2
SPECIFICATION FairSpec
INVARIANTS TypeOK NoFalseAlarm CopyIsWhole
PROPERTIES Returns
CHECK_DEADLOCK FALSE
