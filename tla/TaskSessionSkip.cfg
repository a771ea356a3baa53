CONSTANTS
    Tests = {"OutboundTCP", "TransferCopyTo"}
    Chunks = 4
    PipeSize = 1
    MaxRepeats = 1
SPECIFICATION Spec
INVARIANTS SkipIsClean
CHECK_DEADLOCK FALSE
