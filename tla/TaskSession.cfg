CONSTANTS
    Tests = {"Lifecycle", "InitExitCodes", "OutputThenExit", "Events", "FastExitInit",
             "Exec", "Clock", "StdioRoundTrip", "ExitCodes", "Hashverify",
             "LargeStdioRoundTrip", "StdinDetachReattach", "FastExitOutput",
             "ExecOutputDrainAfterExit", "ExecDiscardIO", "ExecCommandNotFound",
             "TransferCopyTo", "TransferCopyToAndFrom", "TransferExecVerify",
             "TransferMissing", "OutboundTCP", "OutboundUDP", "DNSResolve",
             "InboundTCPListen", "LoopbackWithinContainer", "UDSRoundTrip", "OOM",
             "HundredLayers", "StressEcho", "StressGuestMem", "StressBurstexit",
             "StressRoundTrip"}
    Chunks = 4
    PipeSize = 1
    MaxRepeats = 1
SPECIFICATION FairSpec
INVARIANTS TypeOK NoFalseAlarm TruncationCaught BreachCaught
PROPERTIES Terminates
CHECK_DEADLOCK FALSE
