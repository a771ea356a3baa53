CONSTANTS
    Count = 4
    Deadline = 12
    SoakBuffer = 5
    Durations = {1, 3}
SPECIFICATION SuiteSpec
INVARIANTS SuiteTypeOK BufferHolds
