CONSTANTS
    Subtests = {stat, write, read}
    NoOne = NoOne
    VMHost = TRUE
SPECIFICATION FairSpec
INVARIANTS TypeOK FailureReported BlamedInTime QuiescentShutdown
PROPERTIES ImplementsSoak StopEnds
