CONSTANTS
    Slots = {s1, s2, s3}
    KindCount = 3
    NoOne = NoOne
    VMHost = FALSE
SPECIFICATION FairSpec
INVARIANTS TypeOK NoExecOutlives
PROPERTIES FailFast ImplementsSoak StopEnds
