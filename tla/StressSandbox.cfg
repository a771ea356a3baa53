CONSTANTS
    VMHost = FALSE
    N = 3
SPECIFICATION FairSpec
INVARIANTS TypeOK NoMemberPileUp MembersAskedToGo
PROPERTIES FailFast ImplementsSoak StopEnds
