CONSTANTS
    VMHost = TRUE
SPECIFICATION AnsweringSpec
INVARIANTS TypeOK NoSilentPileUp 
PROPERTIES StopEnds
