SPECIFICATION FairSpec
CONSTANTS
    Readers = {r1}
    Writers = {w1}
    Cap = 1
    MaxInits = 1
    MaxSends = 0
    MaxReceives = 0
    MaxReopens = 0
    HastyCalls = FALSE
    ReopenDuringTerm = TRUE
CHECK_DEADLOCK FALSE
PROPERTIES
    TermReturns
