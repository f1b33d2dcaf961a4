SPECIFICATION FairSpec
CONSTANTS
    Readers = {r1}
    Writers = {w1}
    Cap = 1
    MaxInits = 2
    MaxSends = 2
    MaxReceives = 2
    MaxReopens = 1
    HastyCalls = FALSE
    ReopenDuringTerm = FALSE
CHECK_DEADLOCK FALSE
PROPERTIES
    TermReturns
    AsyncSettles
    ReceiveSettles
