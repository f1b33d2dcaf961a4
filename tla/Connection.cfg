SPECIFICATION FairSpec
CONSTANTS
    Conns = {c1, c2}
    Listeners = {l1, l2}
    Apps = {a1}
    Addresses <- TwoAddresses
    MaxNodes = 3
    MaxFrames = 1
    MaxSessions = 1
    CloseBeforeStop = TRUE
CHECK_DEADLOCK FALSE
INVARIANTS
    TypeOK
    IteratorValid
    ClosedIsSilent
    ClosedIsUnreferenced
    EveryoneNotified
PROPERTIES
    NoCircularWait
