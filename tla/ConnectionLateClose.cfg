SPECIFICATION Spec
CONSTANTS
    Conns = {c1, c2}
    Listeners = {l1}
    Apps = {a1}
    Addresses <- OneAddress
    MaxNodes = 2
    MaxFrames = 1
    MaxSessions = 2
    CloseBeforeStop = FALSE
CHECK_DEADLOCK FALSE
INVARIANTS
    ClosedIsSilent
