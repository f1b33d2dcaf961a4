SPECIFICATION Spec
CONSTANTS
    Readers = {r1, r2}
    Writers = {w1, w2}
    Cap = 1
    MaxInits = 3
    MaxSends = 0
    MaxReceives = 0
    MaxReopens = 0
    HastyCalls = TRUE
    ReopenDuringTerm = FALSE
SYMMETRY Symmetry
CHECK_DEADLOCK FALSE
PROPERTIES
    QuiescentAfterTerm
