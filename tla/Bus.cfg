SPECIFICATION Spec
CONSTANTS
    Readers = {r1, r2}
    Writers = {w1, w2}
    Cap = 2
    MaxInits = 2
    MaxSends = 3
    MaxReceives = 2
    MaxReopens = 2
    HastyCalls = FALSE
    ReopenDuringTerm = FALSE
SYMMETRY Symmetry
CHECK_DEADLOCK FALSE
INVARIANTS
    TypeOK
    SingleWorkers
    ReaderNeverStranded
    FlushIsSafe
    WriterNeverStranded
    TransmitFIFO
    DeliverFIFO
PROPERTIES
    TransmitChannel
    DeliverChannel
    QuiescentAfterTerm
