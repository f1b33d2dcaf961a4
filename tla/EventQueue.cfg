SPECIFICATION FairSpec
CONSTANTS
    Producers = {p1, p2}
    Consumers = {c1, c2}
    Elem = {a, b, nil}
    Default = nil
    Cap = 2
    NoThread = NoThread
INVARIANTS
    TypeOK
    FlagTracksQueue
    NoLostWakeup
PROPERTIES
    ImplementsContract
    QueueDrains
