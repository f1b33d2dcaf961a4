SPECIFICATION Spec
CONSTANTS
    Apps = {t1, t2}
    Conns = {c1, c2}
    Addrs <- AddrValues
    Frames = {f1}
    MaxAdds = 2
    MaxQueue = 1
SYMMETRY Symmetric
INVARIANTS
    TypeOK
    ListIsRegistered
    InitiatorAuthentic
    SourceEnforced
    QueuedUnaltered
