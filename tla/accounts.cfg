SPECIFICATION Spec
CHECK_DEADLOCK FALSE
CONSTANTS
    Promoters = {m1}
    Publishers = {p1}
    Workers = {w1, w2, w3}
INVARIANTS
    TypeOK
    NoOrphans
PROPERTY SuspendedStopsEarning
