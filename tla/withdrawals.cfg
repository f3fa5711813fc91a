SPECIFICATION FairSpec
CONSTANTS
    Publishers = {p1, p2}
    Ids = {i1, i2}
    Workers = {w1, w2}
    Coins = {1, 2}
    MaxEarned = 2
INVARIANTS
    TypeOK
    QueueCovered
    DecidedOnce
PROPERTIES
    KeepsPurse
    RequestsEnd
CHECK_DEADLOCK FALSE
