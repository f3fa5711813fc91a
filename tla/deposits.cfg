SPECIFICATION Spec
CONSTANTS
    NoKey = NoKey
    NoCharge = NoCharge
    Campaigns = {c1}
    Payments = {p1}
    Workers = {w1}
    Charges = {h1}
    Keys = {k1}
    Coins = {3}
    Adjustments <- Clawback
    SelfFunding = TRUE
    Capacity = 8
    MaxClock = 1
    MaxAudits = 1
INVARIANT AcknowledgedIsDone
PROPERTY KeepsDeposits
