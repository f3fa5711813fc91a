SPECIFICATION FairSpec
CONSTANTS
    NoKey = NoKey
    NoCharge = NoCharge
    Campaigns = {c1}
    Payments = {p1, p2}
    Workers = {w1, w2}
    Charges = {h1, h2}
    Keys = {}
    Coins = {3}
    Adjustments <- NoAdjustments
    SelfFunding = FALSE
    Capacity = 8
    MaxClock = 0
    MaxAudits = 2
INVARIANTS
    TypeOK
    CreditedIffCompleted
    AuditedOnce
PROPERTY ReportedIsDecided
