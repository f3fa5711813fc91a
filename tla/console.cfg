SPECIFICATION FairSpec
CONSTANTS
    NoDialog = NoDialog
    Tabs = {t1}
    Saves = {a1, a2}
    Targets = {1, 2}
    FirstBudget = 1
    MaxBudget = 2
    MaxLoads = 2
INVARIANTS
    TypeOK
    SameEditFundsOnce
PROPERTY BusyEnds
