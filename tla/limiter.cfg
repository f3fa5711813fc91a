SPECIFICATION FairSpec
CONSTANTS
    i1 = i1
    i2 = i2
    r1 = r1
    r2 = r2
    Instances = {i1, i2}
    Requests = {r1, r2}
    InstanceOf <- TwoReplicas
    Limit = 2
    Window = 2
INVARIANTS
    LimiterTypeOK
    DegradesToInstances
PROPERTY RefusalsEnd
