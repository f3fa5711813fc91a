SPECIFICATION Spec
CONSTANTS
    c1 = c1
    c2 = c2
    o1 = o1
    q1 = q1
    Workers = {w1, w2, w3}
    Campaigns = {c1, c2}
    Codes = {q1}
    Scans = {s1, s2}
    Publishers = {o1}
    PublisherOf <- PublisherOfAll
    CampaignOf <- CampaignOfAll
    CodeOf <- CodeOfAll
SYMMETRY Symmetry
INVARIANTS
    TypeOK
    OnlyKnownDeadlocks
