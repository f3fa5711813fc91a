SPECIFICATION Spec
CONSTANTS
    c1 = c1
    p1 = p1
    o1 = o1
    o2 = o2
    q1 = q1
    NoUser = NoUser
    Campaigns <- OneCampaign
    Partnerships <- OnePartnership
    Publishers <- TwoPublishers
    Codes <- OneCode
    Scans <- OneScan
    Users = {u1, u2}
    Workers = {w1, w2}
    PartnershipOf <- PartnershipOfAll
    PublisherOf <- PublisherOfAll
    ModeOf <- AcquisitionMode
    CampaignOf <- CampaignOfAll
    CodeOf <- CodeOfAll
    MaxUses <- UsedTwice
    RateCards <- ThreeCards
    FirstCard <- Standard
    InitialBudget = 5
    FundingAmounts <- TopUp
    AdjustAmounts <- Clawback
    MaxFundings = 2
SYMMETRY Symmetric
INVARIANTS
    BooksAgree
    RefsBalance
    ChargedOnePrice
PROPERTY KeepsPromise
