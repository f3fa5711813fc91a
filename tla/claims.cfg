SPECIFICATION Spec
CONSTANTS
    c1 = c1
    p1 = p1
    o1 = o1
    o2 = o2
    q1 = q1
    NoUser = NoUser
    Campaigns <- OneCampaign
    Partnerships <- OnePartnership
    Publishers <- TwoPublishers
    Codes <- OneCode
    Scans <- TwoScans
    Users = {u1, u2}
    Workers = {w1, w2}
    PartnershipOf <- PartnershipOfAll
    PublisherOf <- PublisherOfAll
    ModeOf <- EngagementMode
    CampaignOf <- CampaignOfAll
    CodeOf <- CodeOfAll
    MaxUses <- UsedTwice
    RateCards <- OneCard
    FirstCard <- Standard
    InitialBudget = 6
    FundingAmounts <- NoAmounts
    AdjustAmounts <- NoAmounts
    MaxFundings = 1
SYMMETRY Symmetric
INVARIANTS
    TypeOK
    NoOverdraft
    OneRewardPerEvidence
    EvidenceSpentIffPaid
    LocksProtect
PROPERTY VoidedCodeIsDead
