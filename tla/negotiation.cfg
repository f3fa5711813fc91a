SPECIFICATION PriceSpec
CONSTANTS
    NoOffer = NoOffer
    Unsent = Unsent
    Partnerships = {p1}
    Workers = {w1, w2}
    CoinRates = {2, 3}
    GuestRates = {1, 3}
SYMMETRY Symmetric
INVARIANT PriceTypeOK
PROPERTIES
    PriceMovesByConsent
    LoneOverrideStands
    SuspensionHolds
