SPECIFICATION Spec
CONSTANTS
    Markets <- MCMarkets
    Limits = {0, 2, 5}
    NoLimit = NoLimit
    Infeasible = Infeasible
    Deltas <- MCDeltas
    Rounding <- MCRounding
    Surplus = 3
INVARIANTS TypeOK QuoteFollowsPrices SizeIsBest
PROPERTIES MeetsContract
