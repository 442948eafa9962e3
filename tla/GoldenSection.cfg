SPECIFICATION Spec
CONSTANTS
    Markets <- MCMarkets
    Limits = {0, 13, 39}
    NoLimit = NoLimit
    Infeasible = Infeasible
    Depth = 6
    Fib <- MCFib
    Uppers = {1, 3}
    MaxBound = 4
    Lowest <- MCLowest
    Penalty <- MCPenalty
INVARIANTS ValuesAreCurrent PeakKept NearBest
PROPERTIES MeetsContract
