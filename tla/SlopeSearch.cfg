SPECIFICATION Spec
CONSTANTS
    Markets <- MCMarkets
    Limits = {0, 3, 20}
    NoLimit = NoLimit
    Infeasible = Infeasible
    Steps = {0, 1, 2, 5}
    One = 5
    Resolution = 4
    PowerPrecision = 1
    MaxDoublings = 3
    MaxIterations = 6
INVARIANTS BracketHolds NearRoot
PROPERTIES MeetsContract SearchEnds
