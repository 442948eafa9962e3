SPECIFICATION Spec
CONSTANTS
    Opps = {o1, o2}
    Curves <- MCCurves
    Budgets = {1, 3, 5}
    FirstLambda = 36
    MaxDoublings = 2
    MaxBisections = 4
    Rounding = 1
    InverseTolerance = 4
    Unit = 3
INVARIANTS TypeOK BracketHolds BestUseOfCapital BudgetUpToRounding ShadowPriceSettled
