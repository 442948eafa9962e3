SPECIFICATION Spec
CONSTANTS
    Configs <- MCConfigs
    Contents <- MCContents
    PoolProfit <- MCPoolProfit
    RouteProfit <- MCRouteProfit
    MaxBlock = 2
    MaxUpdates = 2
    MaxU64 = 9
    MaxDecimal = 1000
INVARIANTS TypeOK MatchesInstant LabelIsOldestLeg PanicKeepsEarlier
