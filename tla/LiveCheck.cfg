SPECIFICATION Spec
CONSTANTS
    W = 4
    Aggregate3 = 91
    Huge = Huge
    Chains <- MCChains
    Blocks = {1, 2}
    UniswapPair = 51
    ThreePool = 52
    NoCode = 53
    Token0 = 61
    Token1 = 62
    GetReserves = 71
    GetToken0 = 72
    GetToken1 = 73
    GetDecimals = 74
    GetBalance = 75
    GetA = 76
    GetFee = 77
    DecimalsOf <- MCDecimalsOf
    FeeUnit = 10
    MaxRaw = 50
    MaxDecimals = 20
    U32 = 60
INVARIANTS SizesOneBlock HealthyRunDecodes
PROPERTIES RunEnds
