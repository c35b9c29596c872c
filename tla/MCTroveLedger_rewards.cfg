SPECIFICATION Spec
CONSTANTS
    t1 = t1
    b1 = b1
    b2 = b2
    b3 = b3
    Borrowers = {b1, b2, b3}
    ValidCollateral <- OneToken
    SafetyRatio <- FullValue
    RecoveryRatio <- FullValue
    AbsorptionColls <- NoTokens
    AbsorptionWeight <- NoWeights
    Scale = 100
    Percent = 100
    MCR = 110
    CCR = 150
    GasDivisor = 8
    GasCompensation = 1
    MinNetDebt = 2
    InitialSupply = 4
    Openings <- RiskyOrSafe
    Adjustments <- MCOneAdjustment
    RedeemAmounts = {}
    DepositAmounts = {3}
    BorrowingFees = {0}
    VariableFees = {0}
    Prices <- MCPrices
    InitialPrice <- High
    MaxBatch = 1
    MaxSteps = 11
SYMMETRY Symmetry
PROPERTIES
    RefinesRewardPool
CHECK_DEADLOCK FALSE
