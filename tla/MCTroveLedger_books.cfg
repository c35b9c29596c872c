SPECIFICATION Spec
CONSTANTS
    t1 = t1
    b1 = b1
    b2 = b2
    b3 = b3
    Borrowers = {b1, b2, b3}
    ValidCollateral <- OneToken
    SafetyRatio <- FullValue
    RecoveryRatio <- FullValue
    AbsorptionColls <- NoTokens
    AbsorptionWeight <- NoWeights
    Scale = 100
    Percent = 100
    MCR = 110
    CCR = 150
    GasDivisor = 8
    GasCompensation = 1
    MinNetDebt = 2
    InitialSupply = 4
    Openings <- MCOpenings
    Adjustments <- MCAdjustments
    RedeemAmounts = {12}
    DepositAmounts = {5, 13}
    BorrowingFees = {0, 3}
    VariableFees = {0}
    Prices <- MCPrices
    InitialPrice <- High
    MaxBatch = 2
    MaxSteps = 6
SYMMETRY Symmetry
INVARIANTS
    TypeOK
    ActivePoolAgrees
    SupplyBacked
    ReservesExact
PROPERTIES
    OpenAndCloseKeepNormalMode
    LiquidatedWereRisky
    RedemptionIsFair
CHECK_DEADLOCK FALSE
