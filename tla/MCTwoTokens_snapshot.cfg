SPECIFICATION Spec
CONSTANTS
    t1 = t1
    t2 = t2
    b1 = b1
    b2 = b2
    b3 = b3
    Borrowers = {b1, b2, b3}
    ValidCollateral <- TwoTokens
    SafetyRatio <- FullValue
    RecoveryRatio <- FullValue
    AbsorptionColls <- MCAbsorbers
    AbsorptionWeight <- MCWeights
    Scale = 100
    Percent = 100
    MCR = 110
    CCR = 150
    GasDivisor = 8
    GasCompensation = 1
    MinNetDebt = 2
    InitialSupply = 40
    Openings <- ThreeKinds
    Adjustments <- AddSecond
    RedeemAmounts = {}
    DepositAmounts = {}
    BorrowingFees = {0}
    VariableFees = {0}
    Prices <- MCPrices
    InitialPrice <- High
    MaxBatch = 1
    MaxSteps = 7
SYMMETRY Symmetry
PROPERTY
    StakeSnapshotted
CHECK_DEADLOCK FALSE
