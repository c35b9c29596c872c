SPECIFICATION PartsSpec
CONSTANTS
    b1 = b1
    b2 = b2
    b3 = b3
    b4 = b4
    Borrowers <- MCBorrowers
    Keys = {1, 2, 3}
    Scale = 3
    Amounts <- MCAmounts
    Precision = 10
    f1 = f1
    f2 = f2
    Curves = {f1, f2}
    Params <- MCParams
    VCs = {2, 5, 8}
    MaxAdjusted = 2
    MaxCurveTime = 2
    RateUnit = 1000
    MinuteDecayFactor = 900
    Minute = 3
    RedemptionFloor = 5
    RedeemedFractions = {0, 200, 450}
    MaxRateTime = 12
    c1 = c1
    c2 = c2
    a1 = a1
    Accounts = {a1}
    Collaterals = {c1, c2}
    ThreeDays = ThreeDays
    TwoWeeks = TwoWeeks
    Locks = {ThreeDays, TwoWeeks}
    MinimumDelay <- MCDelay
    GracePeriod = 1
    Calls <- MCCalls
    MaxLockTime = 3
    MaxQueued = 1
    Unit = 100
    InitialMaxColls = 1
    Tokens = {0, 1, 2, 4}
    Index <- MCIndex
    Active <- MCActive
    FirstCollateral = 0
    Lists <- MCLists
    Farmers = {b1, b2}
    FarmUnit = 10
    LPAmounts = {1, 2}
    Programmes <- MCProgrammes
    FarmFunds = {5}
    MaxLP = 2
    MaxFarmTime = 3
    Depositors = {b1, b2}
    Decimals = 16
    ScaleFactor = 4
    Dust = 4
    Deposited = {0, 100}
    Offsets <- MCOffsets
    MaxOffsets = 3
    MaxDeposits = 200
INVARIANT PiecesMeet
