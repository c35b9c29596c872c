CONSTANTS
    b1 = b1
    b2 = b2
    b3 = b3
    Null = Null
    Borrowers <- MCTwoBorrowers
    MaxSize = 2
    AICRs = {1, 2}
    BoostFees = {0, 2}
    BoostFactors = {0, 1}
    DecayBases = {1, 2}
    VCWeights <- MCVCWeights
    MaxTime = 2
    MaxBatch = 1
SPECIFICATION Spec
SYMMETRY TwoBorrowerSymmetry
INVARIANTS
    SortedByOldBoostedAICR
PROPERTIES
    DecayedBoostOnlyBought
