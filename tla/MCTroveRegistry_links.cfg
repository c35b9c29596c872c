CONSTANTS
    b1 = b1
    b2 = b2
    b3 = b3
    Null = Null
    Borrowers <- MCBorrowers
    MaxSize = 3
    AICRs = {0, 1, 2, 3}
    BoostFees = {0}
    BoostFactors = {0}
    DecayBases = {2}
    VCWeights <- MCNoWeights
    MaxTime = 0
    MaxBatch = 2
SPECIFICATION Spec
SYMMETRY BorrowerSymmetry
INVARIANTS
    WellLinked
    ListMatchesOwners
    OwnersIndexed
PROPERTIES
    RefinesTroveOrder
