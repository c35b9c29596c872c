SPECIFICATION StoreSpec
CONSTANTS
    s1 = s1
    s2 = s2
    t1 = t1
    t2 = t2
    Stores = {s1, s2}
    NoStore = NoStore
    Chains <- MCChains
INVARIANT
    DebtOfItsBlock
CHECK_DEADLOCK FALSE
