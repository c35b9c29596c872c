SPECIFICATION PageSpec
CONSTANTS
    k1 = k1
    k2 = k2
    k3 = k3
    s1 = s1
    s2 = s2
    t1 = t1
    t2 = t2
    Stores = {s1, s2}
    NoStore = NoStore
    Chains <- MCChains
    BlockKeys = {k1}
    ReceiptKeys = {k2}
    Waiters = {k3}
    MaxOpened = 2
    MaxInUse = 2
    Transactions = {k1, k2}
    Ids = {1, 2}
    NoTransaction = NoTransaction
    MaxProviders = 1
    Calls = {k1, k2, k3}
    Tags = {5}
    Latest = 0
    Waiting = 10
    Failure = 20
INVARIANTS
    ShownIsCurrent
    CollateralOfItsBlock
    NeverDeaf
PROPERTIES
    ShownAtLast
    ConfirmedWasMonitored
    WaitEnds
    ConfirmationEnds
    EveryCallAnswered
CHECK_DEADLOCK FALSE
