---------------------------- MODULE TroveManager ----------------------------
(***************************************************************************)
(* The books of the system: the troves and reward terms of                 *)
(* TroveManager.sol, the balances of ActivePool, DefaultPool,              *)
(* StabilityPool and CollSurplusPool, and the STAR supply.                 *)
(*                                                                         *)
(* The books are one record, and every internal function of the contract   *)
(* is an operator from books to books, so that a transaction that calls    *)
(* several of them composes them.  Commit makes the result the next state, *)
(* unless a subtraction went below zero: SafeMath would have reverted.     *)
(*                                                                         *)
(* A bundle of collateral is a function from tokens to amounts.  Ratios    *)
(* have the precision Percent, the reward terms the precision Scale; both  *)
(* are DECIMAL_PRECISION in the code.                                      *)
(***************************************************************************)
EXTENDS Addresses, Integers, Sequences, FiniteSets, SequencesExt, FiniteSetsExt, Functions

CONSTANTS
    ValidCollateral,    \* the tokens, in the order of the controller's list
    SafetyRatio,        \* per token, in Percent: what VC counts of the value
    RecoveryRatio,      \* per token, in Percent: what RVC counts
    AbsorptionColls,    \* tokens that absorb the debt of an orphaned one
    AbsorptionWeight,   \* their weights; they sum to Scale
    Scale, Percent, MCR, CCR,
    GasDivisor,         \* PERCENT_DIVISOR: coll paid to a liquidator is 1/GasDivisor
    GasCompensation,    \* STAR_GAS_COMPENSATION
    MinNetDebt,
    InitialSupply       \* STAR minted by initialize, against no debt

Tokens == Range(ValidCollateral)

MaxUint == 1000000

\* The controller lets no recovery ratio be below the safety ratio, and takes
\* weights of the absorption collaterals that add up to Scale only.  A token is
\* listed once: for the collaterals the controller sees to that, for those that
\* absorb it is left to the admin of the timelock.
ASSUME LedgerAssumption ==
    /\ ValidCollateral \in Seq(Tokens) /\ IsInjective(ValidCollateral)
    /\ SafetyRatio \in [Tokens -> Nat] /\ RecoveryRatio \in [Tokens -> Nat]
    /\ \A t \in Tokens : SafetyRatio[t] <= RecoveryRatio[t]
    /\ AbsorptionColls \in Seq(Tokens) /\ IsInjective(AbsorptionColls)
    /\ AbsorptionWeight \in [Range(AbsorptionColls) -> 0..Scale]
    /\ AbsorptionColls # <<>> => SumFunction(AbsorptionWeight) = Scale
    /\ {Scale, Percent, MCR, CCR, GasDivisor, MinNetDebt} \subseteq Nat \ {0}
    /\ {GasCompensation, InitialSupply} \subseteq Nat
    /\ MCR > Percent /\ CCR > MCR /\ MaxUint >= CCR
    /\ GasDivisor > 1

VARIABLES
    troves,     \* Troves and rewardSnapshots
    terms,      \* per token: stakes, L terms, error terms, system snapshots
    pools,      \* collateral and debt held by each pool
    star,       \* STAR: the supply, and what GasPool and StabilityPool hold
    price       \* of each token; the oracle's

books == [troves |-> troves, terms |-> terms, pools |-> pools, star |-> star]

Bundles == [Tokens -> Nat]
NoColl == [t \in Tokens |-> 0]
Plus(c, d) == [t \in Tokens |-> c[t] + d[t]]
Minus(c, d) == [t \in Tokens |-> c[t] - d[t]]
Only(t, amount) == [NoColl EXCEPT ![t] = amount]
HeldIn(c) == {t \in Tokens : c[t] # 0}

NoTrove == [status |-> "nonExistent", debt |-> 0, tokens |-> {}, colls |-> NoColl,
            stakes |-> NoColl, CollRewards |-> NoColl, STARDebts |-> NoColl]

NoTerms == [totalStakes |-> 0, totalStakesSnapshot |-> 0,
            totalCollateralSnapshot |-> 0, L_Coll |-> 0, L_STARDebt |-> 0,
            lastCollError |-> 0, lastSTARDebtError |-> 0]

BooksInit ==
    /\ troves = [b \in Borrowers |-> NoTrove]
    /\ terms = [t \in Tokens |-> NoTerms]
    /\ pools = [activeColl |-> NoColl, activeDebt |-> 0,
                defaultColl |-> NoColl, defaultDebt |-> 0,
                stabilityColl |-> NoColl, surplusColl |-> NoColl,
                surplusOf |-> [b \in Borrowers |-> NoColl]]
    /\ star = [supply |-> InitialSupply, gasPool |-> 0, stabilityPool |-> 0]

\* STAR held by anyone but the two pools.
circulating(s) == s.star.supply - s.star.gasPool - s.star.stabilityPool

NoUnderflow(s) ==
    /\ \A t \in Tokens :
          /\ s.terms[t].totalStakes >= 0
          /\ s.pools.activeColl[t] >= 0 /\ s.pools.defaultColl[t] >= 0
          /\ s.pools.surplusColl[t] >= 0
    /\ s.pools.activeDebt >= 0 /\ s.pools.defaultDebt >= 0
    /\ \A b \in Borrowers : s.troves[b].debt >= 0
    /\ \A b \in Borrowers, t \in Tokens : s.troves[b].colls[t] >= 0
    /\ s.star.gasPool >= 0 /\ s.star.stabilityPool >= 0 /\ circulating(s) >= 0

Commit(s) ==
    /\ NoUnderflow(s)
    /\ troves' = s.troves
    /\ terms' = s.terms
    /\ pools' = s.pools
    /\ star' = s.star

-----------------------------------------------------------------------------
(* Values and ratios.                                                      *)

USD(c) == SumFunction([t \in Tokens |-> c[t] * price[t]])
VC(c) == SumFunction([t \in Tokens |-> (c[t] * price[t] * SafetyRatio[t]) \div Percent])
RVC(c) == SumFunction([t \in Tokens |-> (c[t] * price[t] * RecoveryRatio[t]) \div Percent])

CR(value, debt) == IF debt = 0 THEN MaxUint ELSE (value * Percent) \div debt

SystemColl(s) == Plus(s.pools.activeColl, s.pools.defaultColl)
SystemDebt(s) == s.pools.activeDebt + s.pools.defaultDebt
TCR(s) == CR(RVC(SystemColl(s)), SystemDebt(s))
RecoveryMode(s) == TCR(s) < CCR

active(s, b) == s.troves[b].status = "active"
OwnersCount(s) == Cardinality({b \in Borrowers : active(s, b)})

-----------------------------------------------------------------------------
(* Pending rewards.                                                        *)

PendingColl(s, b) ==
    LET tr == s.troves[b]
    IN  [t \in Tokens |->
            IF active(s, b) /\ t \in tr.tokens
            THEN (tr.stakes[t] * (s.terms[t].L_Coll - tr.CollRewards[t])) \div Scale
            ELSE 0]

PendingDebt(s, b) ==
    LET tr == s.troves[b]
    IN  SumFunction([t \in Tokens |->
            IF active(s, b) /\ t \in tr.tokens
            THEN (tr.stakes[t] * (s.terms[t].L_STARDebt - tr.STARDebts[t])) \div Scale
            ELSE 0])

hasPendingRewards(s, b) ==
    /\ active(s, b)
    /\ \E t \in s.troves[b].tokens : s.troves[b].CollRewards[t] < s.terms[t].L_Coll

EntireColl(s, b) == Plus(s.troves[b].colls, PendingColl(s, b))
EntireDebt(s, b) == s.troves[b].debt + PendingDebt(s, b)

ICR(s, b) == CR(VC(EntireColl(s, b)), EntireDebt(s, b))
AICR(s, b) == CR(RVC(EntireColl(s, b)), EntireDebt(s, b))

MovePending(s, debt, colls) ==
    [s EXCEPT !.pools.defaultDebt = @ - debt,
              !.pools.activeDebt = @ + debt,
              !.pools.defaultColl = Minus(@, colls),
              !.pools.activeColl = Plus(@, colls)]

\* Only the tokens the trove holds now.
UpdateRewardSnapshots(s, b) ==
    [s EXCEPT !.troves[b].CollRewards =
                 [t \in Tokens |-> IF t \in s.troves[b].tokens
                                   THEN s.terms[t].L_Coll ELSE @[t]],
              !.troves[b].STARDebts =
                 [t \in Tokens |-> IF t \in s.troves[b].tokens
                                   THEN s.terms[t].L_STARDebt ELSE @[t]]]

\* Mutant: the debt is moved between the pools but not added to the trove.
ApplyPendingRewardsCollOnly(s, b) ==
    LET debt == PendingDebt(s, b)
        colls == PendingColl(s, b)
    IN  IF hasPendingRewards(s, b)
        THEN MovePending(
               UpdateRewardSnapshots([s EXCEPT !.troves[b].colls = Plus(@, colls)], b),
               debt, colls)
        ELSE s

ApplyPendingRewards(s, b) ==
    LET debt == PendingDebt(s, b)
        colls == PendingColl(s, b)
    IN  IF hasPendingRewards(s, b)
        THEN MovePending(
               UpdateRewardSnapshots(
                 [s EXCEPT !.troves[b] =
                    [s.troves[b] EXCEPT !.debt = EntireDebt(s, b),
                                        !.colls = EntireColl(s, b)]], b),
               debt, colls)
        ELSE s

-----------------------------------------------------------------------------
(* Stakes.                                                                 *)

\* Mutant: the total of the stakes keeps the removed one.
RemoveStakeOnly(s, b) ==
    [s EXCEPT !.troves[b].stakes =
                 [t \in Tokens |-> IF t \in s.troves[b].tokens THEN 0 ELSE @[t]]]

RemoveStake(s, b) ==
    LET tr == s.troves[b]
        stakeOf(t) == IF t \in tr.tokens THEN tr.stakes[t] ELSE 0
    IN  [s EXCEPT
            !.terms = [t \in Tokens |-> [s.terms[t] EXCEPT !.totalStakes = @ - stakeOf(t)]],
            !.troves[b].stakes = [t \in Tokens |-> @[t] - stakeOf(t)]]

\* _computeNewStake requires it ("TM:stake=0").
CanStake(s, t) ==
    s.terms[t].totalCollateralSnapshot # 0 => s.terms[t].totalStakesSnapshot # 0

ComputeNewStake(s, t, coll) ==
    IF s.terms[t].totalCollateralSnapshot = 0
    THEN coll
    ELSE (coll * s.terms[t].totalStakesSnapshot) \div s.terms[t].totalCollateralSnapshot

\* updateTroveCollAndStakeAndTotalStakes.  The stake of a token that is not in
\* the new list is not touched.
SetCollAndStake(s, b, tokens, colls) ==
    LET tr == s.troves[b]
        newStake(t) == IF t \in tokens THEN ComputeNewStake(s, t, colls[t])
                       ELSE tr.stakes[t]
    IN  [s EXCEPT
            !.troves[b].tokens = tokens,
            !.troves[b].colls = colls,
            !.troves[b].stakes = [t \in Tokens |-> newStake(t)],
            !.terms = [t \in Tokens |->
               [s.terms[t] EXCEPT !.totalStakes = @ - tr.stakes[t] + newStake(t)]]]

\* _closeTrove, which requires another trove to be left.  The owners' array and
\* the sorted list are in TroveOwners and SortedTroves.
CanClose(s) == OwnersCount(s) > 1

CloseTroveAs(s, b, status) ==
    LET tr == s.troves[b]
        cleared(c) == [t \in Tokens |-> IF t \in tr.tokens THEN 0 ELSE c[t]]
    IN  [s EXCEPT !.troves[b] =
            [tr EXCEPT !.status = status, !.debt = 0, !.tokens = {}, !.colls = NoColl,
                       !.CollRewards = cleared(tr.CollRewards),
                       !.STARDebts = cleared(tr.STARDebts)]]

-----------------------------------------------------------------------------
(* Redistribution.                                                         *)

\* Mutant: the remainder is added to the old one, which the numerator holds.
UpdateStakesErrorTwice(s, t, amount, debtNumerator, updateColl) ==
    LET total == s.terms[t].totalStakes
        collNumerator == amount * Scale + s.terms[t].lastCollError
    IN  [s EXCEPT
            !.terms[t].L_STARDebt = @ + (debtNumerator \div total),
            !.terms[t].lastSTARDebtError = @ + (debtNumerator % total),
            !.terms[t].L_Coll = IF updateColl THEN @ + (collNumerator \div total) ELSE @,
            !.terms[t].lastCollError = IF updateColl THEN collNumerator % total ELSE @]

\* Mutant: the amount per unit staked is rounded up.
UpdateStakesRoundedUp(s, t, amount, debtNumerator, updateColl) ==
    LET total == s.terms[t].totalStakes
        collNumerator == amount * Scale + s.terms[t].lastCollError
        perUnit == (debtNumerator + total - 1) \div total
    IN  [s EXCEPT
            !.terms[t].L_STARDebt = @ + perUnit,
            !.terms[t].lastSTARDebtError = debtNumerator - perUnit * total,
            !.terms[t].L_Coll = IF updateColl THEN @ + (collNumerator \div total) ELSE @,
            !.terms[t].lastCollError = IF updateColl THEN collNumerator % total ELSE @]

UpdateStakesOnRedistribution(s, t, amount, debtNumerator, updateColl) ==
    LET total == s.terms[t].totalStakes
        collNumerator == amount * Scale + s.terms[t].lastCollError
    IN  [s EXCEPT !.terms[t] = [s.terms[t] EXCEPT
            !.L_STARDebt = @ + (debtNumerator \div total),
            !.lastSTARDebtError = debtNumerator % total,
            !.L_Coll = IF updateColl THEN @ + (collNumerator \div total) ELSE @,
            !.lastCollError = IF updateColl THEN collNumerator % total ELSE @]]

CanAbsorb(s, a) == s.terms[a].totalStakes # 0 /\ AbsorptionWeight[a] # 0

\* Where in their list the absorption collaterals with stakes and a weight are;
\* the first of them also takes the weight of those without stakes.
Absorbers(s) == {i \in DOMAIN AbsorptionColls : CanAbsorb(s, AbsorptionColls[i])}

\* Mutant: every absorber takes the idle weight (unAllocatedAbsWeight not reset).
AbsorberWeightAll(s, a) ==
    LET idle == {x \in Range(AbsorptionColls) : s.terms[x].totalStakes = 0}
    IN  AbsorptionWeight[a] + SumFunction([x \in idle |-> AbsorptionWeight[x]])

AbsorberWeight(s, a) ==
    LET idle == {x \in Range(AbsorptionColls) : s.terms[x].totalStakes = 0}
    IN  AbsorptionWeight[a]
          + (IF a = AbsorptionColls[Min(Absorbers(s))]
             THEN SumFunction([x \in idle |-> AbsorptionWeight[x]]) ELSE 0)

\* One turn of the loop over them, in the books r; s are those it began with.
AbsorbShare(s, debt, r, a) ==
    IF CanAbsorb(s, a)
    THEN UpdateStakesOnRedistribution(r, a, 0,
             debt * AbsorberWeight(s, a) + r.terms[a].lastSTARDebtError, FALSE)
    ELSE r

AbsorbDebt(s, debt) ==
    FoldLeft(LAMBDA r, a : AbsorbShare(s, debt, r, a), s, AbsorptionColls)

\* Mutant: the orphan's collateral is moved to the DefaultPool as well.
LeftToMoveAll(colls, t) == colls

\* _amounts[i] = 0: what was sent to the claim address is not moved again.
LeftToMove(colls, t) == [colls EXCEPT ![t] = 0]

\* Each liquidated token carries its part of the debt.  A token nobody else has
\* a stake in is orphaned: its collateral goes to the claim address, its debt
\* to the absorption collaterals, and the call reverts when there are none.
RedistributeToken(r, t, amount, debt) ==
    IF r.books.terms[t].totalStakes # 0
    THEN [r EXCEPT !.books = UpdateStakesOnRedistribution(@, t, amount,
             debt * Scale + @.terms[t].lastSTARDebtError, TRUE)]
    ELSE [ok |-> r.ok /\ Absorbers(r.books) # {},
          left |-> LeftToMove(r.left, t),
          books |-> [AbsorbDebt(r.books, debt) EXCEPT !.pools.activeColl[t] = @ - amount]]

MoveToDefaultPool(r, debt) ==
    [ok |-> r.ok,
     books |-> [r.books EXCEPT
         !.pools.activeDebt = @ - debt,
         !.pools.defaultDebt = @ + debt,
         !.pools.activeColl = Minus(@, r.left),
         !.pools.defaultColl = Plus(@, r.left)]]

\* One turn of the loop over the tokens: each carries the part of the debt that
\* its value is of the whole.
RedistributeShare(debt, tokens, colls, r, t) ==
    IF t \notin tokens THEN r
    ELSE RedistributeToken(r, t, colls[t], (VC(Only(t, colls[t])) * debt) \div VC(colls))

RedistributeTokens(start, debt, tokens, colls) ==
    FoldLeft(LAMBDA r, t : RedistributeShare(debt, tokens, colls, r, t),
             start, ValidCollateral)

RedistributeDebtAndColl(s, debt, tokens, colls) ==
    IF debt = 0 THEN [books |-> s, ok |-> TRUE]
    ELSE IF VC(colls) = 0 THEN [books |-> s, ok |-> FALSE]
    ELSE MoveToDefaultPool(
             RedistributeTokens([books |-> s, left |-> colls, ok |-> TRUE],
                                debt, tokens, colls),
             debt)

UpdateSystemSnapshots(s, tokens, gasColl) ==
    [s EXCEPT !.terms = [t \in Tokens |->
        IF t \in tokens
        THEN [s.terms[t] EXCEPT
                !.totalStakesSnapshot = s.terms[t].totalStakes,
                !.totalCollateralSnapshot = SystemColl(s)[t] - gasColl[t]]
        ELSE s.terms[t]]]

\* _redeemCloseTrove and accountSurplus, in the books of CollSurplusPool.
AccountSurplus(s, b, colls) ==
    [s EXCEPT !.pools.surplusOf[b] = Plus(@, colls)]

SendSurplus(s, colls) ==
    [s EXCEPT !.pools.activeColl = Minus(@, colls),
              !.pools.surplusColl = Plus(@, colls)]

Burn(s, amount) ==
    [s EXCEPT !.pools.activeDebt = @ - amount, !.star.supply = @ - amount]

=============================================================================
