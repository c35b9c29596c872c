----------------------------- MODULE TroveLedger -----------------------------
(***************************************************************************)
(* The books of TroveManager under all the transactions that touch them:   *)
(* borrowers opening, adjusting and closing, batch liquidations in either  *)
(* mode, redemptions, StabilityPool deposits, surplus claims, and the      *)
(* oracle moving prices between them.  A transaction is one step.          *)
(***************************************************************************)
EXTENDS BorrowerOperations, Liquidations, Redemptions

CONSTANTS
    Openings,        \* what may be opened: records [colls, amount]
    Adjustments,     \* records [collsIn, collsOut, change]
    RedeemAmounts, DepositAmounts,
    BorrowingFees, VariableFees,
    Prices,          \* functions from tokens to prices
    InitialPrice,
    MaxBatch,        \* bound on the troves a batch or a redemption names
    MaxSteps         \* bound on the transactions and price changes of a run

ASSUME InputsAssumption ==
    /\ \A o \in Openings : o.colls \in Bundles /\ o.amount \in Nat
    /\ \A a \in Adjustments :
          a.collsIn \in Bundles /\ a.collsOut \in Bundles /\ a.change \in Int
    /\ UNION {RedeemAmounts, DepositAmounts, BorrowingFees, VariableFees} \subseteq Nat
    /\ Prices \subseteq Bundles /\ InitialPrice \in Prices
    /\ MaxBatch \in Nat /\ MaxSteps \in Nat

VARIABLE steps

vars == <<troves, terms, pools, star, price, steps>>

Init ==
    /\ BooksInit
    /\ price = InitialPrice
    /\ steps = 0

ChangePrice(p) ==
    /\ price' = p
    /\ p # price
    /\ UNCHANGED <<troves, terms, pools, star>>

Batches == UNION {[1..k -> Borrowers] : k \in 1..MaxBatch}
Walks == {w \in Batches : IsInjective(w)}

Borrow ==
    \E b \in Borrowers :
       \/ \E o \in Openings, f \in BorrowingFees, v \in VariableFees :
             OpenTrove(b, o.colls, o.amount, f, v)
       \/ \E a \in Adjustments, f \in BorrowingFees, v \in VariableFees :
             AdjustTrove(b, a.collsIn, a.collsOut, a.change, f, v)
       \/ CloseTrove(b)
       \/ ClaimCollateral(b)

Liquidate == \E batch \in Batches : BatchLiquidateTroves(batch)

Redeem ==
    \E amount \in RedeemAmounts, hintIsClose \in BOOLEAN :
       \/ \E walk \in Walks : RedeemCollateral(walk, amount, hintIsClose)
       \/ \E b \in Borrowers, t \in Tokens :
             RedeemCollateralSingle(b, t, amount, hintIsClose)

UseStabilityPool ==
    \E amount \in DepositAmounts :
       \/ ProvideToSP(amount)
       \/ \E b \in Borrowers : WithdrawFromSP(amount, b)

Next ==
    /\ steps < MaxSteps
    /\ steps' = steps + 1
    /\ \/ Borrow
       \/ Liquidate
       \/ Redeem
       \/ UseStabilityPool
       \/ \E p \in Prices : ChangePrice(p)

Spec == Init /\ [][Next]_vars

-----------------------------------------------------------------------------

\* Amounts stay natural numbers through every rounding and settlement: nothing
\* is taken from a pool or a trove that it does not hold.
TypeOK ==
    /\ troves \in [Borrowers ->
          [status : {"nonExistent", "active", "closedByOwner",
                     "closedByLiquidation", "closedByRedemption"},
           debt : Nat, tokens : SUBSET Tokens, colls : Bundles, stakes : Bundles,
           CollRewards : Bundles, STARDebts : Bundles]]
    /\ terms \in [Tokens ->
          [totalStakes : Nat, totalStakesSnapshot : Nat,
           totalCollateralSnapshot : Nat, L_Coll : Nat, L_STARDebt : Nat,
           lastCollError : Nat, lastSTARDebtError : Nat]]
    /\ pools \in [activeColl : Bundles, activeDebt : Nat, defaultColl : Bundles,
                  defaultDebt : Nat, stabilityColl : Bundles, surplusColl : Bundles,
                  surplusOf : [Borrowers -> Bundles]]
    /\ star \in [supply : Nat, gasPool : Nat, stabilityPool : Nat]
    /\ price \in Prices
    /\ steps \in 0..MaxSteps

SumOver(f(_)) == SumFunction([b \in Borrowers |-> f(b)])

\* ActivePool's debt is what the troves' own records add up to, through every
\* order of openings, repayments, offsets, redistributions and redemptions
\* (increaseSTARDebt and decreaseSTARDebt are called from five contracts).
ActiveDebtExact == pools.activeDebt = SumOver(LAMBDA b : troves[b].debt)

\* ActivePool holds at least the collateral the troves record.  It may hold
\* more: the crumbs of a fully offset liquidation stay in it.
ActiveCollCovers ==
    \A t \in Tokens : pools.activeColl[t] >= SumOver(LAMBDA b : troves[b].colls[t])

\* The ActivePool agrees with the troves in both of its books, whichever of the
\* paths that close a trove or apply its rewards was taken.
ActivePoolAgrees == ActiveDebtExact /\ ActiveCollCovers

\* DefaultPool can pay the pending debt and collateral of all the troves at
\* once; were it short, the last to be touched could never be.
DefaultPoolCovers ==
    /\ pools.defaultDebt >= SumOver(LAMBDA b : PendingDebt(books, b))
    /\ \A t \in Tokens :
          pools.defaultColl[t] >= SumOver(LAMBDA b : PendingColl(books, b)[t])

\* totalStakes, which a redistribution divides by, is the sum of the stakes,
\* whoever has them: a trove that withdraws all it holds of a token keeps its
\* stake in it, even once it is closed, and the total keeps it too.
StakesAddUp ==
    \A t \in Tokens : terms[t].totalStakes = SumOver(LAMBDA b : troves[b].stakes[t])

\* A new stake can always be computed, and a trove with the token opened: the
\* comment of _computeNewStake says that its require never fails, for without
\* stakes there would be no collateral in the snapshot either.
StakesComputable == \A t \in Tokens : CanStake(books, t)

\* Every STAR beyond the initial mint is owed by some trove; rounding the fee's
\* halves down may leave debt without STAR, never STAR without debt.
SupplyBacked == star.supply <= InitialSupply + SystemDebt(books)

\* GasPool holds one compensation for each active trove: paid in at opening,
\* out at closing by the owner, a liquidation or a redemption.
GasReserveExact == star.gasPool = GasCompensation * OwnersCount(books)

\* CollSurplusPool holds what its accounts are owed: a liquidation accounts the
\* surplus trove by trove and sends the total at its end.
SurplusExact ==
    \A t \in Tokens :
       pools.surplusColl[t] = SumOver(LAMBDA b : pools.surplusOf[b][t])

\* What is set aside is owed to somebody: the gas compensation to those who may
\* liquidate, the surplus to the owners of closed troves.
ReservesExact == GasReserveExact /\ SurplusExact

Succeeds(result) == result.ok /\ NoUnderflow(result.books)

\* A liquidation of one trove below MCR never reverts while another trove is
\* left: no subtraction underflows on its way through the pools, and an orphaned
\* token's debt finds an absorption collateral that has stakes.
RiskyIsLiquidatable ==
    \A b \in Borrowers :
       (active(books, b) /\ ICR(books, b) < MCR /\ CanClose(books)) =>
          Succeeds(BatchResult(<<b>>))

Became(b, status) == troves[b].status # status /\ troves'[b].status = status

\* In normal mode neither an opening nor an owner's closing brings the system
\* into recovery mode, whatever the fees.
OpenAndCloseKeepNormalMode ==
    [][\A b \in Borrowers :
          (/\ ~ RecoveryMode(books)
           /\ Became(b, "active") \/ Became(b, "closedByOwner"))
          => ~ RecoveryMode(books)']_vars

\* A trove that is liquidated was below MCR, or below CCR in recovery mode,
\* whatever else the same batch liquidated before it.
LiquidatedWereRisky ==
    [][\A b \in Borrowers :
          Became(b, "closedByLiquidation") =>
             ICR(books, b) < (IF RecoveryMode(books) THEN CCR ELSE MCR)]_vars

HeldValue == USD(Plus(SystemColl(books), pools.surplusColl))

\* A redemption leaves each trove it touches and does not close at least as well
\* collateralised as it was, and pays out no more value than the STAR it burns
\* (the gas compensations burnt with it belong to the closed troves).
RedemptionIsFair ==
    [][(star'.supply < star.supply /\ Redeem) =>
          /\ \A b \in Borrowers : active(books, b)' => ICR(books, b)' >= ICR(books, b)
          /\ HeldValue - HeldValue'
                <= (star.supply - star.gasPool) - (star'.supply - star'.gasPool)
      ]_vars

-----------------------------------------------------------------------------
(* What a comment of the code says and a second token refutes.             *)

\* The comment at L_Coll: a trove's snapshots of the terms were taken when its
\* stake was made, so that a stake earns nothing from before it.
StakeSnapshotted ==
    [][\A b \in Borrowers, t \in Tokens :
          troves[b].stakes[t] = 0 /\ troves'[b].stakes[t] # 0 =>
             /\ troves'[b].CollRewards[t] = terms'[t].L_Coll
             /\ troves'[b].STARDebts[t] = terms'[t].L_STARDebt]_vars

-----------------------------------------------------------------------------
(* With a single token, the redistributed debt and the redistributed       *)
(* collateral each implement RewardPool.  The parameters of an abstract    *)
(* step can be read off the step: what left the claims and the pool.       *)

token == Head(ValidCollateral)

ClaimsOver(L, snapshot(_)) ==
    SumOver(LAMBDA b : IF token \in troves[b].tokens
                       THEN troves[b].stakes[token] * (L - snapshot(b)) ELSE 0)

DebtClaims ==
    ClaimsOver(terms[token].L_STARDebt, LAMBDA b : troves[b].STARDebts[token])
CollClaims ==
    ClaimsOver(terms[token].L_Coll, LAMBDA b : troves[b].CollRewards[token])

DebtRewards == INSTANCE RewardPool WITH
    Amounts <- Nat, pool <- pools.defaultDebt, claims <- DebtClaims,
    error <- terms[token].lastSTARDebtError, totalStakes <- terms[token].totalStakes

CollRewards == INSTANCE RewardPool WITH
    Amounts <- Nat, pool <- pools.defaultColl[token], claims <- CollClaims,
    error <- terms[token].lastCollError, totalStakes <- terms[token].totalStakes

DebtRewardsStep ==
    LET stakes == terms'[token].totalStakes
        collected(amount) ==
            DebtClaims + DebtRewards!PerUnit(amount, stakes) * stakes - DebtClaims'
        paid(amount) == pools.defaultDebt + amount - pools'.defaultDebt
    IN  \/ /\ {DebtClaims - DebtClaims', paid(0)} \subseteq Nat
           /\ DebtRewards!Settle(DebtClaims - DebtClaims', paid(0), stakes)
        \/ /\ stakes # 0
           /\ \E amount \in 0..pools'.defaultDebt :
                 /\ {collected(amount), paid(amount)} \subseteq Nat
                 /\ DebtRewards!Redistribute(collected(amount), paid(amount), stakes, amount)

CollRewardsStep ==
    LET stakes == terms'[token].totalStakes
        collected(amount) ==
            CollClaims + CollRewards!PerUnit(amount, stakes) * stakes - CollClaims'
        paid(amount) == pools.defaultColl[token] + amount - pools'.defaultColl[token]
    IN  \/ /\ {CollClaims - CollClaims', paid(0)} \subseteq Nat
           /\ CollRewards!Settle(CollClaims - CollClaims', paid(0), stakes)
        \/ /\ stakes # 0
           /\ \E amount \in 0..pools'.defaultColl[token] :
                 /\ {collected(amount), paid(amount)} \subseteq Nat
                 /\ CollRewards!Redistribute(collected(amount), paid(amount), stakes, amount)

\* Every transaction shares and pays debt as RewardPool does, so that the theorem
\* about RewardPool holds of the DefaultPool's debt.
RefinesDebtRewards ==
    DebtRewards!Init /\ [][DebtRewardsStep]_(DebtRewards!vars)

\* The same for the collateral.
RefinesCollRewards ==
    CollRewards!Init /\ [][CollRewardsStep]_(CollRewards!vars)

\* The bookkeeping of redistributions implements, for the debt and for the
\* token, the pool that RewardPool shows to cover all claims on it.
RefinesRewardPool == RefinesDebtRewards /\ RefinesCollRewards

=============================================================================
