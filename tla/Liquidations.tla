---------------------------- MODULE Liquidations ----------------------------
(***************************************************************************)
(* TroveManagerLiquidations.sol: a batch liquidation is a loop over the    *)
(* troves the caller names, which closes some and adds up what is to be    *)
(* sent to the StabilityPool, redistributed, kept as surplus and paid to   *)
(* the liquidator, and then moves the totals.  The loop is a fold over a   *)
(* record "run"; run.ok turns false where the code reverts.                *)
(***************************************************************************)
EXTENDS TroveManager

\* The liquidator's part of each collateral.
CollGasCompensation(colls) == [t \in Tokens |-> colls[t] \div GasDivisor]

RatioOf(c, ratio) == [t \in Tokens |-> (c[t] * ratio) \div Percent]

\* How a trove is shared between the StabilityPool, the redistribution and its
\* owner.  With an empty pool everything is redistributed.
OffsetAndRedistributionVals(debt, colls, starInPool) ==
    LET debtToOffset == Min({debt, starInPool})
        offsetRatio == (Percent * debtToOffset) \div debt
        SPRatio == Min({offsetRatio, (debtToOffset * MCR) \div USD(colls)})
        toSP == RatioOf(colls, SPRatio)
        surplus == RatioOf(colls, offsetRatio - SPRatio)
    IN  IF starInPool = 0
        THEN [debtToOffset |-> 0, collToSendToSP |-> NoColl, collSurplus |-> NoColl,
              debtToRedistribute |-> debt, collToRedistribute |-> colls]
        ELSE [debtToOffset |-> debtToOffset, collToSendToSP |-> toSP,
              collSurplus |-> surplus, debtToRedistribute |-> debt - debtToOffset,
              collToRedistribute |-> Minus(Minus(colls, toSP), surplus)]

\* Only the part worth MCR times the debt is taken; the owner keeps the rest.
CappedOffsetVals(debt, colls) ==
    LET SPRatio == Min({Percent, (MCR * debt) \div USD(colls)})
        toSP == RatioOf(colls, SPRatio)
    IN  [debtToOffset |-> debt, collToSendToSP |-> toSP,
         collSurplus |-> Minus(colls, toSP),
         debtToRedistribute |-> 0, collToRedistribute |-> NoColl]

NoTotals ==
    [debtInSequence |-> 0, debtToOffset |-> 0, collToSendToSP |-> NoColl,
     debtToRedistribute |-> 0, collToRedistribute |-> NoColl,
     redistributed |-> {}, collSurplus |-> NoColl,
     collGasCompensation |-> NoColl, compensated |-> {}, STARGasCompensation |-> 0]

\* The values of one liquidation are added up.  "shares" is FALSE on the capped
\* path, which has no collateral to redistribute.
AddToTotals(totals, debt, tokens, gas, vals, shares) ==
    [totals EXCEPT
        !.debtInSequence = @ + debt,
        !.debtToOffset = @ + vals.debtToOffset,
        !.collToSendToSP = Plus(@, vals.collToSendToSP),
        !.debtToRedistribute = @ + vals.debtToRedistribute,
        !.collToRedistribute = Plus(@, vals.collToRedistribute),
        !.redistributed = @ \cup (IF shares THEN tokens ELSE {}),
        !.collSurplus = Plus(@, vals.collSurplus),
        !.collGasCompensation = Plus(@, gas),
        !.compensated = @ \cup tokens,
        !.STARGasCompensation = @ + GasCompensation]

\* Close b and add its values to the totals.
CloseInRun(run, b, vals, shares) ==
    LET s == run.books
        debt == EntireDebt(s, b)
        gas == CollGasCompensation(EntireColl(s, b))
        tokens == s.troves[b].tokens
        closed == CloseTroveAs(RemoveStake(
                     MovePending(s, PendingDebt(s, b), PendingColl(s, b)), b),
                     b, "closedByLiquidation")
    IN  [run EXCEPT
            !.ok = @ /\ CanClose(s),
            !.books = AccountSurplus(closed, b, vals.collSurplus),
            !.remaining = @ - vals.debtToOffset,
            !.systemDebt = @ - vals.debtToOffset,
            !.systemCollVC = @ - VC(vals.collToSendToSP) - VC(gas) - VC(vals.collSurplus),
            !.totals = AddToTotals(run.totals, debt, tokens, gas, vals, shares)]

CollToLiquidate(s, b) ==
    Minus(EntireColl(s, b), CollGasCompensation(EntireColl(s, b)))

\* The divisions by the debt and by the value of the collateral revert on zero.
LiquidateNormalMode(run, b) ==
    LET s == run.books
        debt == EntireDebt(s, b)
        colls == CollToLiquidate(s, b)
    IN  IF run.remaining # 0 /\ (USD(colls) = 0 \/ debt = 0)
        THEN [run EXCEPT !.ok = FALSE]
        ELSE CloseInRun(run, b,
                 OffsetAndRedistributionVals(debt, colls, run.remaining), TRUE)

\* Mutant: the trove's ratio is not compared with the system's.
LiquidateRecoveryModeAny(run, b) ==
    LET s == run.books
        debt == EntireDebt(s, b)
        colls == CollToLiquidate(s, b)
    IN  CASE OwnersCount(s) <= 1 -> run
          [] OwnersCount(s) > 1 /\ ICR(s, b) <= Percent ->
                CloseInRun(run, b, OffsetAndRedistributionVals(debt, colls, 0), TRUE)
          [] OwnersCount(s) > 1 /\ Percent < ICR(s, b) /\ ICR(s, b) < MCR ->
                LiquidateNormalMode(run, b)
          [] OTHER -> IF debt <= run.remaining
                      THEN CloseInRun(run, b, CappedOffsetVals(debt, colls), FALSE)
                      ELSE run

\* The last trove is left alone; below 100% all is redistributed; below MCR as
\* in normal mode; below the TCR only if the pool can take the whole debt.
LiquidateRecoveryMode(run, b) ==
    LET s == run.books
        debt == EntireDebt(s, b)
        colls == CollToLiquidate(s, b)
        totalCR == CR(run.systemCollVC, run.systemDebt)
    IN  CASE OwnersCount(s) <= 1 -> run
          [] OwnersCount(s) > 1 /\ ICR(s, b) <= Percent ->
                CloseInRun(run, b, OffsetAndRedistributionVals(debt, colls, 0), TRUE)
          [] OwnersCount(s) > 1 /\ Percent < ICR(s, b) /\ ICR(s, b) < MCR ->
                LiquidateNormalMode(run, b)
          [] OTHER -> IF AICR(s, b) < totalCR /\ debt <= run.remaining
                      THEN CloseInRun(run, b, CappedOffsetVals(debt, colls), FALSE)
                      ELSE run

\* One turn of the loop.  In recovery mode the system's totals are brought up to
\* date after each trove, where a subtraction below zero reverts, and the mode is
\* looked at again; in normal mode a trove that is not active has no debt, and
\* so the largest ICR.
TurnNormal(run, b) ==
    IF ICR(run.books, b) < MCR THEN LiquidateNormalMode(run, b) ELSE run

LookAtMode(run) ==
    [run EXCEPT !.ok = @ /\ run.systemDebt >= 0 /\ run.systemCollVC >= 0,
                !.backToNormalMode = CR(run.systemCollVC, run.systemDebt) >= CCR]

TurnRecovery(run, b) ==
    CASE ~ active(run.books, b) -> run
      [] active(run.books, b) /\ run.backToNormalMode -> TurnNormal(run, b)
      [] OTHER ->
            IF ICR(run.books, b) >= MCR /\ run.remaining = 0 THEN run
            ELSE LookAtMode(LiquidateRecoveryMode(run, b))

LiquidationRun(s, borrowers) ==
    LET start == [books |-> s, ok |-> TRUE, totals |-> NoTotals,
                  remaining |-> s.star.stabilityPool, backToNormalMode |-> FALSE,
                  systemCollVC |-> VC(SystemColl(s)), systemDebt |-> SystemDebt(s)]
    IN  IF RecoveryMode(s) THEN FoldLeft(TurnRecovery, start, borrowers)
        ELSE FoldLeft(TurnNormal, start, borrowers)

\* StabilityPool.offset: nothing moves when there is nothing to offset.
Offset(s, debt, colls) ==
    IF s.star.stabilityPool = 0 \/ debt = 0 THEN s
    ELSE [Burn(s, debt) EXCEPT
             !.star.stabilityPool = @ - debt,
             !.pools.activeColl = Minus(@, colls),
             !.pools.stabilityColl = Plus(@, colls)]

SendAndSnapshot(s, totals) ==
    UpdateSystemSnapshots(SendSurplus(s, totals.collSurplus),
        totals.compensated, totals.collGasCompensation)

CompensateLiquidator(s, totals) ==
    [s EXCEPT !.star.gasPool = @ - totals.STARGasCompensation,
              !.pools.activeColl = Minus(@, totals.collGasCompensation)]

\* What batchLiquidateTroves does with the totals, in its order: r is the outcome
\* of the offset and the redistribution.
FinishTotals(r, totals) ==
    [ok |-> r.ok,
     books |-> CompensateLiquidator(SendAndSnapshot(r.books, totals), totals)]

SettleTotals(run) ==
    IF ~ run.ok \/ run.totals.debtInSequence = 0
    THEN [ok |-> FALSE, books |-> run.books]
    ELSE FinishTotals(
             RedistributeDebtAndColl(
                 Offset(run.books, run.totals.debtToOffset, run.totals.collToSendToSP),
                 run.totals.debtToRedistribute, run.totals.redistributed,
                 run.totals.collToRedistribute),
             run.totals)

BatchResult(borrowers) == SettleTotals(LiquidationRun(books, borrowers))

CommitIfOk(result) == result.ok /\ Commit(result.books)

BatchLiquidateTroves(borrowers) ==
    /\ borrowers # <<>>
    /\ CommitIfOk(BatchResult(borrowers))
    /\ UNCHANGED price

=============================================================================
