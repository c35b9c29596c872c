-------------------------- MODULE BorrowerOperations --------------------------
(***************************************************************************)
(* BorrowerOperations.sol: opening, adjusting and closing a trove, and the *)
(* StabilityPool's two doors.  The fees are arguments: the borrowing fee   *)
(* comes from the base rate and the variable deposit fee from the fee      *)
(* curves, which other parts of the system keep.                           *)
(***************************************************************************)
EXTENDS TroveManager

\* Mutant: the treasury and the emissions each get their half rounded up.
FeeMintedRoundedUp(fee) == 2 * ((fee + 1) \div 2)

\* _mintSTARFeeAndSplit gives half the fee, rounded down, to each of the two.
FeeMinted(fee) == 2 * (fee \div 2)

Lend(s, debt, minted) ==
    [s EXCEPT !.pools.activeDebt = @ + debt, !.star.supply = @ + minted]

TCRAfter(s, collChange, debtChange) ==
    CR(RVC(SystemColl(s)) + collChange, SystemDebt(s) + debtChange)

EnterTrove(s, b, colls, debt) ==
    UpdateRewardSnapshots(
        SetCollAndStake([s EXCEPT !.troves[b].status = "active",
                                  !.troves[b].debt = @ + debt],
                        b, HeldIn(colls), colls), b)

\* Mutant: the total ratio is checked without the gas compensation's debt.
OpenKeepsTCRNetOnly(s, colls, netDebt) ==
    TCRAfter(s, RVC(colls), netDebt) >= CCR

OpenKeepsTCR(s, colls, netDebt) ==
    TCRAfter(s, RVC(colls), netDebt + GasCompensation) >= CCR

\* The borrowing fee is only charged in normal mode.
OpenTrove(b, colls, amount, borrowingFee, variableFee) ==
    LET s == books
        fee == variableFee + (IF RecoveryMode(s) THEN 0 ELSE borrowingFee)
        minted == FeeMinted(variableFee)
                    + (IF RecoveryMode(s) THEN 0 ELSE FeeMinted(borrowingFee))
        netDebt == amount + fee
        compositeDebt == netDebt + GasCompensation
        newICR == CR(VC(colls), compositeDebt)
        entered == EnterTrove(s, b, colls, compositeDebt)
        paidOut == Lend([entered EXCEPT !.pools.activeColl = Plus(@, colls)],
                        compositeDebt, amount + minted + GasCompensation)
    IN  /\ ~ active(s, b)
        /\ netDebt >= MinNetDebt
        /\ \A t \in HeldIn(colls) : CanStake(s, t)
        /\ IF RecoveryMode(s) THEN newICR >= CCR
           ELSE newICR >= MCR /\ OpenKeepsTCR(s, colls, netDebt)
        /\ Commit([paidOut EXCEPT !.star.gasPool = @ + GasCompensation])
        /\ UNCHANGED price

\* The mode's conditions on an adjustment.  The debt change the total ratio is
\* checked with leaves the variable deposit fee out.
AdjustmentAllowed(s, b, collsIn, collsOut, debtChange, variableFee) ==
    LET tr == s.troves[b]
        oldICR == CR(VC(tr.colls), tr.debt)
        newICR == CR(VC(tr.colls) + VC(collsIn) - VC(collsOut),
                     tr.debt + variableFee + debtChange)
    IN  IF RecoveryMode(s)
        THEN /\ collsOut = NoColl
             /\ debtChange > 0 => newICR >= CCR /\ newICR >= oldICR
        ELSE /\ newICR >= MCR
             /\ TCRAfter(s, RVC(collsIn) - RVC(collsOut), debtChange) >= CCR

\* The adjustment in the books s, to which the pending rewards have been applied;
\* the trove's own fee and STAR move last.
AdjustApplied(s, b, collsIn, collsOut, change, borrowingFee, variableFee) ==
    LET tr == s.troves[b]
        fee1 == IF change > 0 /\ ~ RecoveryMode(books) THEN borrowingFee ELSE 0
        fee2 == IF collsIn = NoColl THEN 0 ELSE variableFee
        debtChange == change + fee1
        newColls == Minus(Plus(tr.colls, collsIn), collsOut)
        tokens == (tr.tokens \cup HeldIn(collsIn))
                    \ {t \in HeldIn(collsOut) : newColls[t] = 0}
        held == SetCollAndStake([s EXCEPT !.troves[b].debt = @ + debtChange + fee2],
                    b, tokens, newColls)
    IN  /\ HeldIn(collsOut) \subseteq tr.tokens \cup HeldIn(collsIn)
        /\ \A t \in Tokens : newColls[t] >= 0
        /\ tr.debt + fee2 + debtChange >= 0
        /\ AdjustmentAllowed(s, b, collsIn, collsOut, debtChange, fee2)
        /\ \A t \in tokens : CanStake(s, t)
        /\ change < 0 => /\ tr.debt + fee2 + change >= GasCompensation + MinNetDebt
                         /\ -change <= circulating(s)
        /\ Commit(Lend([held EXCEPT
                     !.pools.activeColl = Minus(Plus(@, collsIn), collsOut)],
                 debtChange + fee2,
                 change + FeeMinted(fee1) + FeeMinted(fee2)))

\* "change" is the STAR drawn if positive, repaid if negative.
AdjustTrove(b, collsIn, collsOut, change, borrowingFee, variableFee) ==
    /\ active(books, b)
    /\ collsIn # NoColl \/ collsOut # NoColl \/ change # 0
    /\ AdjustApplied(ApplyPendingRewards(books, b), b, collsIn, collsOut, change,
                     borrowingFee, variableFee)
    /\ UNCHANGED price

\* The owner pays the whole debt; the gas compensation is burnt from GasPool.
CloseApplied(s, b) ==
    LET tr == s.troves[b]
        closed == CloseTroveAs(RemoveStake(s, b), b, "closedByOwner")
    IN  /\ tr.debt - GasCompensation <= circulating(s)
        /\ TCRAfter(books, -RVC(tr.colls), -tr.debt) >= CCR
        /\ CanClose(s)
        /\ Commit([Burn(closed, tr.debt) EXCEPT
                      !.star.gasPool = @ - GasCompensation,
                      !.pools.activeColl = Minus(@, tr.colls)])

CloseTrove(b) ==
    /\ active(books, b)
    /\ ~ RecoveryMode(books)
    /\ CloseApplied(ApplyPendingRewards(books, b), b)
    /\ UNCHANGED price

ClaimCollateral(b) ==
    LET due == pools.surplusOf[b]
    IN  /\ due # NoColl
        /\ Commit([books EXCEPT !.pools.surplusOf[b] = NoColl,
                                !.pools.surplusColl = Minus(@, due)])
        /\ UNCHANGED price

-----------------------------------------------------------------------------
(* StabilityPool.sol, as far as the STAR it holds: who owns which part of  *)
(* it, and the collateral gained, is the pool's own book-keeping.          *)

ProvideToSP(amount) ==
    /\ amount # 0
    /\ amount <= circulating(books)
    /\ Commit([books EXCEPT !.star.stabilityPool = @ + amount])
    /\ UNCHANGED price

\* A withdrawal is refused while the lowest trove of the sorted list is below
\* MCR or a trove is registered as under-collateralised; which trove is the
\* lowest there is the list's to say, and any may be.
WithdrawFromSP(amount, lowest) ==
    /\ amount # 0
    /\ amount <= star.stabilityPool
    /\ active(books, lowest)
    /\ ICR(books, lowest) >= MCR
    /\ Commit([books EXCEPT !.star.stabilityPool = @ - amount])
    /\ UNCHANGED price

=============================================================================
