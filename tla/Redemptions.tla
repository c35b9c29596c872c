----------------------------- MODULE Redemptions -----------------------------
(***************************************************************************)
(* TroveManagerRedemptions.sol: STAR is exchanged at face value for the    *)
(* collateral of one trove after another, which is closed when its debt is *)
(* used up.  As in Liquidations the loop is a fold over a record.  The     *)
(* order of the troves is SortedTroves' business, and that list may be     *)
(* stale: here it is the caller's.  Fees are transfers of circulating STAR.*)
(***************************************************************************)
EXTENDS TroveManager

\* Mutant: the STAR kept for the liquidator stays in the GasPool.
RedeemCloseTroveKeepingGas(s, b, rest) ==
    SendSurplus(AccountSurplus(
        CloseTroveAs(RemoveStake(s, b), b, "closedByRedemption"), b, rest), rest)

RedeemCloseTrove(s, b, rest) ==
    LET closed == CloseTroveAs(RemoveStake(s, b), b, "closedByRedemption")
        burnt == [Burn(closed, GasCompensation)
                     EXCEPT !.star.gasPool = @ - GasCompensation]
    IN  SendSurplus(AccountSurplus(burnt, b, rest), rest)

\* Mutant: what is drawn is rounded up.
DrawnRoundedUp(colls, lot) ==
    LET value == USD(colls)
    IN  [t \in Tokens |-> (lot * colls[t] + value - 1) \div value]

\* The part of each collateral that is worth the lot.
Drawn(colls, lot) ==
    LET value == USD(colls)
    IN  [t \in Tokens |-> (lot * colls[t]) \div value]

\* The rest of a trove after a redemption: closed when only the gas
\* compensation is owed, else adjusted.  The tokens stay listed.
AfterRedemption(s, b, newDebt, rest) ==
    IF newDebt = GasCompensation
    THEN RedeemCloseTrove(s, b, rest)
    ELSE SetCollAndStake([s EXCEPT !.troves[b].debt = newDebt],
             b, s.troves[b].tokens, rest)

\* A partial redemption needs a hint within 2% of the new AICR and a net debt
\* left that is large enough; else it is cancelled.  A full one needs another
\* trove in the system.  More than the trove holds cannot be drawn.
PartialAllowed(newDebt, hintIsClose) ==
    hintIsClose /\ newDebt - GasCompensation >= MinNetDebt

RedeemLot(run, s, b, hintIsClose) ==
    LET tr == s.troves[b]
        lot == Min({run.remaining, tr.debt - GasCompensation})
        drawn == Drawn(tr.colls, lot)
        newDebt == tr.debt - lot
        cancelled == newDebt # GasCompensation /\ ~ PartialAllowed(newDebt, hintIsClose)
    IN  IF USD(tr.colls) = 0 \/ \E t \in Tokens : drawn[t] > tr.colls[t]
        THEN [run EXCEPT !.ok = FALSE]
        ELSE IF cancelled THEN [run EXCEPT !.books = s, !.stopped = TRUE]
        ELSE [run EXCEPT
                !.books = AfterRedemption(s, b, newDebt, Minus(tr.colls, drawn)),
                !.ok = @ /\ (newDebt = GasCompensation => CanClose(s))
                         /\ (newDebt # GasCompensation => \A t \in tr.tokens : CanStake(s, t)),
                !.remaining = @ - lot,
                !.redeemed = @ + lot,
                !.drawn = Plus(@, drawn)]

RedeemFromTrove(run, b, hintIsClose) ==
    RedeemLot(run, ApplyPendingRewards(run.books, b), b, hintIsClose)

\* One turn of the loop over the troves.
RedeemTurn(hintIsClose, run, b) ==
    IF run.stopped \/ run.remaining = 0 \/ AICR(run.books, b) < MCR
    THEN run ELSE RedeemFromTrove(run, b, hintIsClose)

RedemptionRun(s, borrowers, amount, hintIsClose) ==
    FoldLeft(LAMBDA run, b : RedeemTurn(hintIsClose, run, b),
             [books |-> s, ok |-> TRUE, stopped |-> FALSE, remaining |-> amount,
              redeemed |-> 0, drawn |-> NoColl],
             borrowers)

PayOut(s, redeemed, drawn) ==
    [Burn(s, redeemed) EXCEPT !.pools.activeColl = Minus(@, drawn)]

CommitRedemption(run) ==
    /\ run.ok
    /\ run.drawn # NoColl
    /\ Commit(PayOut(run.books, run.redeemed, run.drawn))

RedeemCollateral(borrowers, amount, hintIsClose) ==
    /\ amount # 0
    /\ TCR(books) >= MCR
    /\ \A i \in DOMAIN borrowers : active(books, borrowers[i])
    /\ CommitRedemption(RedemptionRun(books, borrowers, amount, hintIsClose))
    /\ UNCHANGED price

\* The part of it after the pending rewards are applied, in the books s.
RedeemToken(s, b, token, amount, hintIsClose) ==
    LET tr == s.troves[b]
        value == tr.colls[token] * price[token]
        lot == Min({amount, tr.debt - GasCompensation, value})
        drawn == Only(token, (lot * tr.colls[token]) \div value)
        newDebt == tr.debt - lot
    IN  /\ token \in tr.tokens /\ value # 0
        /\ IF newDebt = GasCompensation
           THEN CanClose(s)
           ELSE /\ PartialAllowed(newDebt, hintIsClose)
                /\ \A t \in tr.tokens : CanStake(s, t)
        /\ drawn # NoColl
        /\ amount <= circulating(s)
        /\ Commit(PayOut(AfterRedemption(s, b, newDebt, Minus(tr.colls, drawn)),
                         lot, drawn))

\* One collateral of one trove, which must be the lowest at or above MCR.
RedeemCollateralSingle(b, token, amount, hintIsClose) ==
    /\ amount # 0
    /\ TCR(books) >= MCR
    /\ active(books, b) /\ ICR(books, b) >= MCR
    /\ RedeemToken(ApplyPendingRewards(books, b), b, token, amount, hintIsClose)
    /\ UNCHANGED price

=============================================================================
