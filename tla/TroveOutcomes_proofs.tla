------------------------ MODULE TroveOutcomes_proofs ------------------------
(***************************************************************************)
(* What the invariant of the ledger is good for: who can be liquidated.    *)
(***************************************************************************)
EXTENDS TroveLedger_proofs

-----------------------------------------------------------------------------
(* Who is liquidated.  Inside the loop a trove is either as it was when    *)
(* the transaction began or it has been closed, and it was risky then: the *)
(* terms of the rewards do not move before the settlement, so that the     *)
(* ratios the loop looks at are those of the beginning.                    *)

SameTerms(s, r) ==
    \A t \in Tokens : /\ r.terms[t].L_Coll = s.terms[t].L_Coll
                      /\ r.terms[t].L_STARDebt = s.terms[t].L_STARDebt

\* What is counted of a value for the mode of the system is at least what is
\* counted for a trove.
LEMMA SafetyBelowRecovery ==
    ASSUME NEW p \in Bundles, price = p, NEW c \in Bundles
    PROVE  VC(c) \in Nat /\ RVC(c) \in Nat /\ VC(c) <= RVC(c)
<1>1. ASSUME NEW t \in Tokens
      PROVE  /\ (c[t] * p[t] * SafetyRatio[t]) \div Percent \in Int
             /\ (c[t] * p[t] * RecoveryRatio[t]) \div Percent \in Int
             /\ (c[t] * p[t] * SafetyRatio[t]) \div Percent <= (c[t] * p[t] * RecoveryRatio[t]) \div Percent
  <2>1. PICK x \in Nat, a \in Nat, b \in Nat, q \in Nat \ {0} :
          x = c[t] * p[t] /\ a = SafetyRatio[t] /\ b = RecoveryRatio[t] /\ q = Percent
    <3>1. c[t] \in Nat /\ p[t] \in Nat /\ SafetyRatio[t] \in Nat /\ RecoveryRatio[t] \in Nat
          /\ Percent \in Nat \ {0}
      BY Constants DEF Bundles
    <3>2. c[t] * p[t] \in Nat
      BY <3>1, NatProduct
    <3> QED
      BY <3>1, <3>2
  <2>2. a <= b
    BY <2>1, LedgerAssumption
  <2>3. x * a <= x * b /\ x * a \in Int /\ x * b \in Int
    BY <2>2, TimesMonotone
  <2>4. (x * a) \div q \in Int /\ (x * b) \div q \in Int
    BY <2>3, QuotientBounds
  <2>5. (x * a) \div q <= (x * b) \div q
    <3>1. PICK y \in Int, z \in Int : y = x * a /\ z = x * b
      BY <2>3
    <3> QED
      BY <2>3, <3>1, QuotientMonotone
  <2> QED
    BY <2>1, <2>4, <2>5
<1> DEFINE g == [t \in Tokens |-> (c[t] * p[t] * SafetyRatio[t]) \div Percent]
           h == [t \in Tokens |-> (c[t] * p[t] * RecoveryRatio[t]) \div Percent]
<1>2. VC(c) = SumFunction(g) /\ RVC(c) = SumFunction(h)
  BY DEF VC, RVC
<1>3. /\ DOMAIN g = Tokens /\ DOMAIN h = Tokens
      /\ \A t \in Tokens : g[t] \in Int /\ h[t] \in Int /\ g[t] <= h[t]
  BY <1>1
<1>4. SumFunctionOnSet(g, Tokens) <= SumFunctionOnSet(h, Tokens)
  <2> HIDE DEF g, h
  <2> QED
    BY <1>3, TokensFinite, SumAtMost
<1>5. VC(c) <= RVC(c)
  <2> HIDE DEF g, h
  <2> QED
    BY <1>2, <1>3, <1>4 DEF SumFunction
<1> QED
  BY <1>5, Values

\* More value makes no smaller a ratio.
LEMMA RatioGrows ==
    ASSUME NEW v \in Nat, NEW w \in Nat, v <= w, NEW d \in Nat
    PROVE  CR(v, d) \in Nat /\ CR(w, d) \in Nat /\ CR(v, d) <= CR(w, d)
<1>1. Percent \in Nat /\ MaxUint \in Nat
  BY Constants
<1>2. v * Percent \in Nat /\ w * Percent \in Nat
  BY <1>1, NatProduct
<1>3. v * Percent <= w * Percent
  BY <1>1, TimesMonotone
<1>4. PICK x \in Nat, y \in Nat : x = v * Percent /\ y = w * Percent
  BY <1>2
<1>5. CASE d = 0
  BY <1>1, <1>5 DEF CR
<1>6. CASE d # 0
  <2>1. x \div d \in Nat /\ y \div d \in Nat
    BY <1>6, QuotientNat
  <2>2. x \div d <= y \div d
    BY <1>3, <1>4, <1>6, QuotientMonotone
  <2>3. CR(v, d) = x \div d /\ CR(w, d) = y \div d
    BY <1>4, <1>6 DEF CR
  <2> QED
    BY <2>1, <2>2, <2>3
<1> QED
  BY <1>5, <1>6

\* A trove's own ratio is at most the one the system's is compared with, and the
\* system's value as the run counts it is at most the one of the mode.
LEMMA IndividualRatios ==
    ASSUME NEW s, Sound(s), NEW b \in Borrowers, NEW p \in Bundles, price = p
    PROVE  ICR(s, b) \in Nat /\ AICR(s, b) \in Nat /\ ICR(s, b) <= AICR(s, b)
<1>1. PICK c \in Bundles, d \in Nat : c = EntireColl(s, b) /\ d = EntireDebt(s, b)
  BY PendingNat
<1>2. VC(c) \in Nat /\ RVC(c) \in Nat /\ VC(c) <= RVC(c)
  BY SafetyBelowRecovery
<1>3. CR(VC(c), d) \in Nat /\ CR(RVC(c), d) \in Nat /\ CR(VC(c), d) <= CR(RVC(c), d)
  BY <1>2, RatioGrows
<1> QED
  BY <1>1, <1>3 DEF ICR, AICR

\* The ratio of a trove that has not been touched is what it was.
LEMMA SameRatio ==
    ASSUME NEW s, NEW r, SameTerms(s, r), NEW b \in Borrowers, r.troves[b] = s.troves[b]
    PROVE  ICR(r, b) = ICR(s, b) /\ AICR(r, b) = AICR(s, b)
<1>1. \A t \in Tokens : /\ r.terms[t].L_Coll = s.terms[t].L_Coll
                        /\ r.terms[t].L_STARDebt = s.terms[t].L_STARDebt
  BY DEF SameTerms
<1>2. active(r, b) = active(s, b)
  BY DEF active
<1>3. PendingColl(r, b) = PendingColl(s, b)
  BY <1>1, <1>2 DEF PendingColl
<1>4. PendingDebt(r, b) = PendingDebt(s, b)
  <2> DEFINE f(x) == [t \in Tokens |->
                 IF active(x, b) /\ t \in x.troves[b].tokens
                 THEN (x.troves[b].stakes[t] * (x.terms[t].L_STARDebt - x.troves[b].STARDebts[t])) \div Scale
                 ELSE 0]
  <2>1. f(r) = f(s)
    BY <1>1, <1>2
  <2>2. PendingDebt(r, b) = SumFunction(f(r)) /\ PendingDebt(s, b) = SumFunction(f(s))
    BY DEF PendingDebt
  <2> HIDE DEF f
  <2> QED
    BY <2>1, <2>2
<1>5. EntireColl(r, b) = EntireColl(s, b) /\ EntireDebt(r, b) = EntireDebt(s, b)
  BY <1>3, <1>4 DEF EntireColl, EntireDebt
<1> QED
  BY <1>5 DEF ICR, AICR

\* What a closing in the loop does to the troves and the terms.
LEMMA ClosedInRun ==
    ASSUME NEW run, RunInv(run), NEW b \in Borrowers, NEW v, v.collSurplus \in Bundles, NEW shares,
           NEW r, r = CloseInRun(run, b, v, shares)
    PROVE  /\ OnlyTrove(run.books, r.books, b)
           /\ r.books.troves[b].status = "closedByLiquidation"
           /\ SameTerms(run.books, r.books)
           /\ r.ok => run.ok
           /\ r.backToNormalMode = run.backToNormalMode
<1>1. PICK s : s = run.books
  OBVIOUS
<1>2. run \in RunRecords /\ Sound(s) /\ s \in Books
  BY <1>1 DEF RunInv, Sound
<1>3. PICK pd \in Nat, pc \in Bundles : pd = PendingDebt(s, b) /\ pc = PendingColl(s, b)
  BY <1>2, PendingNat
<1>4. PICK m, w, q, k : /\ m = MovePending(s, pd, pc) /\ w = RemoveStake(m, b)
                        /\ q = CloseTroveAs(w, b, "closedByLiquidation")
                        /\ k = AccountSurplus(q, b, v.collSurplus)
  OBVIOUS
<1>5. PendingMoved(s, m, pd, pc)
  BY <1>2, <1>3, <1>4, MovePendingEffect
<1>6. m.troves = s.troves /\ m.terms = s.terms /\ Sound(m) /\ m \in Books
  <2>1. m.troves = s.troves /\ m.terms = s.terms /\ m \in Books
    BY <1>5 DEF PendingMoved
  <2> QED
    BY <1>2, <2>1, SoundOfTroves
<1>7. Sound(w) /\ w \in Books /\ OnlyTrove(m, w, b)
  BY <1>4, <1>6, RemoveStakeEffect DEF Sound
<1>8. SameTerms(m, w)
  <2>1. w.terms = [t \in Tokens |-> [m.terms[t] EXCEPT !.totalStakes =
                      @ - (IF t \in m.troves[b].tokens THEN m.troves[b].stakes[t] ELSE 0)]]
    BY <1>4, <1>6 DEF RemoveStake, Books
  <2>2. \A t \in Tokens : m.terms[t] \in TermRecords
    BY <1>6, BookParts
  <2> QED
    BY <2>1, <2>2 DEF SameTerms, TermRecords
<1>9. /\ Sound(q) /\ q \in Books /\ OnlyTrove(w, q, b) /\ q.terms = w.terms
  BY <1>4, <1>7, CloseTroveEffect DEF Sound, Closings
<1>10. q.troves[b].status = "closedByLiquidation"
  <2>1. w.troves[b] \in TroveRecords /\ w.troves \in [Borrowers -> TroveRecords]
    BY <1>7, BookParts
  <2> QED
    BY <1>4, <1>7, <2>1 DEF CloseTroveAs, Books, TroveRecords
<1>11. k.troves = q.troves /\ k.terms = q.terms
  BY <1>4, <1>9 DEF AccountSurplus, Books
<1>12. r.books = k /\ (r.ok => run.ok) /\ r.backToNormalMode = run.backToNormalMode
  BY <1>1, <1>2, <1>3, <1>4 DEF CloseInRun, RunRecords
<1>13. OnlyTrove(s, k, b)
  BY <1>6, <1>7, <1>9, <1>11 DEF OnlyTrove
<1>14. SameTerms(s, k)
  BY <1>6, <1>8, <1>9, <1>11 DEF SameTerms
<1> QED
  BY <1>1, <1>10, <1>11, <1>12, <1>13, <1>14

\* As far as the loop has come, every trove is what it was or has been closed,
\* and its ratio was below the limit when the transaction began.
RiskyOrKept(s, r, limit) ==
    \A x \in Borrowers : \/ r.troves[x] = s.troves[x]
                         \/ /\ r.troves[x].status = "closedByLiquidation"
                            /\ ICR(s, x) < limit

Judged(s, run, limit) ==
    run.ok => SameTerms(s, run.books) /\ RiskyOrKept(s, run.books, limit)

\* While the loop is in recovery mode the system's ratio, as it counts it, is
\* below CCR.
InMode(run) ==
    run.ok /\ ~ run.backToNormalMode =>
       /\ CR(run.systemCollVC, run.systemDebt) \in Nat
       /\ CR(run.systemCollVC, run.systemDebt) < CCR

\* Closing a trove that is below the limit.
LEMMA ClosesJudged ==
    ASSUME NEW s, NEW limit, NEW run, RunInv(run), Judged(s, run, limit), NEW b \in Borrowers,
           active(run.books, b), run.ok => ICR(run.books, b) < limit,
           NEW r, Closes(run, b, r)
    PROVE  Judged(s, r, limit) /\ r.backToNormalMode = run.backToNormalMode
<1>1. PICK v, shares :
       /\ Shares(v, EntireDebt(run.books, b), CollToLiquidate(run.books, b), run.remaining)
       /\ r = CloseInRun(run, b, v, shares)
  BY DEF Closes
<1>2. v.collSurplus \in Bundles
  BY <1>1 DEF Shares
<1>3. /\ OnlyTrove(run.books, r.books, b)
      /\ r.books.troves[b].status = "closedByLiquidation"
      /\ SameTerms(run.books, r.books)
      /\ r.ok => run.ok
      /\ r.backToNormalMode = run.backToNormalMode
  BY <1>1, <1>2, ClosedInRun
<1>4. ASSUME r.ok PROVE SameTerms(s, r.books) /\ RiskyOrKept(s, r.books, limit)
  <2>1. /\ run.ok /\ SameTerms(s, run.books) /\ RiskyOrKept(s, run.books, limit)
        /\ ICR(run.books, b) < limit
    BY <1>3, <1>4 DEF Judged
  <2>2. SameTerms(s, r.books)
    BY <1>3, <2>1 DEF SameTerms
  <2>3. run.books.troves[b] = s.troves[b]
    BY <2>1 DEF RiskyOrKept, active
  <2>4. ICR(s, b) < limit
    BY <2>1, <2>3, SameRatio
  <2>5. RiskyOrKept(s, r.books, limit)
    BY <1>3, <2>1, <2>4 DEF RiskyOrKept, OnlyTrove
  <2> QED
    BY <2>2, <2>5
<1> QED
  BY <1>3, <1>4 DEF Judged

\* A turn in normal mode closes nobody at or above MCR.
LEMMA NormalJudged ==
    ASSUME NEW s, NEW limit \in Nat, MCR <= limit, NEW run, RunInv(run), Judged(s, run, limit),
           NEW b \in Borrowers, NEW p \in Bundles, price = p,
           NEW r, r = TurnNormal(run, b)
    PROVE  Judged(s, r, limit) /\ r.backToNormalMode = run.backToNormalMode
<1>1. CASE ICR(run.books, b) < MCR
  <2>1. ICR(run.books, b) \in Nat /\ (~ active(run.books, b) => ICR(run.books, b) >= MCR)
    BY RunParts, RatioNat
  <2>2. active(run.books, b) /\ ICR(run.books, b) < limit
    BY <1>1, <2>1, Constants
  <2>3. r = LiquidateNormalMode(run, b)
    BY <1>1 DEF TurnNormal
  <2>4. r = [run EXCEPT !.ok = FALSE] \/ Closes(run, b, r)
    BY <2>2, <2>3, NormalModeWays
  <2>5. r = [run EXCEPT !.ok = FALSE] => ~ r.ok /\ r.backToNormalMode = run.backToNormalMode
    BY RunParts DEF RunRecords
  <2>6. Closes(run, b, r) => Judged(s, r, limit) /\ r.backToNormalMode = run.backToNormalMode
    BY <2>2, ClosesJudged
  <2> QED
    BY <2>4, <2>5, <2>6 DEF Judged
<1>2. CASE ~ (ICR(run.books, b) < MCR)
  BY <1>2 DEF TurnNormal
<1> QED
  BY <1>1, <1>2

\* A turn in recovery mode closes nobody at or above CCR.
LEMMA RecoveryJudged ==
    ASSUME NEW s, NEW run, RunInv(run), Judged(s, run, CCR), InMode(run),
           NEW b \in Borrowers, NEW p \in Bundles, price = p,
           NEW r, r = TurnRecovery(run, b)
    PROVE  Judged(s, r, CCR) /\ InMode(r)
<1>0. CCR \in Nat /\ MCR \in Nat /\ MCR <= CCR
  BY Constants, LedgerAssumption
<1>1. CASE ~ active(run.books, b)
  BY <1>1 DEF TurnRecovery
<1>2. CASE active(run.books, b) /\ run.backToNormalMode
  <2>1. r = TurnNormal(run, b)
    BY <1>2 DEF TurnRecovery
  <2>2. Judged(s, r, CCR) /\ r.backToNormalMode = run.backToNormalMode
    BY <1>0, <2>1, NormalJudged
  <2> QED
    BY <1>2, <2>2 DEF InMode
<1>3. CASE active(run.books, b) /\ ~ run.backToNormalMode
  <2>1. PICK m : m = LiquidateRecoveryMode(run, b)
    OBVIOUS
  <2>2. r \in {run, LookAtMode(m)}
    BY <1>3, <2>1 DEF TurnRecovery
  <2>3. \/ m = run
        \/ m = [run EXCEPT !.ok = FALSE]
        \/ /\ Closes(run, b, m)
           /\ \/ ICR(run.books, b) < MCR
              \/ AICR(run.books, b) < CR(run.systemCollVC, run.systemDebt)
    BY <1>3, <2>1, RecoveryModeWays
  <2>4. Judged(s, m, CCR)
    <3>1. m = [run EXCEPT !.ok = FALSE] => ~ m.ok
      BY RunParts DEF RunRecords
    <3>2. ASSUME Closes(run, b, m),
                 \/ ICR(run.books, b) < MCR
                 \/ AICR(run.books, b) < CR(run.systemCollVC, run.systemDebt)
          PROVE  Judged(s, m, CCR)
      <4>1. /\ ICR(run.books, b) \in Nat /\ AICR(run.books, b) \in Nat
            /\ ICR(run.books, b) <= AICR(run.books, b)
        BY RunParts, IndividualRatios
      <4>2. run.ok => ICR(run.books, b) < CCR
        BY <1>0, <1>3, <3>2, <4>1 DEF InMode
      <4> QED
        BY <1>3, <3>2, <4>2, ClosesJudged
    <3> QED
      BY <2>3, <3>1, <3>2 DEF Judged
  <2>5. RunInv(m)
    BY <1>3, <2>1, RecoveryModeKeeps
  <2>6. Judged(s, LookAtMode(m), CCR) /\ InMode(LookAtMode(m))
    <3>1. PICK q : q = LookAtMode(m)
      OBVIOUS
    <3>2. m \in RunRecords /\ m.systemDebt \in Int /\ m.systemCollVC \in Int
      BY <2>5 DEF RunInv, RunRecords
    <3>3. /\ q.books = m.books /\ q.ok = (m.ok /\ m.systemDebt >= 0 /\ m.systemCollVC >= 0)
          /\ q.systemDebt = m.systemDebt /\ q.systemCollVC = m.systemCollVC
          /\ q.backToNormalMode = (CR(m.systemCollVC, m.systemDebt) >= CCR)
      BY <3>1, <3>2 DEF LookAtMode, RunRecords
    <3>4. Judged(s, q, CCR)
      BY <2>4, <3>3 DEF Judged
    <3>5. InMode(q)
      <4> SUFFICES ASSUME q.ok, ~ q.backToNormalMode
                   PROVE  CR(q.systemCollVC, q.systemDebt) \in Nat /\ CR(q.systemCollVC, q.systemDebt) < CCR
        BY DEF InMode
      <4>0. m.systemDebt >= 0 /\ m.systemCollVC >= 0
        BY <3>3, Zenon
      <4>1. PICK vc \in Nat, d \in Nat : vc = m.systemCollVC /\ d = m.systemDebt
        BY <3>2, <4>0
      <4>3. ~ (CR(vc, d) >= CCR)
        BY <3>3, <4>1, Zenon
      <4>2. CR(vc, d) \in Nat
        <5>1. vc <= vc
          OBVIOUS
        <5> QED
          BY <5>1, RatioGrows
      <4> QED
        BY <1>0, <3>3, <4>1, <4>2, <4>3
    <3> QED
      BY <3>1, <3>4, <3>5
  <2> QED
    BY <2>2, <2>6
<1> QED
  BY <1>1, <1>2, <1>3

\* At the start of a batch in recovery mode the system's ratio, with the values
\* that are counted for a trove, is below CCR.
LEMMA BeginsInMode ==
    ASSUME NEW s, Sound(s), NoUnderflow(s), NEW p \in Bundles, price = p, RecoveryMode(s)
    PROVE  InMode(StartOf(s))
<1>1. PICK c \in Bundles, d \in Nat : c = SystemColl(s) /\ d = SystemDebt(s)
  <2>1. s \in Books
    BY DEF Sound
  <2>2. s.pools.activeColl \in Bundles /\ s.pools.defaultColl \in Bundles
    <3>1. s.pools.activeColl \in IntBundles /\ s.pools.defaultColl \in IntBundles
      BY <2>1, BookParts
    <3> QED
      BY <3>1 DEF NoUnderflow, IntBundles, Bundles
  <2>3. SystemColl(s) \in Bundles
    BY <2>2 DEF SystemColl, Plus, Bundles
  <2>4. SystemDebt(s) \in Nat
    BY <2>1, BookParts DEF SystemDebt, NoUnderflow
  <2> QED
    BY <2>3, <2>4
<1>2. VC(c) \in Nat /\ RVC(c) \in Nat /\ VC(c) <= RVC(c)
  BY SafetyBelowRecovery
<1>3. PICK v \in Nat, w \in Nat : v = VC(c) /\ w = RVC(c) /\ v <= w
  BY <1>2
<1>4. CR(v, d) \in Nat /\ CR(w, d) \in Nat /\ CR(v, d) <= CR(w, d)
  BY <1>3, RatioGrows
<1>5. CR(w, d) < CCR
  BY <1>1, <1>3 DEF RecoveryMode, TCR
<1>6. CR(v, d) < CCR
  BY <1>4, <1>5, Constants
<1>7. StartOf(s).systemCollVC = v /\ StartOf(s).systemDebt = d
  BY <1>1, <1>3 DEF StartOf
<1> QED
  BY <1>4, <1>6, <1>7 DEF InMode

\* A batch closes only troves that were below the limit of the mode.
LEMMA RunJudges ==
    ASSUME NEW s, InOrder(s), NoUnderflow(s), s.star.stabilityPool \in Nat,
           NEW borrowers \in Seq(Borrowers), NEW p \in Bundles, price = p,
           NEW limit, limit = IF RecoveryMode(s) THEN CCR ELSE MCR
    PROVE  Judged(s, LiquidationRun(s, borrowers), limit)
<1>1. PICK start : start = StartOf(s)
  OBVIOUS
<1>2. /\ RunInv(start)
      /\ LiquidationRun(s, borrowers) =
                IF RecoveryMode(s) THEN FoldLeft(TurnRecovery, start, borrowers)
                ELSE FoldLeft(TurnNormal, start, borrowers)
  BY <1>1, RunBegins DEF InOrder
<1>3. ASSUME NEW l PROVE Judged(s, start, l)
  BY <1>1 DEF StartOf, Judged, SameTerms, RiskyOrKept
<1>6. PICK n \in Nat : n = Len(borrowers)
  BY LenProperties
<1>7. \A k \in 1..n : borrowers[k] \in Borrowers
  BY <1>6, LenProperties
<1>8. CASE ~ RecoveryMode(s)
  <2>1. PICK f : /\ f[0] = start
                 /\ \A k \in 1..n : f[k] = TurnNormal(f[k - 1], borrowers[k])
                 /\ f[n] = FoldLeft(TurnNormal, start, borrowers)
    BY <1>6, NormalRun
  <2> DEFINE G == {k \in 0..n : RunInv(f[k]) /\ Judged(s, f[k], MCR)}
  <2>2. 0 \in G
    BY <1>2, <1>3, <2>1
  <2>3. ASSUME NEW k \in 1..n, k - 1 \in G PROVE k \in G
    <3>1. PICK b, m, r : b \in Borrowers /\ m = f[k - 1] /\ r = f[k] /\ b = borrowers[k]
      BY <1>7
    <3>2. RunInv(m) /\ Judged(s, m, MCR) /\ r = TurnNormal(m, b)
      BY <2>1, <2>3, <3>1
    <3>3. RunInv(r)
      BY <3>1, <3>2, TurnNormalKeeps
    <3>4. MCR \in Nat /\ MCR <= MCR
      BY Constants
    <3>5. Judged(s, r, MCR)
      BY <3>1, <3>2, <3>4, NormalJudged
    <3> QED
      BY <3>1, <3>3, <3>5
  <2> HIDE DEF G
  <2>4. n \in G
    BY <2>2, <2>3, Reaches
  <2>5. Judged(s, f[n], MCR)
    BY <2>4 DEF G
  <2> QED
    BY <1>2, <1>8, <2>1, <2>5
<1>9. CASE RecoveryMode(s)
  <2>1. PICK f : /\ f[0] = start
                 /\ \A k \in 1..n : f[k] = TurnRecovery(f[k - 1], borrowers[k])
                 /\ f[n] = FoldLeft(TurnRecovery, start, borrowers)
    BY <1>6, RecoveryRun
  <2> DEFINE G == {k \in 0..n : RunInv(f[k]) /\ Judged(s, f[k], CCR) /\ InMode(f[k])}
  <2>2. 0 \in G
    <3>1. InMode(start)
      BY <1>1, <1>9, BeginsInMode DEF InOrder
    <3> QED
      BY <1>2, <1>3, <2>1, <3>1
  <2>3. ASSUME NEW k \in 1..n, k - 1 \in G PROVE k \in G
    <3>1. PICK b, m, r : b \in Borrowers /\ m = f[k - 1] /\ r = f[k] /\ b = borrowers[k]
      BY <1>7
    <3>2. RunInv(m) /\ Judged(s, m, CCR) /\ InMode(m) /\ r = TurnRecovery(m, b)
      BY <2>1, <2>3, <3>1
    <3>3. RunInv(r)
      BY <3>1, <3>2, TurnRecoveryKeeps
    <3>4. Judged(s, r, CCR) /\ InMode(r)
      BY <3>1, <3>2, RecoveryJudged
    <3> QED
      BY <3>1, <3>3, <3>4
  <2> HIDE DEF G
  <2>4. n \in G
    BY <2>2, <2>3, Reaches
  <2>5. Judged(s, f[n], CCR)
    BY <2>4 DEF G
  <2> QED
    BY <1>2, <1>9, <2>1, <2>5
<1> QED
  BY <1>8, <1>9

-----------------------------------------------------------------------------
(* Nobody but a batch of liquidations makes a trove one that was           *)
(* liquidated.                                                             *)

\* As much of the shape of the books as the status of a trove takes.
Outlined(s) ==
    /\ s = [x \in DOMAIN s |-> s[x]] /\ "troves" \in DOMAIN s
    /\ s.troves = [b \in Borrowers |-> s.troves[b]]
    /\ \A b \in Borrowers : /\ s.troves[b] = [x \in DOMAIN s.troves[b] |-> s.troves[b][x]]
                            /\ "status" \in DOMAIN s.troves[b]

\* No trove of r has been liquidated that is not liquidated in s.
Spared(s, r) ==
    Outlined(s) =>
       /\ Outlined(r)
       /\ \A b \in Borrowers : r.troves[b].status = "closedByLiquidation"
                                  => s.troves[b].status = "closedByLiquidation"

\* One such step may follow another.
LEMMA SparedTwice ==
    ASSUME NEW s, NEW m, Spared(s, m), NEW r, Spared(m, r)
    PROVE  Spared(s, r)
BY DEF Spared

\* What is done to the pools, the STAR or the terms spares everybody.
LEMMA OthersSpare ==
    ASSUME NEW s, NEW r, Outlined(s) => /\ r = [x \in DOMAIN r |-> r[x]] /\ "troves" \in DOMAIN r
                                        /\ r.troves = s.troves
    PROVE  Spared(s, r)
BY DEF Spared, Outlined

\* A trove's own parts are changed.
LEMMA PartsSpare ==
    ASSUME NEW s, NEW b \in Borrowers, NEW v
    PROVE  /\ Spared(s, [s EXCEPT !.troves[b].tokens = v])
           /\ Spared(s, [s EXCEPT !.troves[b].colls = v])
           /\ Spared(s, [s EXCEPT !.troves[b].stakes = v])
           /\ Spared(s, [s EXCEPT !.terms = v])
<1>1. Spared(s, [s EXCEPT !.troves[b].tokens = v])
  BY DEF Spared, Outlined
<1>2. Spared(s, [s EXCEPT !.troves[b].colls = v])
  BY DEF Spared, Outlined
<1>3. Spared(s, [s EXCEPT !.troves[b].stakes = v])
  BY DEF Spared, Outlined
<1>4. Spared(s, [s EXCEPT !.terms = v])
  BY DEF Spared, Outlined
<1> QED
  BY <1>1, <1>2, <1>3, <1>4

\* So do the steps that operations are made of.
LEMMA StepsSpare ==
    ASSUME NEW s, NEW b \in Borrowers
    PROVE  /\ \A d, c : Spared(s, MovePending(s, d, c))
           /\ \A d, m : Spared(s, Lend(s, d, m))
           /\ \A a : Spared(s, Burn(s, a))
           /\ \A c : Spared(s, AccountSurplus(s, b, c)) /\ Spared(s, SendSurplus(s, c))
           /\ Spared(s, UpdateRewardSnapshots(s, b))
           /\ Spared(s, RemoveStake(s, b))
           /\ \A T, c : Spared(s, SetCollAndStake(s, b, T, c))
           /\ \A st : st # "closedByLiquidation" => Spared(s, CloseTroveAs(s, b, st))
<1>1. ASSUME NEW d, NEW c PROVE Spared(s, MovePending(s, d, c))
  BY DEF Spared, Outlined, MovePending
<1>2. ASSUME NEW d, NEW m PROVE Spared(s, Lend(s, d, m))
  BY DEF Spared, Outlined, Lend
<1>3. ASSUME NEW a PROVE Spared(s, Burn(s, a))
  BY DEF Spared, Outlined, Burn
<1>4. ASSUME NEW c PROVE Spared(s, AccountSurplus(s, b, c)) /\ Spared(s, SendSurplus(s, c))
  BY DEF Spared, Outlined, AccountSurplus, SendSurplus
<1>5. Spared(s, UpdateRewardSnapshots(s, b))
  BY DEF Spared, Outlined, UpdateRewardSnapshots
<1>6. Spared(s, RemoveStake(s, b))
  BY DEF Spared, Outlined, RemoveStake
<1>7. ASSUME NEW T, NEW c PROVE Spared(s, SetCollAndStake(s, b, T, c))
  <2> DEFINE stake(t) == IF t \in T THEN ComputeNewStake(s, t, c[t]) ELSE s.troves[b].stakes[t]
  <2>2. PICK A, B : /\ A = [t \in Tokens |-> stake(t)]
                    /\ B = [t \in Tokens |-> [s.terms[t] EXCEPT
                              !.totalStakes = @ - s.troves[b].stakes[t] + stake(t)]]
    OBVIOUS
  <2>1. SetCollAndStake(s, b, T, c) =
          [s EXCEPT !.troves[b].tokens = T, !.troves[b].colls = c, !.troves[b].stakes = A, !.terms = B]
    BY <2>2, Zenon DEF SetCollAndStake
  <2> HIDE DEF stake
  <2>3. PICK x, y, z, r : /\ x = [s EXCEPT !.troves[b].tokens = T]
                          /\ y = [x EXCEPT !.troves[b].colls = c]
                          /\ z = [y EXCEPT !.troves[b].stakes = A]
                          /\ r = [z EXCEPT !.terms = B]
    OBVIOUS
  <2>4. Spared(s, [s EXCEPT !.troves[b].tokens = T])
    BY PartsSpare
  <2>5. Spared(x, [x EXCEPT !.troves[b].colls = c])
    BY PartsSpare
  <2>6. Spared(y, [y EXCEPT !.troves[b].stakes = A])
    BY PartsSpare
  <2>7. Spared(z, [z EXCEPT !.terms = B])
    BY PartsSpare
  <2>9. Spared(s, x) /\ Spared(x, y) /\ Spared(y, z) /\ Spared(z, r)
    BY <2>3, <2>4, <2>5, <2>6, <2>7
  <2>8. r = [s EXCEPT !.troves[b].tokens = T, !.troves[b].colls = c, !.troves[b].stakes = A, !.terms = B]
    BY <2>3
  <2> QED
    BY <2>1, <2>8, <2>9, SparedTwice
<1>8. ASSUME NEW st, st # "closedByLiquidation" PROVE Spared(s, CloseTroveAs(s, b, st))
  BY <1>8 DEF Spared, Outlined, CloseTroveAs
<1> QED
  BY <1>1, <1>2, <1>3, <1>4, <1>5, <1>6, <1>7, <1>8

\* Pending rewards are applied.
LEMMA ApplySpares ==
    ASSUME NEW s, NEW b \in Borrowers
    PROVE  Spared(s, ApplyPendingRewards(s, b))
<1>1. CASE hasPendingRewards(s, b)
  <2>1. PICK d, c, m, n : /\ d = PendingDebt(s, b) /\ c = PendingColl(s, b)
                          /\ m = [s EXCEPT !.troves[b] = [s.troves[b] EXCEPT !.debt = EntireDebt(s, b),
                                                                          !.colls = EntireColl(s, b)]]
                          /\ n = UpdateRewardSnapshots(m, b)
    OBVIOUS
  <2>2. PICK d2, c2 : m = [s EXCEPT !.troves[b] = [s.troves[b] EXCEPT !.debt = d2, !.colls = c2]]
    BY <2>1
  <2>3. Spared(s, m)
    BY <2>2 DEF Spared, Outlined
  <2>4. Spared(m, n) /\ Spared(n, MovePending(n, d, c))
    BY <2>1, StepsSpare
  <2>5. ApplyPendingRewards(s, b) = MovePending(n, d, c)
    BY <1>1, <2>1 DEF ApplyPendingRewards
  <2> QED
    BY <2>3, <2>4, <2>5, SparedTwice
<1>2. CASE ~ hasPendingRewards(s, b)
  BY <1>2 DEF ApplyPendingRewards, Spared
<1> QED
  BY <1>1, <1>2

\* A trove is entered.
LEMMA EnterSpares ==
    ASSUME NEW s, NEW b \in Borrowers, NEW colls, NEW debt
    PROVE  Spared(s, EnterTrove(s, b, colls, debt))
<1>1. PICK m, n, T : /\ m = [s EXCEPT !.troves[b].status = "active", !.troves[b].debt = @ + debt]
                     /\ T = HeldIn(colls) /\ n = SetCollAndStake(m, b, T, colls)
  OBVIOUS
<1>2. Spared(s, m)
  BY <1>1 DEF Spared, Outlined
<1>3. Spared(m, n) /\ Spared(n, UpdateRewardSnapshots(n, b))
  BY <1>1, StepsSpare
<1>4. EnterTrove(s, b, colls, debt) = UpdateRewardSnapshots(n, b)
  BY <1>1 DEF EnterTrove
<1> QED
  BY <1>2, <1>3, <1>4, SparedTwice

\* What is left of a trove after a redemption.
LEMMA AfterRedemptionSpares ==
    ASSUME NEW s, NEW b \in Borrowers, NEW newDebt, NEW rest
    PROVE  Spared(s, AfterRedemption(s, b, newDebt, rest))
<1>1. CASE newDebt = GasCompensation
  <2>1. PICK m, n, k, j : /\ m = RemoveStake(s, b) /\ n = CloseTroveAs(m, b, "closedByRedemption")
                          /\ k = Burn(n, GasCompensation)
                          /\ j = [k EXCEPT !.star.gasPool = @ - GasCompensation]
    OBVIOUS
  <2>2. Spared(s, m) /\ Spared(m, n) /\ Spared(n, k)
    BY <2>1, StepsSpare
  <2>3. Spared(k, j)
    BY <2>1 DEF Spared, Outlined
  <2>4. PICK i : i = AccountSurplus(j, b, rest)
    OBVIOUS
  <2>5. Spared(j, i) /\ Spared(i, SendSurplus(i, rest))
    BY <2>4, StepsSpare
  <2>6. AfterRedemption(s, b, newDebt, rest) = SendSurplus(i, rest)
    BY <1>1, <2>1, <2>4 DEF AfterRedemption, RedeemCloseTrove
  <2> QED
    BY <2>2, <2>3, <2>5, <2>6, SparedTwice
<1>2. CASE newDebt # GasCompensation
  <2>1. PICK m, T : m = [s EXCEPT !.troves[b].debt = newDebt] /\ T = s.troves[b].tokens
    OBVIOUS
  <2>2. Spared(s, m)
    BY <2>1 DEF Spared, Outlined
  <2>3. Spared(m, SetCollAndStake(m, b, T, rest))
    BY StepsSpare
  <2>4. AfterRedemption(s, b, newDebt, rest) = SetCollAndStake(m, b, T, rest)
    BY <1>2, <2>1 DEF AfterRedemption
  <2> QED
    BY <2>2, <2>3, <2>4, SparedTwice
<1> QED
  BY <1>1, <1>2

\* What a redemption pays leaves the troves alone.
LEMMA PayOutSpares ==
    ASSUME NEW s, NEW redeemed, NEW drawn
    PROVE  Spared(s, PayOut(s, redeemed, drawn))
<1>1. PICK k, c : k = Burn(s, redeemed) /\ c = Minus(k.pools.activeColl, drawn)
  OBVIOUS
<1>2. PayOut(s, redeemed, drawn) = [k EXCEPT !.pools.activeColl = c]
  BY <1>1 DEF PayOut
<1>3. Spared(s, k)
  BY <1>1 DEF Spared, Outlined, Burn
<1>4. Spared(k, [k EXCEPT !.pools.activeColl = c])
  BY DEF Spared, Outlined
<1> QED
  BY <1>2, <1>3, <1>4, SparedTwice

\* The loop of a redemption.
SparedInLoop(s, run) ==
    run = [x \in DOMAIN run |-> run[x]] /\ "books" \in DOMAIN run /\ Spared(s, run.books)

\* One turn of it.
LEMMA TurnSpares ==
    ASSUME NEW s, NEW run, SparedInLoop(s, run), NEW b \in Borrowers, NEW hint
    PROVE  SparedInLoop(s, RedeemTurn(hint, run, b))
<1>1. PICK m : m = ApplyPendingRewards(run.books, b)
  OBVIOUS
<1>2. Spared(s, m)
  BY <1>1, ApplySpares, SparedTwice DEF SparedInLoop
<1>3. PICK r : r = RedeemLot(run, m, b, hint)
  OBVIOUS
<1>4. PICK lot, drawn, newDebt, rest :
        /\ lot = Min({run.remaining, m.troves[b].debt - GasCompensation})
        /\ drawn = Drawn(m.troves[b].colls, lot)
        /\ newDebt = m.troves[b].debt - lot
        /\ rest = Minus(m.troves[b].colls, drawn)
  OBVIOUS
<1>5. PICK broke, cancelled :
        /\ broke = (USD(m.troves[b].colls) = 0 \/ \E t \in Tokens : drawn[t] > m.troves[b].colls[t])
        /\ cancelled = (newDebt # GasCompensation /\ ~ PartialAllowed(newDebt, hint))
  OBVIOUS
<1>6. ASSUME broke PROVE SparedInLoop(s, r)
  <2>1. r = [run EXCEPT !.ok = FALSE]
    BY <1>3, <1>4, <1>5, <1>6 DEF RedeemLot
  <2> QED
    BY <2>1 DEF SparedInLoop
<1>7. ASSUME ~ broke /\ cancelled PROVE SparedInLoop(s, r)
  <2>1. r = [run EXCEPT !.books = m, !.stopped = TRUE]
    BY <1>3, <1>4, <1>5, <1>7 DEF RedeemLot
  <2> QED
    BY <1>2, <2>1 DEF SparedInLoop
<1>8. ASSUME ~ broke /\ ~ cancelled PROVE SparedInLoop(s, r)
  <2>1. PICK a, ok, rem, red, dr :
          /\ a = AfterRedemption(m, b, newDebt, rest)
          /\ ok = (/\ run.ok /\ (newDebt = GasCompensation => CanClose(m))
                   /\ (newDebt # GasCompensation => \A t \in m.troves[b].tokens : CanStake(m, t)))
          /\ rem = run.remaining - lot /\ red = run.redeemed + lot /\ dr = Plus(run.drawn, drawn)
    OBVIOUS
  <2>2. r = [run EXCEPT !.books = a, !.ok = ok, !.remaining = rem, !.redeemed = red, !.drawn = dr]
    BY <1>3, <1>4, <1>5, <1>8, <2>1 DEF RedeemLot
  <2>3. Spared(s, a)
    BY <1>2, <2>1, AfterRedemptionSpares, SparedTwice
  <2> QED
    BY <2>2, <2>3 DEF SparedInLoop
<1>9. SparedInLoop(s, r)
  BY <1>6, <1>7, <1>8
<1>10. RedeemTurn(hint, run, b) \in {run, r}
  BY <1>1, <1>3 DEF RedeemTurn, RedeemFromTrove
<1> QED
  BY <1>9, <1>10

\* The transactions that spare everybody.
SparesBooks == \E q : Spared(books, q) /\ Commit(q)

\* A new trove.
LEMMA OpenSpares ==
    ASSUME NEW b \in Borrowers, NEW colls, NEW amount, NEW f, NEW v, OpenTrove(b, colls, amount, f, v)
    PROVE  SparesBooks
<1>1. PICK debt, minted, e, c, m, k, g, q :
        /\ debt = amount + (v + (IF RecoveryMode(books) THEN 0 ELSE f)) + GasCompensation
        /\ minted = amount + (FeeMinted(v) + (IF RecoveryMode(books) THEN 0 ELSE FeeMinted(f)))
                       + GasCompensation
        /\ e = EnterTrove(books, b, colls, debt)
        /\ c = Plus(e.pools.activeColl, colls)
        /\ m = [e EXCEPT !.pools.activeColl = c]
        /\ k = Lend(m, debt, minted)
        /\ g = k.star.gasPool + GasCompensation
        /\ q = [k EXCEPT !.star.gasPool = g]
  OBVIOUS
<1>2. Spared(books, e)
  BY <1>1, EnterSpares
<1>3. Spared(e, [e EXCEPT !.pools.activeColl = c])
  BY DEF Spared, Outlined
<1>4. Spared(m, k)
  BY <1>1, StepsSpare
<1>5. Spared(k, [k EXCEPT !.star.gasPool = g])
  BY DEF Spared, Outlined
<1>6. Spared(books, q)
  <2>1. Spared(e, m) /\ Spared(k, q)
    BY <1>1, <1>3, <1>5
  <2> QED
    BY <1>2, <1>4, <2>1, SparedTwice
<1>7. Commit(q)
  BY <1>1 DEF OpenTrove
<1> QED
  BY <1>6, <1>7 DEF SparesBooks

\* A trove adjusted.
LEMMA AdjustSpares ==
    ASSUME NEW b \in Borrowers, NEW collsIn, NEW collsOut, NEW change, NEW f, NEW v,
           AdjustTrove(b, collsIn, collsOut, change, f, v)
    PROVE  SparesBooks
<1>1. PICK s : s = ApplyPendingRewards(books, b)
  OBVIOUS
<1>2. PICK f1, f2, colls, tokens : 
        /\ f1 = IF change > 0 /\ ~ RecoveryMode(books) THEN f ELSE 0
        /\ f2 = IF collsIn = NoColl THEN 0 ELSE v
        /\ colls = Minus(Plus(s.troves[b].colls, collsIn), collsOut)
        /\ tokens = (s.troves[b].tokens \cup HeldIn(collsIn)) \ {t \in HeldIn(collsOut) : colls[t] = 0}
  OBVIOUS
<1>3. PICK m, n, c, k, x, minted :
        /\ m = [s EXCEPT !.troves[b].debt = @ + (change + f1) + f2]
        /\ n = SetCollAndStake(m, b, tokens, colls)
        /\ c = Minus(Plus(n.pools.activeColl, collsIn), collsOut)
        /\ k = [n EXCEPT !.pools.activeColl = c]
        /\ x = (change + f1) + f2
        /\ minted = change + FeeMinted(f1) + FeeMinted(f2)
  OBVIOUS
<1>4. Spared(books, s)
  BY <1>1, ApplySpares
<1>5. Spared(s, [s EXCEPT !.troves[b].debt = @ + (change + f1) + f2])
  BY DEF Spared, Outlined
<1>6. Spared(m, n)
  BY <1>3, StepsSpare
<1>7. Spared(n, [n EXCEPT !.pools.activeColl = c])
  BY DEF Spared, Outlined
<1>8. Spared(k, Lend(k, x, minted))
  BY StepsSpare
<1>9. Spared(books, Lend(k, x, minted))
  <2>1. Spared(s, m) /\ Spared(n, k)
    BY <1>3, <1>5, <1>7
  <2> QED
    BY <1>4, <1>6, <1>8, <2>1, SparedTwice
<1>10. AdjustApplied(s, b, collsIn, collsOut, change, f, v)
  BY <1>1 DEF AdjustTrove
<1>11. Commit(Lend(k, x, minted))
  <2>1. Commit(Lend([SetCollAndStake([s EXCEPT !.troves[b].debt = @ + (change + f1) + f2], b, tokens, colls)
                        EXCEPT !.pools.activeColl = Minus(Plus(@, collsIn), collsOut)],
                    (change + f1) + f2, change + FeeMinted(f1) + FeeMinted(f2)))
    <3>1. tokens = (s.troves[b].tokens \cup HeldIn(collsIn))
             \ {t \in HeldIn(collsOut) : Minus(Plus(s.troves[b].colls, collsIn), collsOut)[t] = 0}
      BY <1>2
    <3>2. /\ colls = Minus(Plus(s.troves[b].colls, collsIn), collsOut)
          /\ f1 = IF change > 0 /\ ~ RecoveryMode(books) THEN f ELSE 0
          /\ f2 = IF collsIn = NoColl THEN 0 ELSE v
      BY <1>2
    <3> QED
      BY <1>10, <3>1, <3>2 DEF AdjustApplied
  <2> QED
    BY <1>3, <2>1
<1> QED
  BY <1>9, <1>11 DEF SparesBooks

\* A trove closed by its owner.
LEMMA OwnerCloseSpares ==
    ASSUME NEW b \in Borrowers, CloseTrove(b)
    PROVE  SparesBooks
<1>1. PICK s, m, n, debt, k, g, c, q :
        /\ s = ApplyPendingRewards(books, b) /\ m = RemoveStake(s, b)
        /\ n = CloseTroveAs(m, b, "closedByOwner") /\ debt = s.troves[b].debt
        /\ k = Burn(n, debt) /\ g = k.star.gasPool - GasCompensation
        /\ c = Minus(k.pools.activeColl, s.troves[b].colls)
        /\ q = [k EXCEPT !.star.gasPool = g, !.pools.activeColl = c]
  OBVIOUS
<1>2. Spared(books, s)
  BY <1>1, ApplySpares
<1>3. Spared(s, m) /\ Spared(m, n) /\ Spared(n, k)
  BY <1>1, StepsSpare
<1>4. Spared(k, [k EXCEPT !.star.gasPool = g, !.pools.activeColl = c])
  BY DEF Spared, Outlined
<1>5. Spared(books, q)
  <2>1. Spared(k, q)
    BY <1>1, <1>4
  <2> QED
    BY <1>2, <1>3, <2>1, SparedTwice
<1>6. Commit(q)
  BY <1>1 DEF CloseTrove, CloseApplied
<1> QED
  BY <1>5, <1>6 DEF SparesBooks

\* A surplus claimed.
LEMMA ClaimSpares ==
    ASSUME NEW b \in Borrowers, ClaimCollateral(b)
    PROVE  SparesBooks
<1>1. PICK q : q = [books EXCEPT !.pools.surplusOf[b] = NoColl,
                                 !.pools.surplusColl = Minus(@, pools.surplusOf[b])]
  OBVIOUS
<1>2. Commit(q)
  BY <1>1 DEF ClaimCollateral
<1>3. PICK s : s = books
  OBVIOUS
<1>4. Spared(s, [s EXCEPT !.pools.surplusOf[b] = NoColl,
                                 !.pools.surplusColl = Minus(@, pools.surplusOf[b])])
  BY DEF Spared, Outlined
<1> QED
  BY <1>1, <1>2, <1>3, <1>4 DEF SparesBooks

\* STAR put into the StabilityPool or taken out of it.
LEMMA PoolSpares ==
    ASSUME UseStabilityPool
    PROVE  SparesBooks
<1>1. PICK s : s = books
  OBVIOUS
<1>2. ASSUME NEW x PROVE Spared(s, [s EXCEPT !.star.stabilityPool = x])
  BY DEF Spared, Outlined
<1>3. PICK amount : ProvideToSP(amount) \/ \E b \in Borrowers : WithdrawFromSP(amount, b)
  BY DEF UseStabilityPool
<1>4. PICK x : Commit([books EXCEPT !.star.stabilityPool = x])
  BY <1>3 DEF ProvideToSP, WithdrawFromSP
<1> QED
  BY <1>1, <1>2, <1>4 DEF SparesBooks

\* A redemption along a list of troves.
LEMMA RedemptionSpares ==
    ASSUME NEW walk \in Seq(Borrowers), NEW amount, NEW hint, RedeemCollateral(walk, amount, hint)
    PROVE  SparesBooks
<1>1. PICK s : s = books
  OBVIOUS
<1>2. PICK n \in Nat : n = Len(walk) /\ DOMAIN walk = 1..n
  BY LenProperties
<1>3. PICK f : /\ f[0] = [books |-> s, ok |-> TRUE, stopped |-> FALSE, remaining |-> amount,
                          redeemed |-> 0, drawn |-> NoColl]
               /\ \A k \in 1..n : f[k] = RedeemTurn(hint, f[k - 1], walk[k])
               /\ f[n] = RedemptionRun(s, walk, amount, hint)
  BY <1>2, RedeemRun
<1> DEFINE G == {k \in 0..n : SparedInLoop(s, f[k])}
<1>4. 0 \in G
  BY <1>3 DEF SparedInLoop, Spared
<1>5. ASSUME NEW k \in 1..n, k - 1 \in G PROVE k \in G
  <2>1. PICK b, m, r : b \in Borrowers /\ b = walk[k] /\ m = f[k - 1] /\ r = f[k]
    BY <1>2, LenProperties
  <2>2. SparedInLoop(s, m) /\ r = RedeemTurn(hint, m, b)
    BY <1>3, <1>5, <2>1
  <2>3. SparedInLoop(s, r)
    BY <2>1, <2>2, TurnSpares
  <2> QED
    BY <2>1, <2>3
<1> HIDE DEF G
<1>6. n \in G
  BY <1>4, <1>5, Reaches
<1>7. PICK run : run = RedemptionRun(s, walk, amount, hint)
  OBVIOUS
<1>8. Spared(s, run.books)
  BY <1>3, <1>6, <1>7 DEF G, SparedInLoop
<1>9. Spared(s, PayOut(run.books, run.redeemed, run.drawn))
  BY <1>8, PayOutSpares, SparedTwice
<1>10. Commit(PayOut(run.books, run.redeemed, run.drawn))
  BY <1>1, <1>7 DEF RedeemCollateral, CommitRedemption
<1> QED
  BY <1>1, <1>9, <1>10 DEF SparesBooks

\* A redemption of one collateral of one trove.
LEMMA SingleSpares ==
    ASSUME NEW b \in Borrowers, NEW tok, NEW amount, NEW hint,
           RedeemCollateralSingle(b, tok, amount, hint)
    PROVE  SparesBooks
<1>1. PICK s : s = ApplyPendingRewards(books, b)
  OBVIOUS
<1>2. RedeemToken(s, b, tok, amount, hint)
  BY <1>1 DEF RedeemCollateralSingle
<1>3. PICK newDebt, rest, lot, drawn : Commit(PayOut(AfterRedemption(s, b, newDebt, rest), lot, drawn))
  BY <1>2 DEF RedeemToken
<1>4. PICK m : m = AfterRedemption(s, b, newDebt, rest)
  OBVIOUS
<1>5. Spared(books, s) /\ Spared(s, m) /\ Spared(m, PayOut(m, lot, drawn))
  BY <1>1, <1>4, ApplySpares, AfterRedemptionSpares, PayOutSpares
<1> QED
  BY <1>3, <1>4, <1>5, SparedTwice DEF SparesBooks

\* So whatever the transaction, if it is not a batch of liquidations.
LEMMA OtherStepsSpare ==
    ASSUME Borrow \/ Redeem \/ UseStabilityPool
    PROVE  SparesBooks
<1>1. CASE Borrow
  BY <1>1, OpenSpares, AdjustSpares, OwnerCloseSpares, ClaimSpares DEF Borrow
<1>2. CASE Redeem
  <2>1. Walks \subseteq Seq(Borrowers)
    BY InputsAssumption DEF Walks, Batches
  <2> QED
    BY <1>2, <2>1, RedemptionSpares, SingleSpares DEF Redeem
<1> QED
  BY <1>1, <1>2, PoolSpares

RiskyOnly == \A b \in Borrowers :
          Became(b, "closedByLiquidation") =>
             ICR(books, b) < (IF RecoveryMode(books) THEN CCR ELSE MCR)

\* Such a transaction liquidates nobody.
LEMMA SparedAreNotLiquidated ==
    ASSUME LedgerInv, SparesBooks
    PROVE  RiskyOnly
<1>1. PICK q : Spared(books, q) /\ Commit(q)
  BY DEF SparesBooks
<1>2. books \in Books /\ books.troves = troves
  BY DEF LedgerInv, InOrder, Sound, books
<1>3. Outlined(books)
  BY <1>2 DEF Outlined, Books, TroveRecords
<1>4. \A b \in Borrowers : q.troves[b].status = "closedByLiquidation"
                              => troves[b].status = "closedByLiquidation"
  BY <1>1, <1>2, <1>3 DEF Spared
<1>5. troves' = q.troves
  BY <1>1 DEF Commit
<1> QED
  BY <1>4, <1>5 DEF RiskyOnly, Became

\* A batch liquidates the risky only.
LEMMA BatchIsRisky ==
    ASSUME LedgerInv, Liquidate
    PROVE  RiskyOnly
<1>1. PICK s : s = books
  OBVIOUS
<1>2. InOrder(s) /\ NoUnderflow(s) /\ s.troves = troves
  BY <1>1 DEF LedgerInv, books
<1>3. s.star.stabilityPool \in Nat
  <2>1. s.star.stabilityPool \in Int
    BY <1>2, BookParts DEF InOrder, Sound
  <2> QED
    BY <1>2, <2>1 DEF NoUnderflow
<1>4. PICK p \in Bundles : price = p
  BY InputsAssumption DEF LedgerInv
<1>5. PICK batch \in Seq(Borrowers) : BatchLiquidateTroves(batch)
  BY InputsAssumption DEF Liquidate, Batches
<1>6. PICK run, r, limit : /\ run = LiquidationRun(s, batch) /\ r = SettleTotals(run)
                           /\ limit = IF RecoveryMode(s) THEN CCR ELSE MCR
  OBVIOUS
<1>7. r.ok /\ Commit(r.books)
  BY <1>1, <1>5, <1>6 DEF BatchLiquidateTroves, CommitIfOk, BatchResult
<1>8. \A t \in Tokens : r.books.pools.activeColl[t] >= 0 /\ r.books.pools.defaultColl[t] >= 0
  BY <1>7 DEF Commit, NoUnderflow
<1>9. RunInv(run)
  BY <1>2, <1>3, <1>4, <1>6, RunKeeps DEF InOrder
<1>10. run.ok /\ r.books.troves = run.books.troves
  BY <1>4, <1>6, <1>7, <1>8, <1>9, Settled
<1>11. Judged(s, run, limit)
  BY <1>2, <1>3, <1>4, <1>6, RunJudges
<1>12. \A b \in Borrowers : run.books.troves[b] = s.troves[b] \/ ICR(s, b) < limit
  BY <1>10, <1>11 DEF Judged, RiskyOrKept
<1>13. troves' = run.books.troves
  BY <1>7, <1>10 DEF Commit
<1> QED
  BY <1>1, <1>2, <1>6, <1>12, <1>13 DEF RiskyOnly, Became

\* LiquidatedWereRisky: whatever a batch has liquidated before it comes to a
\* trove, it takes the trove only if it was below MCR, or below CCR in recovery
\* mode, before the batch began; and nothing else liquidates.
THEOREM OnlyRiskyAreLiquidated == Spec => LiquidatedWereRisky
<1>1. LedgerInv /\ [Next]_vars => [RiskyOnly]_vars
  <2> SUFFICES ASSUME LedgerInv, Next PROVE RiskyOnly
    OBVIOUS
  <2>1. CASE Borrow \/ Redeem \/ UseStabilityPool
    BY <2>1, OtherStepsSpare, SparedAreNotLiquidated
  <2>2. CASE Liquidate
    BY <2>2, BatchIsRisky
  <2>3. CASE \E p \in Prices : ChangePrice(p)
    BY <2>3 DEF ChangePrice, RiskyOnly, Became
  <2> QED
    BY <2>1, <2>2, <2>3 DEF Next
<1> QED
  BY <1>1, LedgerInvariant, PTL DEF Spec, LiquidatedWereRisky, RiskyOnly

=============================================================================
