------------------------- MODULE TroveBooks_proofs -------------------------
(***************************************************************************)
(* What every internal step of a transaction does to the books, for any    *)
(* borrowers, tokens, parameters and amounts, up to the settlement of a    *)
(* batch of liquidations.                                                  *)
(*                                                                         *)
(* Two relations are carried from step to step.  Sound: the troves and the *)
(* terms hold natural numbers, the totals of the stakes are the sums of    *)
(* the stakes, no snapshot is ahead of its term, and a trove owes at least *)
(* the least debt if it is active and nothing if it is not.  Accounts: the *)
(* pools agree with the troves but for amounts that are on their way.  A   *)
(* liquidation takes a trove's debt and collateral out of its record long  *)
(* before the pools learn of it, and sends the sums of a whole batch at    *)
(* its end: agreement alone is broken inside every loop, and what the loop *)
(* keeps is that the running totals are exactly what is missing.           *)
(*                                                                         *)
(* The pools may be below zero on the way: an underflow makes the whole    *)
(* transaction revert, so that only what is committed has to be above it.  *)
(***************************************************************************)
EXTENDS TroveLedger, DataFacts, TLAPS

-----------------------------------------------------------------------------
(* The sets the books are in between two steps of a transaction: what the  *)
(* troves and the terms hold is a natural number at every moment, what the *)
(* pools hold may be below zero until the transaction is committed.        *)

IntBundles == [Tokens -> Int]

TroveRecords ==
    [status : {"nonExistent", "active", "closedByOwner",
               "closedByLiquidation", "closedByRedemption"},
     debt : Nat, tokens : SUBSET Tokens, colls : Bundles, stakes : Bundles,
     CollRewards : Bundles, STARDebts : Bundles]

TermRecords ==
    [totalStakes : Nat, totalStakesSnapshot : Nat,
     totalCollateralSnapshot : Nat, L_Coll : Nat, L_STARDebt : Nat,
     lastCollError : Nat, lastSTARDebtError : Nat]

PoolRecords ==
    [activeColl : IntBundles, activeDebt : Int, defaultColl : IntBundles,
     defaultDebt : Int, stabilityColl : Bundles, surplusColl : IntBundles,
     surplusOf : [Borrowers -> Bundles]]

StarRecords == [supply : Int, gasPool : Int, stabilityPool : Int]

Books == [troves : [Borrowers -> TroveRecords], terms : [Tokens -> TermRecords],
          pools : PoolRecords, star : StarRecords]

\* What the troves add up to.
DebtSum(s) == SumFunction([b \in Borrowers |-> s.troves[b].debt])
CollSum(s, t) == SumFunction([b \in Borrowers |-> s.troves[b].colls[t]])
StakeSum(s, t) == SumFunction([b \in Borrowers |-> s.troves[b].stakes[t]])
SurplusSum(s, t) == SumFunction([b \in Borrowers |-> s.pools.surplusOf[b][t]])

\* The troves and the terms fit together: the totals of the stakes are exact,
\* no snapshot is ahead of its term, and a trove is active exactly when it owes
\* at least the least debt.
Staked(s) == \A t \in Tokens : s.terms[t].totalStakes = StakeSum(s, t)

SnapshotsBehind(s) ==
    \A b \in Borrowers, t \in Tokens :
       /\ s.troves[b].CollRewards[t] <= s.terms[t].L_Coll
       /\ s.troves[b].STARDebts[t] <= s.terms[t].L_STARDebt

Indebted(s) ==
    \A b \in Borrowers :
       /\ active(s, b) => s.troves[b].debt >= GasCompensation + MinNetDebt
       /\ ~ active(s, b) => s.troves[b].debt = 0

Sound(s) == s \in Books /\ Staked(s) /\ SnapshotsBehind(s) /\ Indebted(s)

\* The pools agree with the troves once the debt d, the gas compensation g, the
\* collateral c and the surplus u that are on their way have arrived.
DebtAgrees(s, d) == s.pools.activeDebt = DebtSum(s) + d
GasAgrees(s, g) == s.star.gasPool = GasCompensation * OwnersCount(s) + g
CollAgrees(s, c) == \A t \in Tokens : s.pools.activeColl[t] >= CollSum(s, t) + c[t]
SurplusAgrees(s, u) == \A t \in Tokens : s.pools.surplusColl[t] + u[t] = SurplusSum(s, t)
Backed(s) == s.star.supply <= InitialSupply + s.pools.activeDebt + s.pools.defaultDebt

Accounts(s, d, g, c, u) ==
    DebtAgrees(s, d) /\ GasAgrees(s, g) /\ CollAgrees(s, c) /\ SurplusAgrees(s, u) /\ Backed(s)

-----------------------------------------------------------------------------
(* Tokens, bundles and values.                                             *)

\* The tokens are finitely many.
LEMMA TokensFinite == IsFiniteSet(Tokens)
<1>1. PICK n \in Nat : DOMAIN ValidCollateral = 1..n
  BY LedgerAssumption, LenProperties
<1>2. IsFiniteSet(1..n)
  BY FS_Interval
<1>3. ValidCollateral \in [1..n -> Tokens]
  BY <1>1, LedgerAssumption, LenProperties
<1>4. \A t \in Tokens : \E i \in 1..n : ValidCollateral[i] = t
  BY <1>1 DEF Tokens, Range
<1>5. ValidCollateral \in Surjection(1..n, Tokens)
  BY <1>3, <1>4 DEF Surjection
<1> QED
  BY <1>2, <1>5, FS_Surjection

\* A sum of naturals over the tokens is natural, and at least each of them.
LEMMA TokenSum ==
    ASSUME NEW f \in [Tokens -> Nat]
    PROVE  SumFunction(f) \in Nat /\ \A t \in Tokens : f[t] <= SumFunction(f)
<1>1. IsFiniteSet(Tokens) /\ DOMAIN f = Tokens /\ \A x \in Tokens : f[x] \in Nat
  BY TokensFinite
<1> QED
  BY <1>1, SumNat DEF SumFunction

\* A sum of integers over the tokens is an integer.
LEMMA TokenSumInt ==
    ASSUME NEW f \in [Tokens -> Int]
    PROVE  SumFunction(f) \in Int
<1>1. IsFiniteSet(Tokens) /\ DOMAIN f = Tokens /\ (\A x \in Tokens : f[x] \in Int)
      /\ Tokens \in SUBSET Tokens
  BY TokensFinite
<1> QED
  BY <1>1, SumInt DEF SumFunction

\* The constants are natural numbers, most of them not zero.
LEMMA Constants ==
    /\ Scale \in Nat \ {0} /\ Percent \in Nat \ {0} /\ MCR \in Nat \ {0} /\ CCR \in Nat \ {0}
    /\ GasDivisor \in Nat \ {0} /\ GasDivisor > 1 /\ MinNetDebt \in Nat \ {0}
    /\ GasCompensation \in Nat /\ InitialSupply \in Nat
    /\ MCR > Percent /\ CCR > MCR /\ MaxUint >= CCR /\ MaxUint \in Nat
    /\ SafetyRatio \in [Tokens -> Nat] /\ RecoveryRatio \in [Tokens -> Nat]
BY LedgerAssumption DEF MaxUint

\* Sums and differences of bundles.
LEMMA BundleOps ==
    /\ \A c, d \in Bundles : Plus(c, d) \in Bundles
    /\ \A c, d \in IntBundles : Plus(c, d) \in IntBundles /\ Minus(c, d) \in IntBundles
    /\ \A c, d : \A t \in Tokens : Plus(c, d)[t] = c[t] + d[t] /\ Minus(c, d)[t] = c[t] - d[t]
    /\ NoColl \in Bundles /\ \A t \in Tokens : NoColl[t] = 0
    /\ Bundles \subseteq IntBundles
BY DEF Plus, Minus, NoColl, Bundles, IntBundles

\* Values of bundles, in naturals.
LEMMA Values ==
    ASSUME NEW p \in Bundles, price = p, NEW c \in Bundles
    PROVE  /\ VC(c) \in Nat /\ RVC(c) \in Nat /\ USD(c) \in Nat
           /\ \A t \in Tokens : /\ c[t] * p[t] <= USD(c)
                                /\ (c[t] * p[t] * SafetyRatio[t]) \div Percent <= VC(c)
<1>1. \A t \in Tokens : /\ c[t] * p[t] \in Nat
                        /\ c[t] * p[t] * SafetyRatio[t] \in Nat
                        /\ c[t] * p[t] * RecoveryRatio[t] \in Nat
  <2> TAKE t \in Tokens
  <2>1. c[t] \in Nat /\ p[t] \in Nat /\ SafetyRatio[t] \in Nat /\ RecoveryRatio[t] \in Nat
    BY Constants DEF Bundles
  <2>2. c[t] * p[t] \in Nat
    BY <2>1, NatProduct
  <2> QED
    BY <2>1, <2>2, NatProduct
<1>2. \A t \in Tokens : /\ (c[t] * p[t] * SafetyRatio[t]) \div Percent \in Nat
                        /\ (c[t] * p[t] * RecoveryRatio[t]) \div Percent \in Nat
  BY <1>1, Constants, QuotientNat
<1> DEFINE f == [t \in Tokens |-> c[t] * p[t]]
           g == [t \in Tokens |-> (c[t] * p[t] * SafetyRatio[t]) \div Percent]
           h == [t \in Tokens |-> (c[t] * p[t] * RecoveryRatio[t]) \div Percent]
<1>3. /\ f \in [Tokens -> Nat] /\ g \in [Tokens -> Nat] /\ h \in [Tokens -> Nat]
      /\ \A t \in Tokens : /\ f[t] = c[t] * p[t]
                           /\ g[t] = (c[t] * p[t] * SafetyRatio[t]) \div Percent
  BY <1>1, <1>2
<1>4. USD(c) = SumFunction(f) /\ VC(c) = SumFunction(g) /\ RVC(c) = SumFunction(h)
  BY DEF USD, VC, RVC
<1> HIDE DEF f, g, h
<1> QED
  BY <1>3, <1>4, TokenSum

\* Values of bundles of integers.
LEMMA ValuesInt ==
    ASSUME NEW p \in Bundles, price = p, NEW c \in IntBundles
    PROVE  VC(c) \in Int
<1>1. \A t \in Tokens : c[t] * p[t] * SafetyRatio[t] \in Int
  <2> TAKE t \in Tokens
  <2>1. c[t] \in Int /\ p[t] \in Int /\ SafetyRatio[t] \in Int
    BY Constants DEF Bundles, IntBundles
  <2> QED
    BY <2>1
<1>2. \A t \in Tokens : (c[t] * p[t] * SafetyRatio[t]) \div Percent \in Int
  BY <1>1, Constants, QuotientBounds
<1> DEFINE g == [t \in Tokens |-> (c[t] * p[t] * SafetyRatio[t]) \div Percent]
<1>3. g \in [Tokens -> Int]
  BY <1>2
<1>4. VC(c) = SumFunction(g)
  BY DEF VC
<1> HIDE DEF g
<1> QED
  BY <1>3, <1>4, TokenSumInt

-----------------------------------------------------------------------------
(* Sums over the troves.                                                   *)

\* One value of a sum over the borrowers is replaced.
LEMMA BorrowerSumChange ==
    ASSUME NEW f \in [Borrowers -> Int], NEW g \in [Borrowers -> Int], NEW b \in Borrowers,
           \A x \in Borrowers : x # b => g[x] = f[x]
    PROVE  /\ SumFunction(f) \in Int /\ SumFunction(g) \in Int
           /\ SumFunction(g) = SumFunction(f) - f[b] + g[b]
<1>1. /\ IsFiniteSet(Borrowers) /\ DOMAIN f = Borrowers /\ DOMAIN g = Borrowers
      /\ Borrowers \in SUBSET Borrowers
      /\ \A x \in Borrowers : f[x] \in Int /\ g[x] \in Int
  BY BorrowersFinite
<1>2. SumFunctionOnSet(f, Borrowers) \in Int /\ SumFunctionOnSet(g, Borrowers) \in Int
  BY <1>1, SumInt
<1>3. SumFunctionOnSet(g, Borrowers) = SumFunctionOnSet(f, Borrowers) - f[b] + g[b]
  BY <1>1, SumChange
<1> QED
  BY <1>1, <1>2, <1>3 DEF SumFunction

\* A sum of naturals over the borrowers is natural, and at least each of them.
LEMMA BorrowerSum ==
    ASSUME NEW f \in [Borrowers -> Nat]
    PROVE  SumFunction(f) \in Nat /\ \A b \in Borrowers : f[b] <= SumFunction(f)
<1>1. IsFiniteSet(Borrowers) /\ DOMAIN f = Borrowers /\ \A x \in Borrowers : f[x] \in Nat
  BY BorrowersFinite
<1> QED
  BY <1>1, SumNat DEF SumFunction

\* The sums of sound books are natural numbers.
LEMMA SumsNat ==
    ASSUME NEW s \in Books
    PROVE  /\ DebtSum(s) \in Nat /\ \A b \in Borrowers : s.troves[b].debt <= DebtSum(s)
           /\ \A t \in Tokens : CollSum(s, t) \in Nat /\ StakeSum(s, t) \in Nat /\ SurplusSum(s, t) \in Nat
           /\ \A t \in Tokens, b \in Borrowers : s.troves[b].stakes[t] <= StakeSum(s, t)
<1> DEFINE f == [b \in Borrowers |-> s.troves[b].debt]
           g(t) == [b \in Borrowers |-> s.troves[b].colls[t]]
           h(t) == [b \in Borrowers |-> s.troves[b].stakes[t]]
           k(t) == [b \in Borrowers |-> s.pools.surplusOf[b][t]]
<1>1. f \in [Borrowers -> Nat] /\ \A b \in Borrowers : f[b] = s.troves[b].debt
  BY DEF Books, TroveRecords
<1>2. \A t \in Tokens : g(t) \in [Borrowers -> Nat]
  BY DEF Books, TroveRecords, Bundles
<1>3. \A t \in Tokens : h(t) \in [Borrowers -> Nat] /\ \A b \in Borrowers : h(t)[b] = s.troves[b].stakes[t]
  BY DEF Books, TroveRecords, Bundles
<1>4. \A t \in Tokens : k(t) \in [Borrowers -> Nat]
  BY DEF Books, PoolRecords, Bundles
<1>5. /\ DebtSum(s) = SumFunction(f)
      /\ \A t \in Tokens : /\ CollSum(s, t) = SumFunction(g(t))
                           /\ StakeSum(s, t) = SumFunction(h(t))
                           /\ SurplusSum(s, t) = SumFunction(k(t))
  BY DEF DebtSum, CollSum, StakeSum, SurplusSum
<1> HIDE DEF f, g, h, k
<1> QED
  BY <1>1, <1>2, <1>3, <1>4, <1>5, BorrowerSum

\* One trove changes: so do the sums, by as much.
LEMMA OneTrove ==
    ASSUME NEW s \in Books, NEW r \in Books, NEW b \in Borrowers,
           \A x \in Borrowers : x # b => r.troves[x] = s.troves[x]
    PROVE  /\ DebtSum(r) = DebtSum(s) - s.troves[b].debt + r.troves[b].debt
           /\ \A t \in Tokens :
                /\ CollSum(r, t) = CollSum(s, t) - s.troves[b].colls[t] + r.troves[b].colls[t]
                /\ StakeSum(r, t) = StakeSum(s, t) - s.troves[b].stakes[t] + r.troves[b].stakes[t]
<1>0. /\ s.troves[b].debt \in Nat /\ r.troves[b].debt \in Nat
      /\ \A x \in Borrowers : s.troves[x].debt \in Int /\ r.troves[x].debt \in Int
      /\ \A x \in Borrowers, t \in Tokens :
            /\ s.troves[x].colls[t] \in Int /\ r.troves[x].colls[t] \in Int
            /\ s.troves[x].stakes[t] \in Int /\ r.troves[x].stakes[t] \in Int
  BY DEF Books, TroveRecords, Bundles
<1>1. DebtSum(r) = DebtSum(s) - s.troves[b].debt + r.troves[b].debt
  <2> DEFINE f == [x \in Borrowers |-> s.troves[x].debt]
             g == [x \in Borrowers |-> r.troves[x].debt]
  <2>1. /\ f \in [Borrowers -> Int] /\ g \in [Borrowers -> Int]
        /\ \A x \in Borrowers : x # b => g[x] = f[x]
        /\ f[b] = s.troves[b].debt /\ g[b] = r.troves[b].debt
    BY <1>0
  <2>2. DebtSum(s) = SumFunction(f) /\ DebtSum(r) = SumFunction(g)
    BY DEF DebtSum
  <2> HIDE DEF f, g
  <2> QED
    BY <2>1, <2>2, BorrowerSumChange
<1>2. ASSUME NEW t \in Tokens
      PROVE  CollSum(r, t) = CollSum(s, t) - s.troves[b].colls[t] + r.troves[b].colls[t]
  <2> DEFINE f == [x \in Borrowers |-> s.troves[x].colls[t]]
             g == [x \in Borrowers |-> r.troves[x].colls[t]]
  <2>1. /\ f \in [Borrowers -> Int] /\ g \in [Borrowers -> Int]
        /\ \A x \in Borrowers : x # b => g[x] = f[x]
        /\ f[b] = s.troves[b].colls[t] /\ g[b] = r.troves[b].colls[t]
    BY <1>0
  <2>2. CollSum(s, t) = SumFunction(f) /\ CollSum(r, t) = SumFunction(g)
    BY DEF CollSum
  <2> HIDE DEF f, g
  <2> QED
    BY <2>1, <2>2, BorrowerSumChange
<1>3. ASSUME NEW t \in Tokens
      PROVE  StakeSum(r, t) = StakeSum(s, t) - s.troves[b].stakes[t] + r.troves[b].stakes[t]
  <2> DEFINE f == [x \in Borrowers |-> s.troves[x].stakes[t]]
             g == [x \in Borrowers |-> r.troves[x].stakes[t]]
  <2>1. /\ f \in [Borrowers -> Int] /\ g \in [Borrowers -> Int]
        /\ \A x \in Borrowers : x # b => g[x] = f[x]
        /\ f[b] = s.troves[b].stakes[t] /\ g[b] = r.troves[b].stakes[t]
    BY <1>0
  <2>2. StakeSum(s, t) = SumFunction(f) /\ StakeSum(r, t) = SumFunction(g)
    BY DEF StakeSum
  <2> HIDE DEF f, g
  <2> QED
    BY <2>1, <2>2, BorrowerSumChange
<1> QED
  BY <1>1, <1>2, <1>3

\* One account of surplus changes.
LEMMA OneSurplus ==
    ASSUME NEW s \in Books, NEW r \in Books, NEW b \in Borrowers,
           \A x \in Borrowers : x # b => r.pools.surplusOf[x] = s.pools.surplusOf[x]
    PROVE  \A t \in Tokens :
             SurplusSum(r, t) = SurplusSum(s, t) - s.pools.surplusOf[b][t] + r.pools.surplusOf[b][t]
<1> SUFFICES ASSUME NEW t \in Tokens
             PROVE  SurplusSum(r, t) = SurplusSum(s, t) - s.pools.surplusOf[b][t] + r.pools.surplusOf[b][t]
  OBVIOUS
<1> DEFINE f == [x \in Borrowers |-> s.pools.surplusOf[x][t]]
           g == [x \in Borrowers |-> r.pools.surplusOf[x][t]]
<1>1. /\ f \in [Borrowers -> Int] /\ g \in [Borrowers -> Int]
      /\ \A x \in Borrowers : x # b => g[x] = f[x]
      /\ f[b] = s.pools.surplusOf[b][t] /\ g[b] = r.pools.surplusOf[b][t]
  BY DEF Books, PoolRecords, Bundles
<1>2. SurplusSum(s, t) = SumFunction(f) /\ SurplusSum(r, t) = SumFunction(g)
  BY DEF SurplusSum
<1> HIDE DEF f, g
<1> QED
  BY <1>1, <1>2, BorrowerSumChange

\* The sums are of the troves and the accounts alone.
LEMMA SameSums ==
    ASSUME NEW s, NEW r, r.troves = s.troves
    PROVE  /\ DebtSum(r) = DebtSum(s) /\ OwnersCount(r) = OwnersCount(s)
           /\ \A t \in Tokens : CollSum(r, t) = CollSum(s, t) /\ StakeSum(r, t) = StakeSum(s, t)
           /\ r.pools.surplusOf = s.pools.surplusOf =>
                \A t \in Tokens : SurplusSum(r, t) = SurplusSum(s, t)
BY DEF DebtSum, CollSum, StakeSum, SurplusSum, OwnersCount, active

\* The number of owners, when one trove is opened, closed, or neither.
LEMMA OwnersChange ==
    ASSUME NEW s \in Books, NEW r \in Books, NEW b \in Borrowers,
           \A x \in Borrowers : x # b => r.troves[x].status = s.troves[x].status
    PROVE  /\ OwnersCount(s) \in Nat
           /\ active(s, b) /\ active(r, b) => OwnersCount(r) = OwnersCount(s)
           /\ active(s, b) /\ ~ active(r, b) => OwnersCount(r) = OwnersCount(s) - 1
           /\ ~ active(s, b) /\ active(r, b) => OwnersCount(r) = OwnersCount(s) + 1
<1> DEFINE S == {x \in Borrowers : active(s, x)}
           R == {x \in Borrowers : active(r, x)}
<1>1. IsFiniteSet(S) /\ IsFiniteSet(R)
  BY BorrowersFinite, FS_Subset
<1>2. Cardinality(S) \in Nat /\ Cardinality(R) \in Nat
  BY <1>1, FS_CardinalityType
<1>3. active(s, b) /\ active(r, b) => S = R
  BY DEF active
<1>4. active(s, b) /\ ~ active(r, b) => R = S \ {b} /\ b \in S
  BY DEF active
<1>5. ~ active(s, b) /\ active(r, b) => R = S \cup {b} /\ b \notin S
  BY DEF active
<1>6. OwnersCount(s) = Cardinality(S) /\ OwnersCount(r) = Cardinality(R)
  BY DEF OwnersCount
<1> HIDE DEF S, R
<1> QED
  BY <1>1, <1>2, <1>3, <1>4, <1>5, <1>6, FS_AddElement, FS_RemoveElement

-----------------------------------------------------------------------------
(* What the internal functions of TroveManager make of the books.          *)

\* Only the trove of b may differ.
OnlyTrove(s, r, b) == \A x \in Borrowers : x # b => r.troves[x] = s.troves[x]

\* The parts of sound books.
LEMMA BookParts ==
    ASSUME NEW s \in Books
    PROVE  /\ s.troves \in [Borrowers -> TroveRecords] /\ s.terms \in [Tokens -> TermRecords]
           /\ s.pools \in PoolRecords /\ s.star \in StarRecords
           /\ \A b \in Borrowers :
                /\ s.troves[b] \in TroveRecords /\ s.troves[b].debt \in Nat
                /\ s.troves[b].tokens \subseteq Tokens
                /\ s.troves[b].colls \in Bundles /\ s.troves[b].stakes \in Bundles
                /\ s.troves[b].CollRewards \in Bundles /\ s.troves[b].STARDebts \in Bundles
                /\ s.pools.surplusOf[b] \in Bundles
           /\ \A t \in Tokens :
                /\ s.terms[t] \in TermRecords /\ s.terms[t].totalStakes \in Nat
                /\ s.terms[t].L_Coll \in Nat /\ s.terms[t].L_STARDebt \in Nat
                /\ s.terms[t].lastCollError \in Nat /\ s.terms[t].lastSTARDebtError \in Nat
                /\ s.terms[t].totalStakesSnapshot \in Nat /\ s.terms[t].totalCollateralSnapshot \in Nat
           /\ s.pools.activeDebt \in Int /\ s.pools.defaultDebt \in Int
           /\ s.pools.activeColl \in IntBundles /\ s.pools.defaultColl \in IntBundles
           /\ s.pools.surplusColl \in IntBundles /\ s.pools.stabilityColl \in Bundles
           /\ s.star.supply \in Int /\ s.star.gasPool \in Int /\ s.star.stabilityPool \in Int
  BY DEF Books, TroveRecords, TermRecords, PoolRecords, StarRecords

\* What a trove is owed, and what it holds and owes with that.
LEMMA PendingNat ==
    ASSUME NEW s, Sound(s), NEW b \in Borrowers
    PROVE  /\ PendingColl(s, b) \in Bundles /\ PendingDebt(s, b) \in Nat
           /\ EntireColl(s, b) \in Bundles /\ EntireDebt(s, b) \in Nat
           /\ EntireDebt(s, b) = s.troves[b].debt + PendingDebt(s, b)
           /\ \A t \in Tokens : EntireColl(s, b)[t] = s.troves[b].colls[t] + PendingColl(s, b)[t]
           /\ active(s, b) => EntireDebt(s, b) \in Nat \ {0}
           /\ ~ active(s, b) => EntireDebt(s, b) = 0
<1>1. s \in Books
  BY DEF Sound
<1>2. ASSUME NEW t \in Tokens
      PROVE  /\ (s.troves[b].stakes[t] * (s.terms[t].L_Coll - s.troves[b].CollRewards[t])) \div Scale \in Nat
             /\ (s.troves[b].stakes[t] * (s.terms[t].L_STARDebt - s.troves[b].STARDebts[t])) \div Scale \in Nat
  <2>1. /\ s.troves[b].stakes[t] \in Nat
        /\ s.terms[t].L_Coll - s.troves[b].CollRewards[t] \in Nat
        /\ s.terms[t].L_STARDebt - s.troves[b].STARDebts[t] \in Nat
    <3>1. /\ s.troves[b].stakes[t] \in Nat /\ s.troves[b].CollRewards[t] \in Nat
          /\ s.troves[b].STARDebts[t] \in Nat
          /\ s.terms[t].L_Coll \in Nat /\ s.terms[t].L_STARDebt \in Nat
      BY <1>1, BookParts DEF Bundles
    <3>2. s.troves[b].CollRewards[t] <= s.terms[t].L_Coll /\ s.troves[b].STARDebts[t] <= s.terms[t].L_STARDebt
      BY DEF Sound, SnapshotsBehind
    <3> QED
      BY <3>1, <3>2
  <2>2. /\ s.troves[b].stakes[t] * (s.terms[t].L_Coll - s.troves[b].CollRewards[t]) \in Nat
        /\ s.troves[b].stakes[t] * (s.terms[t].L_STARDebt - s.troves[b].STARDebts[t]) \in Nat
    BY <2>1, NatProduct
  <2> QED
    BY <2>2, Constants, QuotientNat
<1>3. PendingColl(s, b) \in Bundles
  BY <1>2 DEF PendingColl, Bundles
<1> DEFINE f == [t \in Tokens |->
                   IF active(s, b) /\ t \in s.troves[b].tokens
                   THEN (s.troves[b].stakes[t] * (s.terms[t].L_STARDebt - s.troves[b].STARDebts[t])) \div Scale
                   ELSE 0]
<1>4. f \in [Tokens -> Nat] /\ PendingDebt(s, b) = SumFunction(f)
      /\ (~ active(s, b) => \A t \in Tokens : f[t] = 0)
  BY <1>2 DEF PendingDebt
<1>5. PendingDebt(s, b) \in Nat
  <2> HIDE DEF f
  <2> QED
    BY <1>4, TokenSum
<1>6. ~ active(s, b) => PendingDebt(s, b) = 0
  <2> SUFFICES ASSUME ~ active(s, b) PROVE SumFunction(f) = 0
    BY <1>4
  <2> HIDE DEF f
  <2>1. /\ IsFiniteSet(Tokens) /\ DOMAIN f = Tokens
        /\ \A x \in Tokens : f[x] \in Int /\ f[x] = 0 * f[x]
    BY <1>4, TokensFinite
  <2>2. SumFunctionOnSet(f, Tokens) = 0 * SumFunctionOnSet(f, Tokens)
    <3>1. \A x \in Tokens : f[x] \in Int /\ f[x] = 0 * f[x]
      BY <2>1
    <3> QED
      BY <2>1, <3>1, SumTimes, 0 \in Int
  <2>3. SumFunctionOnSet(f, Tokens) \in Int
    BY <1>4, <1>5, <2>1 DEF SumFunction
  <2> QED
    BY <2>1, <2>2, <2>3 DEF SumFunction
<1>7. /\ EntireDebt(s, b) = s.troves[b].debt + PendingDebt(s, b)
      /\ EntireColl(s, b) = Plus(s.troves[b].colls, PendingColl(s, b))
  BY DEF EntireDebt, EntireColl
<1>8. s.troves[b].debt \in Nat /\ s.troves[b].colls \in Bundles
  BY <1>1, BookParts
<1>9. /\ active(s, b) => s.troves[b].debt >= GasCompensation + MinNetDebt
      /\ ~ active(s, b) => s.troves[b].debt = 0
  BY DEF Sound, Indebted
<1>10. EntireColl(s, b) \in Bundles
       /\ \A t \in Tokens : EntireColl(s, b)[t] = s.troves[b].colls[t] + PendingColl(s, b)[t]
  BY <1>3, <1>7, <1>8, BundleOps
<1> QED
  BY <1>3, <1>5, <1>6, <1>7, <1>8, <1>9, <1>10, Constants

\* Pending debt and collateral have gone from the DefaultPool to the ActivePool.
PendingMoved(s, r, debt, colls) ==
    /\ r \in Books /\ r.troves = s.troves /\ r.terms = s.terms /\ r.star = s.star
    /\ r.pools.activeDebt = s.pools.activeDebt + debt
    /\ r.pools.defaultDebt = s.pools.defaultDebt - debt
    /\ r.pools.activeColl = Plus(s.pools.activeColl, colls)
    /\ r.pools.surplusOf = s.pools.surplusOf /\ r.pools.surplusColl = s.pools.surplusColl

\* MovePending moves it, and nothing else.
LEMMA MovePendingEffect ==
    ASSUME NEW s \in Books, NEW debt \in Nat, NEW colls \in Bundles,
           NEW r, r = MovePending(s, debt, colls)
    PROVE  PendingMoved(s, r, debt, colls)
<1>1. /\ Minus(s.pools.defaultColl, colls) \in IntBundles
      /\ Plus(s.pools.activeColl, colls) \in IntBundles
  BY BookParts, BundleOps
<1>2. PICK P : P = [s.pools EXCEPT !.defaultDebt = @ - debt, !.activeDebt = @ + debt,
                       !.defaultColl = Minus(@, colls), !.activeColl = Plus(@, colls)]
  OBVIOUS
<1>5. PICK d1 \in Int, d2 \in Int, c1 \in IntBundles, c2 \in IntBundles :
         /\ d1 = s.pools.defaultDebt - debt /\ d2 = s.pools.activeDebt + debt
         /\ c1 = Minus(s.pools.defaultColl, colls) /\ c2 = Plus(s.pools.activeColl, colls)
  BY <1>1, BookParts
<1>6. P = [s.pools EXCEPT !.defaultDebt = d1, !.activeDebt = d2, !.defaultColl = c1, !.activeColl = c2]
  <2>1. s.pools \in PoolRecords
    BY BookParts
  <2> QED
    BY <1>2, <1>5, <2>1 DEF PoolRecords
<1>3. /\ P \in PoolRecords
      /\ P.activeDebt = s.pools.activeDebt + debt
      /\ P.defaultDebt = s.pools.defaultDebt - debt
      /\ P.activeColl = Plus(s.pools.activeColl, colls)
      /\ P.surplusOf = s.pools.surplusOf /\ P.surplusColl = s.pools.surplusColl
  <2>1. s.pools \in PoolRecords
    BY BookParts
  <2> QED
    BY <1>5, <1>6, <2>1 DEF PoolRecords
<1>4. r = [s EXCEPT !.pools = P]
  BY <1>2 DEF MovePending, Books
<1> QED
  BY <1>3, <1>4 DEF Books, PendingMoved

\* The stakes of a trove in its tokens are taken away, from the totals too.
LEMMA RemoveStakeEffect ==
    ASSUME NEW s, Sound(s), NEW b \in Borrowers, NEW r, r = RemoveStake(s, b)
    PROVE  /\ Sound(r) /\ OnlyTrove(s, r, b) /\ r.pools = s.pools /\ r.star = s.star
           /\ r.troves[b].status = s.troves[b].status /\ r.troves[b].debt = s.troves[b].debt
           /\ r.troves[b].colls = s.troves[b].colls /\ r.troves[b].tokens = s.troves[b].tokens
<1>1. s \in Books /\ Staked(s) /\ SnapshotsBehind(s) /\ Indebted(s)
  BY DEF Sound
<1> DEFINE tr == s.troves[b]
           stakeOf(t) == IF t \in tr.tokens THEN tr.stakes[t] ELSE 0
<1>2. PICK S : S = [t \in Tokens |-> tr.stakes[t] - stakeOf(t)]
  OBVIOUS
<1>3. PICK T : T = [t \in Tokens |-> [s.terms[t] EXCEPT !.totalStakes = @ - stakeOf(t)]]
  OBVIOUS
<1>4. r = [[s EXCEPT !.terms = T] EXCEPT !.troves[b].stakes = S]
  BY <1>1, <1>2, <1>3 DEF RemoveStake
<1>5. \A t \in Tokens : tr.stakes[t] \in Nat /\ stakeOf(t) \in Nat /\ stakeOf(t) <= tr.stakes[t]
                        /\ tr.stakes[t] <= s.terms[t].totalStakes /\ s.terms[t].totalStakes \in Nat
  <2>1. tr.stakes \in Bundles /\ \A t \in Tokens : s.terms[t].totalStakes \in Nat /\ tr.stakes[t] <= StakeSum(s, t)
    BY <1>1, BookParts, SumsNat
  <2> QED
    BY <1>1, <2>1 DEF Bundles, Staked
<1>6. S \in Bundles /\ \A t \in Tokens : S[t] = tr.stakes[t] - stakeOf(t)
  BY <1>2, <1>5 DEF Bundles
<1>7. /\ T \in [Tokens -> TermRecords]
      /\ \A t \in Tokens : /\ T[t].totalStakes = s.terms[t].totalStakes - stakeOf(t)
                           /\ T[t].L_Coll = s.terms[t].L_Coll /\ T[t].L_STARDebt = s.terms[t].L_STARDebt
                           /\ T[t] = [s.terms[t] EXCEPT !.totalStakes = T[t].totalStakes]
  <2> SUFFICES ASSUME NEW t \in Tokens
               PROVE  /\ T[t] \in TermRecords
                      /\ T[t].totalStakes = s.terms[t].totalStakes - stakeOf(t)
                      /\ T[t].L_Coll = s.terms[t].L_Coll /\ T[t].L_STARDebt = s.terms[t].L_STARDebt
                      /\ T[t] = [s.terms[t] EXCEPT !.totalStakes = T[t].totalStakes]
    BY <1>3
  <2>1. PICK n \in Nat : n = s.terms[t].totalStakes - stakeOf(t)
    BY <1>5
  <2>2. s.terms[t] \in TermRecords /\ T[t] = [s.terms[t] EXCEPT !.totalStakes = n]
    BY <1>1, <1>3, <2>1, BookParts DEF TermRecords
  <2> QED
    BY <2>1, <2>2 DEF TermRecords
<1>8. PICK R : R = [s.troves[b] EXCEPT !.stakes = S]
  OBVIOUS
<1>9. R \in TroveRecords /\ R.stakes = S /\ R.debt = tr.debt /\ R.status = tr.status
      /\ R.colls = tr.colls /\ R.tokens = tr.tokens
      /\ R.CollRewards = tr.CollRewards /\ R.STARDebts = tr.STARDebts
  <2>1. tr \in TroveRecords
    BY <1>1, BookParts
  <2> QED
    BY <1>6, <1>8, <2>1 DEF TroveRecords
<1>10. /\ r \in Books /\ r.terms = T /\ r.pools = s.pools /\ r.star = s.star
       /\ r.troves[b] = R /\ OnlyTrove(s, r, b)
  <2> HIDE DEF tr, stakeOf
  <2>1. r = [[s EXCEPT !.terms = T] EXCEPT !.troves = [s.troves EXCEPT ![b] = R]]
    BY <1>1, <1>4, <1>8 DEF Books
  <2>2. [s.troves EXCEPT ![b] = R] \in [Borrowers -> TroveRecords]
    BY <1>1, <1>9, BookParts
  <2> QED
    BY <1>1, <1>7, <2>1, <2>2 DEF Books, OnlyTrove
<1>11. Staked(r)
  <2> SUFFICES ASSUME NEW t \in Tokens PROVE r.terms[t].totalStakes = StakeSum(r, t)
    BY DEF Staked
  <2>1. StakeSum(r, t) = StakeSum(s, t) - tr.stakes[t] + S[t]
    BY <1>1, <1>9, <1>10, OneTrove DEF OnlyTrove
  <2>2. s.terms[t].totalStakes = StakeSum(s, t)
    BY <1>1 DEF Staked
  <2> HIDE DEF stakeOf, tr
  <2> QED
    BY <1>5, <1>6, <1>7, <1>10, <2>1, <2>2
<1>12. SnapshotsBehind(r) /\ Indebted(r)
  <2>1. \A x \in Borrowers : /\ r.troves[x].CollRewards = s.troves[x].CollRewards
                             /\ r.troves[x].STARDebts = s.troves[x].STARDebts
                             /\ r.troves[x].debt = s.troves[x].debt
                             /\ r.troves[x].status = s.troves[x].status
    BY <1>9, <1>10 DEF OnlyTrove
  <2> QED
    BY <1>1, <1>7, <1>10, <2>1 DEF SnapshotsBehind, Indebted, active
<1> QED
  BY <1>9, <1>10, <1>11, <1>12 DEF Sound

\* A trove record is put in the place of another.
WithTrove(s, b, R) == [s EXCEPT !.troves[b] = R]

\* That changes one trove, and nothing else of the books.
LEMMA TroveReplaced ==
    ASSUME NEW s \in Books, NEW b \in Borrowers, NEW R \in TroveRecords,
           NEW r, r = WithTrove(s, b, R)
    PROVE  /\ r \in Books /\ r.troves[b] = R /\ OnlyTrove(s, r, b)
           /\ r.terms = s.terms /\ r.pools = s.pools /\ r.star = s.star
<1>1. [s.troves EXCEPT ![b] = R] \in [Borrowers -> TroveRecords]
  BY BookParts
<1> QED
  BY <1>1 DEF Books, OnlyTrove, WithTrove

\* Books stay sound when the totals of the stakes follow the changed trove's,
\* the terms of the rewards stay, its snapshots are not ahead of them and its
\* debt fits its status.
LEMMA StaysSound ==
    ASSUME NEW s, Sound(s), NEW r \in Books, NEW b \in Borrowers, OnlyTrove(s, r, b),
           \A t \in Tokens :
              /\ r.terms[t].totalStakes =
                    s.terms[t].totalStakes - s.troves[b].stakes[t] + r.troves[b].stakes[t]
              /\ r.terms[t].L_Coll = s.terms[t].L_Coll
              /\ r.terms[t].L_STARDebt = s.terms[t].L_STARDebt
              /\ r.troves[b].CollRewards[t] <= s.terms[t].L_Coll
              /\ r.troves[b].STARDebts[t] <= s.terms[t].L_STARDebt,
           active(r, b) => r.troves[b].debt >= GasCompensation + MinNetDebt,
           ~ active(r, b) => r.troves[b].debt = 0
    PROVE  Sound(r)
<1>1. s \in Books /\ Staked(s) /\ SnapshotsBehind(s) /\ Indebted(s)
  BY DEF Sound
<1>2. Staked(r)
  <2> SUFFICES ASSUME NEW t \in Tokens PROVE r.terms[t].totalStakes = StakeSum(r, t)
    BY DEF Staked
  <2>1. StakeSum(r, t) = StakeSum(s, t) - s.troves[b].stakes[t] + r.troves[b].stakes[t]
    BY <1>1, OneTrove DEF OnlyTrove
  <2>2. s.terms[t].totalStakes = StakeSum(s, t)
    BY <1>1 DEF Staked
  <2> QED
    BY <2>1, <2>2
<1>3. SnapshotsBehind(r)
  BY <1>1 DEF SnapshotsBehind, OnlyTrove
<1>4. Indebted(r)
  BY <1>1 DEF Indebted, OnlyTrove, active
<1> QED
  BY <1>2, <1>3, <1>4 DEF Sound

Closings == {"closedByOwner", "closedByLiquidation", "closedByRedemption"}

\* A trove is closed: what it holds and owes is gone, its stakes are not touched.
LEMMA CloseTroveEffect ==
    ASSUME NEW s, Sound(s), NEW b \in Borrowers,
           NEW status \in Closings,
           NEW r, r = CloseTroveAs(s, b, status)
    PROVE  /\ Sound(r) /\ OnlyTrove(s, r, b)
           /\ r.terms = s.terms /\ r.pools = s.pools /\ r.star = s.star
           /\ ~ active(r, b) /\ r.troves[b].debt = 0 /\ r.troves[b].colls = NoColl
<1>1. s \in Books /\ SnapshotsBehind(s)
  BY DEF Sound
<1> DEFINE cleared(c) == [t \in Tokens |-> IF t \in s.troves[b].tokens THEN 0 ELSE c[t]]
<1>2. PICK C, D : /\ C = cleared(s.troves[b].CollRewards) /\ D = cleared(s.troves[b].STARDebts)
  OBVIOUS
<1>3. /\ C \in Bundles /\ D \in Bundles
      /\ \A t \in Tokens : C[t] <= s.terms[t].L_Coll /\ D[t] <= s.terms[t].L_STARDebt
  <2>1. s.troves[b].CollRewards \in Bundles /\ s.troves[b].STARDebts \in Bundles
        /\ \A t \in Tokens : s.terms[t].L_Coll \in Nat /\ s.terms[t].L_STARDebt \in Nat
    BY <1>1, BookParts
  <2> QED
    BY <1>1, <1>2, <2>1 DEF Bundles, SnapshotsBehind
<1>4. PICK R : R = [s.troves[b] EXCEPT !.status = status, !.debt = 0, !.tokens = {}, !.colls = NoColl,
                      !.CollRewards = C, !.STARDebts = D]
  OBVIOUS
<1>5. /\ R \in TroveRecords /\ R.status = status /\ R.debt = 0 /\ R.colls = NoColl
      /\ R.CollRewards = C /\ R.STARDebts = D /\ R.stakes = s.troves[b].stakes
  <2>1. s.troves[b] \in TroveRecords /\ NoColl \in Bundles
    BY <1>1, BookParts, BundleOps
  <2> QED
    BY <1>3, <1>4, <2>1 DEF TroveRecords, Closings
<1>6. r = WithTrove(s, b, R)
  BY <1>1, <1>2, <1>4 DEF CloseTroveAs, WithTrove
<1>7. /\ r \in Books /\ r.troves[b] = R /\ OnlyTrove(s, r, b)
      /\ r.terms = s.terms /\ r.pools = s.pools /\ r.star = s.star
  BY <1>1, <1>5, <1>6, TroveReplaced
<1>8. ~ active(r, b)
  BY <1>5, <1>7 DEF active, Closings
<1>9. Sound(r)
  <2>1. \A t \in Tokens : s.terms[t].totalStakes \in Nat /\ s.troves[b].stakes[t] \in Nat
    BY <1>1, BookParts DEF Bundles
  <2> QED
    BY <1>3, <1>5, <1>7, <1>8, <2>1, StaysSound
<1> QED
  BY <1>5, <1>7, <1>8, <1>9

\* The snapshots of the tokens a trove holds are brought up to date.
LEMMA UpdateRewardSnapshotsEffect ==
    ASSUME NEW s, Sound(s), NEW b \in Borrowers, NEW r, r = UpdateRewardSnapshots(s, b)
    PROVE  /\ Sound(r) /\ OnlyTrove(s, r, b)
           /\ r.terms = s.terms /\ r.pools = s.pools /\ r.star = s.star
           /\ r.troves[b].status = s.troves[b].status /\ r.troves[b].debt = s.troves[b].debt
           /\ r.troves[b].colls = s.troves[b].colls /\ r.troves[b].tokens = s.troves[b].tokens
           /\ r.troves[b].stakes = s.troves[b].stakes
<1>1. s \in Books /\ SnapshotsBehind(s) /\ Indebted(s)
  BY DEF Sound
<1>2. PICK C, D : /\ C = [t \in Tokens |-> IF t \in s.troves[b].tokens
                                          THEN s.terms[t].L_Coll ELSE s.troves[b].CollRewards[t]]
                  /\ D = [t \in Tokens |-> IF t \in s.troves[b].tokens
                                          THEN s.terms[t].L_STARDebt ELSE s.troves[b].STARDebts[t]]
  OBVIOUS
<1>3. /\ C \in Bundles /\ D \in Bundles
      /\ \A t \in Tokens : C[t] <= s.terms[t].L_Coll /\ D[t] <= s.terms[t].L_STARDebt
  <2>1. s.troves[b].CollRewards \in Bundles /\ s.troves[b].STARDebts \in Bundles
        /\ \A t \in Tokens : s.terms[t].L_Coll \in Nat /\ s.terms[t].L_STARDebt \in Nat
    BY <1>1, BookParts
  <2> QED
    BY <1>1, <1>2, <2>1 DEF Bundles, SnapshotsBehind
<1>4. PICK R : R = [s.troves[b] EXCEPT !.CollRewards = C, !.STARDebts = D]
  OBVIOUS
<1>5. /\ R \in TroveRecords /\ R.status = s.troves[b].status /\ R.debt = s.troves[b].debt
      /\ R.colls = s.troves[b].colls /\ R.tokens = s.troves[b].tokens
      /\ R.CollRewards = C /\ R.STARDebts = D /\ R.stakes = s.troves[b].stakes
  <2>1. s.troves[b] \in TroveRecords
    BY <1>1, BookParts
  <2> QED
    BY <1>3, <1>4, <2>1 DEF TroveRecords
<1>6. r = WithTrove(s, b, R)
  BY <1>1, <1>2, <1>4 DEF UpdateRewardSnapshots, WithTrove, Books, TroveRecords
<1>7. /\ r \in Books /\ r.troves[b] = R /\ OnlyTrove(s, r, b)
      /\ r.terms = s.terms /\ r.pools = s.pools /\ r.star = s.star
  BY <1>1, <1>5, <1>6, TroveReplaced
<1>8. /\ active(r, b) => r.troves[b].debt >= GasCompensation + MinNetDebt
      /\ ~ active(r, b) => r.troves[b].debt = 0
  BY <1>1, <1>5, <1>7 DEF Indebted, active
<1>9. Sound(r)
  <2>1. \A t \in Tokens : s.terms[t].totalStakes \in Nat /\ s.troves[b].stakes[t] \in Nat
    BY <1>1, BookParts DEF Bundles
  <2> QED
    BY <1>3, <1>5, <1>7, <1>8, <2>1, StaysSound
<1> QED
  BY <1>5, <1>7, <1>9

\* A trove's debt, status and collateral are set.
TroveWith(s, b, status, debt, colls) ==
    [s.troves[b] EXCEPT !.status = status, !.debt = debt, !.colls = colls]

\* A trove set to a debt and collateral that fit its status keeps the books sound.
LEMMA TroveSet ==
    ASSUME NEW s, Sound(s), NEW b \in Borrowers,
           NEW status \in {"nonExistent", "active", "closedByOwner", "closedByLiquidation", "closedByRedemption"},
           NEW debt \in Nat, NEW colls \in Bundles,
           status = "active" => debt >= GasCompensation + MinNetDebt,
           status # "active" => debt = 0,
           NEW R, R = TroveWith(s, b, status, debt, colls),
           NEW r, r = WithTrove(s, b, R)
    PROVE  /\ Sound(r) /\ OnlyTrove(s, r, b) /\ r.troves[b] = R
           /\ r.terms = s.terms /\ r.pools = s.pools /\ r.star = s.star
           /\ R.status = status /\ R.debt = debt /\ R.colls = colls
           /\ R.tokens = s.troves[b].tokens /\ R.stakes = s.troves[b].stakes
<1>1. s \in Books /\ SnapshotsBehind(s)
  BY DEF Sound
<1>2. /\ R \in TroveRecords /\ R.status = status /\ R.debt = debt /\ R.colls = colls
      /\ R.CollRewards = s.troves[b].CollRewards /\ R.STARDebts = s.troves[b].STARDebts
      /\ R.stakes = s.troves[b].stakes /\ R.tokens = s.troves[b].tokens
  <2>1. s.troves[b] \in TroveRecords
    BY <1>1, BookParts
  <2> QED
    BY <2>1 DEF TroveRecords, TroveWith
<1>3. /\ r \in Books /\ r.troves[b] = R /\ OnlyTrove(s, r, b)
      /\ r.terms = s.terms /\ r.pools = s.pools /\ r.star = s.star
  BY <1>1, <1>2, TroveReplaced
<1>4. active(r, b) <=> status = "active"
  BY <1>2, <1>3 DEF active
<1>5. Sound(r)
  <2>1. \A t \in Tokens : s.terms[t].totalStakes \in Nat /\ s.troves[b].stakes[t] \in Nat
    BY <1>1, BookParts DEF Bundles
  <2>2. \A t \in Tokens : /\ r.troves[b].CollRewards[t] <= s.terms[t].L_Coll
                          /\ r.troves[b].STARDebts[t] <= s.terms[t].L_STARDebt
    BY <1>1, <1>2, <1>3 DEF SnapshotsBehind
  <2> QED
    BY <1>2, <1>3, <1>4, <2>1, <2>2, StaysSound
<1> QED
  BY <1>2, <1>3, <1>5

\* A stake is a natural number.
LEMMA NewStakeNat ==
    ASSUME NEW s \in Books, NEW t \in Tokens, NEW coll \in Nat
    PROVE  ComputeNewStake(s, t, coll) \in Nat
<1>1. s.terms[t].totalStakesSnapshot \in Nat /\ s.terms[t].totalCollateralSnapshot \in Nat
  BY BookParts
<1>2. coll * s.terms[t].totalStakesSnapshot \in Nat
  BY <1>1, NatProduct
<1> QED
  BY <1>1, <1>2, QuotientNat DEF ComputeNewStake

\* A trove's tokens and collateral are set, and its stakes with them.
LEMMA SetCollAndStakeEffect ==
    ASSUME NEW s, Sound(s), NEW b \in Borrowers, NEW tokens \in SUBSET Tokens,
           NEW colls \in Bundles, NEW r, r = SetCollAndStake(s, b, tokens, colls)
    PROVE  /\ Sound(r) /\ OnlyTrove(s, r, b) /\ r.pools = s.pools /\ r.star = s.star
           /\ r.troves[b].status = s.troves[b].status /\ r.troves[b].debt = s.troves[b].debt
           /\ r.troves[b].colls = colls /\ r.troves[b].tokens = tokens
<1>1. s \in Books /\ Staked(s) /\ SnapshotsBehind(s) /\ Indebted(s)
  BY DEF Sound
<1> DEFINE tr == s.troves[b]
           newStake(t) == IF t \in tokens THEN ComputeNewStake(s, t, colls[t]) ELSE tr.stakes[t]
<1>2. PICK S : S = [t \in Tokens |-> newStake(t)]
  OBVIOUS
<1>3. PICK T : T = [t \in Tokens |->
                      [s.terms[t] EXCEPT !.totalStakes = @ - tr.stakes[t] + newStake(t)]]
  OBVIOUS
<1>4. \A t \in Tokens : /\ tr.stakes[t] \in Nat /\ newStake(t) \in Nat
                        /\ tr.stakes[t] <= s.terms[t].totalStakes /\ s.terms[t].totalStakes \in Nat
  <2>1. tr.stakes \in Bundles /\ \A t \in Tokens : s.terms[t].totalStakes \in Nat /\ tr.stakes[t] <= StakeSum(s, t)
    BY <1>1, BookParts, SumsNat
  <2>2. \A t \in Tokens : ComputeNewStake(s, t, colls[t]) \in Nat
    BY <1>1, NewStakeNat DEF Bundles
  <2> QED
    BY <1>1, <2>1, <2>2 DEF Bundles, Staked
<1>5. S \in Bundles /\ \A t \in Tokens : S[t] = newStake(t)
  BY <1>2, <1>4 DEF Bundles
<1>6. PICK R : R = [s.troves[b] EXCEPT !.tokens = tokens, !.colls = colls, !.stakes = S]
  OBVIOUS
<1>7. r = [WithTrove(s, b, R) EXCEPT !.terms = T]
  BY <1>1, <1>2, <1>3, <1>6 DEF SetCollAndStake, WithTrove, Books, TroveRecords
<1> HIDE DEF newStake
<1>8. /\ T \in [Tokens -> TermRecords]
      /\ \A t \in Tokens : /\ T[t].totalStakes = s.terms[t].totalStakes - tr.stakes[t] + S[t]
                           /\ T[t].L_Coll = s.terms[t].L_Coll /\ T[t].L_STARDebt = s.terms[t].L_STARDebt
                           /\ T[t] = [s.terms[t] EXCEPT !.totalStakes = T[t].totalStakes]
  <2> SUFFICES ASSUME NEW t \in Tokens
               PROVE  /\ T[t] \in TermRecords
                      /\ T[t].totalStakes = s.terms[t].totalStakes - tr.stakes[t] + S[t]
                      /\ T[t].L_Coll = s.terms[t].L_Coll /\ T[t].L_STARDebt = s.terms[t].L_STARDebt
                      /\ T[t] = [s.terms[t] EXCEPT !.totalStakes = T[t].totalStakes]
    BY <1>3
  <2>1. PICK n \in Nat : n = s.terms[t].totalStakes - tr.stakes[t] + newStake(t)
    BY <1>4
  <2>2. s.terms[t] \in TermRecords /\ T[t] = [s.terms[t] EXCEPT !.totalStakes = n]
    BY <1>1, <1>3, <2>1, BookParts DEF TermRecords
  <2> QED
    BY <1>5, <2>1, <2>2 DEF TermRecords
<1>9. /\ R \in TroveRecords /\ R.stakes = S /\ R.debt = tr.debt /\ R.status = tr.status
      /\ R.CollRewards = tr.CollRewards /\ R.STARDebts = tr.STARDebts
      /\ R.tokens = tokens /\ R.colls = colls
  <2>1. tr \in TroveRecords
    BY <1>1, BookParts
  <2> QED
    BY <1>5, <1>6, <2>1 DEF TroveRecords
<1>10. PICK q : q = WithTrove(s, b, R)
  OBVIOUS
<1>11. /\ q \in Books /\ q.troves[b] = R /\ OnlyTrove(s, q, b)
       /\ q.terms = s.terms /\ q.pools = s.pools /\ q.star = s.star
  BY <1>1, <1>9, <1>10, TroveReplaced
<1>12. /\ r \in Books /\ r.terms = T /\ r.pools = s.pools /\ r.star = s.star
       /\ r.troves[b] = R /\ OnlyTrove(s, r, b)
  <2>1. r = [q EXCEPT !.terms = T]
    BY <1>7, <1>10
  <2> QED
    BY <1>8, <1>11, <2>1 DEF Books, OnlyTrove
<1>13. /\ active(r, b) => r.troves[b].debt >= GasCompensation + MinNetDebt
       /\ ~ active(r, b) => r.troves[b].debt = 0
  BY <1>1, <1>9, <1>12 DEF Indebted, active
<1>14. \A t \in Tokens :
          /\ r.terms[t].totalStakes = s.terms[t].totalStakes - s.troves[b].stakes[t] + r.troves[b].stakes[t]
          /\ r.terms[t].L_Coll = s.terms[t].L_Coll
          /\ r.terms[t].L_STARDebt = s.terms[t].L_STARDebt
          /\ r.troves[b].CollRewards[t] <= s.terms[t].L_Coll
          /\ r.troves[b].STARDebts[t] <= s.terms[t].L_STARDebt
  BY <1>1, <1>8, <1>9, <1>12 DEF SnapshotsBehind
<1>15. Sound(r)
  BY <1>12, <1>13, <1>14, StaysSound
<1> QED
  BY <1>8, <1>9, <1>12, <1>15

\* Pending rewards become the trove's own, and the pools still agree with the
\* troves.
LEMMA ApplyPendingEffect ==
    ASSUME NEW s, Sound(s), NEW b \in Borrowers, NEW r, r = ApplyPendingRewards(s, b),
           NEW d \in Int, NEW g \in Int, NEW c \in IntBundles, NEW u \in IntBundles,
           Accounts(s, d, g, c, u)
    PROVE  /\ Sound(r) /\ OnlyTrove(s, r, b) /\ r.terms = s.terms /\ r.star = s.star
           /\ r.troves[b].status = s.troves[b].status /\ r.troves[b].tokens = s.troves[b].tokens
           /\ r.pools.surplusOf = s.pools.surplusOf
           /\ Accounts(r, d, g, c, u)
<1>1. s \in Books
  BY DEF Sound
<1>2. CASE ~ hasPendingRewards(s, b)
  <2>1. r = s
    BY <1>2 DEF ApplyPendingRewards
  <2> QED
    BY <2>1 DEF OnlyTrove
<1>3. CASE hasPendingRewards(s, b)
  <2> DEFINE tr == s.troves[b]
  <2>0. PICK debt, colls : debt = PendingDebt(s, b) /\ colls = PendingColl(s, b)
    OBVIOUS
  <2>1. debt \in Nat /\ colls \in Bundles /\ tr.status = "active"
    BY <1>3, <2>0, PendingNat DEF hasPendingRewards, active
  <2>2. PICK e \in Nat, f \in Bundles : e = tr.debt + debt /\ f = Plus(tr.colls, colls)
    BY <1>1, <2>1, BookParts, BundleOps
  <2>3. e >= GasCompensation + MinNetDebt /\ \A t \in Tokens : f[t] = tr.colls[t] + colls[t]
    <3>1. tr.debt >= GasCompensation + MinNetDebt /\ tr.debt \in Nat
      BY <1>1, <2>1, BookParts DEF Sound, Indebted, active
    <3>2. \A t \in Tokens : f[t] = tr.colls[t] + colls[t]
      BY <2>2, BundleOps
    <3> QED
      BY <2>1, <2>2, <3>1, <3>2, Constants
  <2>4. PICK R : R = TroveWith(s, b, "active", e, f)
    OBVIOUS
  <2>5. PICK p : p = WithTrove(s, b, R)
    OBVIOUS
  <2>6. PICK q : q = UpdateRewardSnapshots(p, b)
    OBVIOUS
  <2>7. r = MovePending(q, debt, colls)
    <3>0. e = EntireDebt(s, b) /\ f = EntireColl(s, b)
      BY <2>0, <2>2 DEF EntireDebt, EntireColl
    <3>1. [s EXCEPT !.troves[b] = [s.troves[b] EXCEPT !.debt = EntireDebt(s, b), !.colls = EntireColl(s, b)]] = p
      <4>1. R = [s.troves[b] EXCEPT !.debt = e, !.colls = f]
        <5>1. s.troves[b] \in TroveRecords
          BY <1>1, BookParts
        <5> QED
          BY <2>1, <2>4, <5>1 DEF TroveWith, TroveRecords
      <4> QED
        BY <2>5, <3>0, <4>1 DEF WithTrove
    <3> QED
      BY <1>3, <2>0, <2>6, <3>1 DEF ApplyPendingRewards
  <2>8. /\ Sound(p) /\ OnlyTrove(s, p, b) /\ p.troves[b] = R
        /\ p.terms = s.terms /\ p.pools = s.pools /\ p.star = s.star
        /\ R.status = "active" /\ R.debt = e /\ R.colls = f /\ R.tokens = tr.tokens /\ R.stakes = tr.stakes
    BY <2>1, <2>2, <2>3, <2>4, <2>5, TroveSet
  <2>9. /\ Sound(q) /\ OnlyTrove(p, q, b)
        /\ q.terms = p.terms /\ q.pools = p.pools /\ q.star = p.star
        /\ q.troves[b].status = "active" /\ q.troves[b].debt = e /\ q.troves[b].colls = f
        /\ q.troves[b].tokens = tr.tokens /\ q.troves[b].stakes = tr.stakes
    BY <2>6, <2>8, UpdateRewardSnapshotsEffect
  <2>10. /\ r \in Books /\ r.troves = q.troves /\ r.terms = q.terms /\ r.star = q.star
         /\ r.pools.activeDebt = q.pools.activeDebt + debt
         /\ r.pools.defaultDebt = q.pools.defaultDebt - debt
         /\ r.pools.activeColl = Plus(q.pools.activeColl, colls)
         /\ r.pools.surplusOf = q.pools.surplusOf /\ r.pools.surplusColl = q.pools.surplusColl
    <3>1. q \in Books /\ debt \in Nat /\ colls \in Bundles
      BY <2>1, <2>9 DEF Sound
    <3> HIDE DEF tr
    <3>2. PendingMoved(q, r, debt, colls)
      BY <2>7, <3>1, MovePendingEffect
    <3> QED
      BY <3>2 DEF PendingMoved
  <2>11. /\ OnlyTrove(s, r, b) /\ r.terms = s.terms /\ r.star = s.star
         /\ r.troves[b].status = tr.status /\ r.troves[b].tokens = tr.tokens
         /\ r.troves[b].debt = tr.debt + debt /\ r.troves[b].stakes = tr.stakes
         /\ \A t \in Tokens : r.troves[b].colls[t] = tr.colls[t] + colls[t]
         /\ r.pools.surplusOf = s.pools.surplusOf /\ r.pools.surplusColl = s.pools.surplusColl
    BY <2>1, <2>2, <2>3, <2>8, <2>9, <2>10 DEF OnlyTrove
  <2>12. Sound(r)
    <3>1. Sound(q)
      BY <2>9
    <3>2. Staked(r)
      BY <2>10, <3>1, SameSums DEF Sound, Staked
    <3>3. SnapshotsBehind(r) /\ Indebted(r)
      BY <2>10, <3>1 DEF Sound, SnapshotsBehind, Indebted, active
    <3> QED
      BY <2>10, <3>2, <3>3 DEF Sound
  <2>13. /\ DebtSum(r) = DebtSum(s) + debt
         /\ \A t \in Tokens : CollSum(r, t) = CollSum(s, t) + colls[t]
         /\ OwnersCount(r) = OwnersCount(s)
         /\ \A t \in Tokens : SurplusSum(r, t) = SurplusSum(s, t)
    <3>1. /\ DebtSum(r) = DebtSum(s) - tr.debt + r.troves[b].debt
          /\ \A t \in Tokens : CollSum(r, t) = CollSum(s, t) - tr.colls[t] + r.troves[b].colls[t]
      BY <1>1, <2>10, <2>11, OneTrove DEF OnlyTrove
    <3>2. DebtSum(s) \in Nat /\ tr.debt \in Nat /\ debt \in Nat
          /\ \A t \in Tokens : CollSum(s, t) \in Nat /\ tr.colls[t] \in Nat /\ colls[t] \in Nat
      BY <1>1, <2>1, BookParts, SumsNat DEF Bundles
    <3>3. OwnersCount(r) = OwnersCount(s)
      <4>1. \A x \in Borrowers : r.troves[x].status = s.troves[x].status
        BY <2>11 DEF OnlyTrove
      <4> QED
        BY <4>1 DEF OwnersCount, active
    <3>4. \A t \in Tokens : SurplusSum(r, t) = SurplusSum(s, t)
      BY <2>11 DEF SurplusSum
    <3> QED
      BY <2>11, <3>1, <3>2, <3>3, <3>4
  <2>14. Accounts(r, d, g, c, u)
    <3>1. DebtAgrees(s, d) /\ GasAgrees(s, g) /\ CollAgrees(s, c) /\ SurplusAgrees(s, u) /\ Backed(s)
      BY DEF Accounts
    <3>2. s.pools.activeDebt \in Int /\ s.pools.defaultDebt \in Int /\ debt \in Nat
          /\ DebtSum(s) \in Nat /\ s.star.supply \in Int
          /\ \A t \in Tokens : s.pools.activeColl[t] \in Int /\ colls[t] \in Nat /\ CollSum(s, t) \in Nat /\ c[t] \in Int
      BY <1>1, <2>1, BookParts, SumsNat DEF Bundles, IntBundles
    <3>3. /\ r.pools.activeDebt = s.pools.activeDebt + debt
          /\ r.pools.defaultDebt = s.pools.defaultDebt - debt
          /\ \A t \in Tokens : r.pools.activeColl[t] = s.pools.activeColl[t] + colls[t]
      BY <2>8, <2>9, <2>10, BundleOps
    <3>4. DebtAgrees(r, d) /\ Backed(r)
      BY <2>11, <2>13, <3>1, <3>2, <3>3, Constants DEF DebtAgrees, Backed
    <3>5. CollAgrees(r, c)
      BY <2>13, <3>1, <3>2, <3>3 DEF CollAgrees
    <3>6. GasAgrees(r, g) /\ SurplusAgrees(r, u)
      BY <2>11, <2>13, <3>1 DEF GasAgrees, SurplusAgrees
    <3> QED
      BY <3>4, <3>5, <3>6 DEF Accounts
  <2> QED
    BY <2>11, <2>12, <2>14
<1> QED
  BY <1>2, <1>3

-----------------------------------------------------------------------------
(* What moves between the pools.                                           *)

WithPools(s, P, S) == [s EXCEPT !.pools = P, !.star = S]

\* The pools are replaced: the troves and the terms stay.
LEMMA PoolsReplaced ==
    ASSUME NEW s \in Books, NEW P \in PoolRecords, NEW S \in StarRecords,
           NEW r, r = WithPools(s, P, S)
    PROVE  /\ r \in Books /\ r.troves = s.troves /\ r.terms = s.terms
           /\ r.pools = P /\ r.star = S
BY DEF Books, WithPools

\* Books whose pools alone have changed are as sound as they were.
LEMMA SoundOfTroves ==
    ASSUME NEW s, Sound(s), NEW r \in Books, r.troves = s.troves, r.terms = s.terms
    PROVE  Sound(r)
<1>1. Staked(r)
  BY SameSums DEF Sound, Staked
<1>2. SnapshotsBehind(r) /\ Indebted(r)
  BY DEF Sound, SnapshotsBehind, Indebted, active
<1> QED
  BY <1>1, <1>2 DEF Sound

\* The pools of r have received, of what was on its way in s, what is no longer
\* so.
Moves(s, r, d, g, c, u, d2, g2, c2, u2) ==
    /\ r \in Books /\ r.troves = s.troves /\ r.terms = s.terms
    /\ r.pools.surplusOf = s.pools.surplusOf
    /\ d2 \in Int /\ g2 \in Int /\ c2 \in IntBundles /\ u2 \in IntBundles
    /\ r.pools.activeDebt - s.pools.activeDebt = d2 - d
    /\ r.star.gasPool - s.star.gasPool = g2 - g
    /\ \A t \in Tokens :
          /\ r.pools.activeColl[t] - s.pools.activeColl[t] >= c2[t] - c[t]
          /\ r.pools.surplusColl[t] - s.pools.surplusColl[t] = u[t] - u2[t]
    /\ r.star.supply - r.pools.activeDebt - r.pools.defaultDebt
          <= s.star.supply - s.pools.activeDebt - s.pools.defaultDebt

\* What leaves a pool is on its way, what enters has arrived.
LEMMA PoolStep ==
    ASSUME NEW s, Sound(s), NEW r,
           NEW d \in Int, NEW g \in Int, NEW c \in IntBundles, NEW u \in IntBundles,
           NEW d2, NEW g2, NEW c2, NEW u2,
           Accounts(s, d, g, c, u), Moves(s, r, d, g, c, u, d2, g2, c2, u2)
    PROVE  /\ Sound(r) /\ r.troves = s.troves /\ r.terms = s.terms
           /\ Accounts(r, d2, g2, c2, u2)
<1>1. s \in Books
  BY DEF Sound
<1>0. /\ r \in Books /\ r.troves = s.troves /\ r.terms = s.terms
      /\ r.pools.surplusOf = s.pools.surplusOf
      /\ d2 \in Int /\ g2 \in Int /\ c2 \in IntBundles /\ u2 \in IntBundles
      /\ r.pools.activeDebt - s.pools.activeDebt = d2 - d
      /\ r.star.gasPool - s.star.gasPool = g2 - g
      /\ \A t \in Tokens : r.pools.activeColl[t] - s.pools.activeColl[t] >= c2[t] - c[t]
      /\ \A t \in Tokens : r.pools.surplusColl[t] - s.pools.surplusColl[t] = u[t] - u2[t]
      /\ r.star.supply - r.pools.activeDebt - r.pools.defaultDebt
              <= s.star.supply - s.pools.activeDebt - s.pools.defaultDebt
  BY DEF Moves
<1>2. /\ DebtSum(r) = DebtSum(s) /\ OwnersCount(r) = OwnersCount(s)
      /\ \A t \in Tokens : CollSum(r, t) = CollSum(s, t) /\ SurplusSum(r, t) = SurplusSum(s, t)
  BY <1>0, SameSums
<1>3. DebtAgrees(s, d) /\ GasAgrees(s, g) /\ CollAgrees(s, c) /\ SurplusAgrees(s, u) /\ Backed(s)
  BY DEF Accounts
<1>4. DebtSum(s) \in Int /\ OwnersCount(s) \in Int
      /\ \A t \in Tokens : CollSum(s, t) \in Int /\ SurplusSum(s, t) \in Int
  <2>1. {b \in Borrowers : active(s, b)} \subseteq Borrowers
    OBVIOUS
  <2>2. IsFiniteSet({b \in Borrowers : active(s, b)})
    BY <2>1, BorrowersFinite, FS_Subset
  <2>3. OwnersCount(s) \in Nat
    BY <2>2, FS_CardinalityType DEF OwnersCount
  <2> QED
    BY <1>1, <2>3, SumsNat
<1>5. /\ s.pools.activeDebt \in Int /\ s.pools.defaultDebt \in Int /\ s.star.supply \in Int
      /\ s.star.gasPool \in Int
      /\ r.pools.activeDebt \in Int /\ r.pools.defaultDebt \in Int /\ r.star.supply \in Int
      /\ r.star.gasPool \in Int
  BY <1>0, <1>1, BookParts
<1>6. \A t \in Tokens : /\ s.pools.activeColl[t] \in Int /\ s.pools.surplusColl[t] \in Int
                        /\ r.pools.activeColl[t] \in Int /\ r.pools.surplusColl[t] \in Int
                        /\ c[t] \in Int /\ c2[t] \in Int /\ u[t] \in Int /\ u2[t] \in Int
  BY <1>0, <1>1, BookParts DEF IntBundles
<1>7. DebtAgrees(r, d2)
  BY <1>0, <1>2, <1>3, <1>4, <1>5 DEF DebtAgrees
<1>8. GasAgrees(r, g2)
  <2>1. PICK x \in Int : x = GasCompensation * OwnersCount(s)
    BY <1>4, Constants
  <2>2. s.star.gasPool = x + g
    BY <1>3, <2>1 DEF GasAgrees
  <2>3. r.star.gasPool = x + g2
    BY <1>0, <1>5, <2>2
  <2> QED
    BY <1>2, <2>1, <2>3 DEF GasAgrees
<1>9. CollAgrees(r, c2)
  BY <1>0, <1>2, <1>3, <1>4, <1>6 DEF CollAgrees
<1>10. SurplusAgrees(r, u2)
  BY <1>0, <1>2, <1>3, <1>4, <1>6 DEF SurplusAgrees
<1>11. Backed(r)
  <2>1. InitialSupply \in Int
    BY Constants
  <2> QED
    BY <1>0, <1>3, <1>5, <2>1 DEF Backed
<1>12. Sound(r)
  BY <1>0, SoundOfTroves
<1> QED
  BY <1>0, <1>7, <1>8, <1>9, <1>10, <1>11, <1>12 DEF Accounts

\* Pending debt and collateral in the ActivePool that no trove records yet.
LEMMA MovePendingAccounts ==
    ASSUME NEW s, Sound(s), NEW debt \in Nat, NEW colls \in Bundles,
           NEW d \in Int, NEW g \in Int, NEW c \in IntBundles, NEW u \in IntBundles,
           Accounts(s, d, g, c, u),
           NEW r, r = MovePending(s, debt, colls)
    PROVE  /\ Sound(r) /\ r.troves = s.troves /\ r.terms = s.terms /\ r.star = s.star
           /\ Accounts(r, d + debt, g, Plus(c, colls), u)
<1>1. s \in Books /\ colls \in IntBundles
  BY BundleOps DEF Sound
<1>2. /\ r \in Books /\ r.troves = s.troves /\ r.terms = s.terms /\ r.star = s.star
      /\ r.pools.activeDebt = s.pools.activeDebt + debt
      /\ r.pools.defaultDebt = s.pools.defaultDebt - debt
      /\ r.pools.activeColl = Plus(s.pools.activeColl, colls)
      /\ r.pools.surplusOf = s.pools.surplusOf /\ r.pools.surplusColl = s.pools.surplusColl
  <2>1. PendingMoved(s, r, debt, colls)
    BY <1>1, MovePendingEffect
  <2> QED
    BY <2>1 DEF PendingMoved
<1>3. /\ s.pools.activeDebt \in Int /\ s.pools.defaultDebt \in Int /\ s.star.supply \in Int
      /\ s.star.gasPool \in Int /\ d + debt \in Int /\ Plus(c, colls) \in IntBundles
  BY <1>1, BookParts, BundleOps
<1>4. /\ \A t \in Tokens : r.pools.activeColl[t] - s.pools.activeColl[t] >= Plus(c, colls)[t] - c[t]
      /\ \A t \in Tokens : r.pools.surplusColl[t] - s.pools.surplusColl[t] = u[t] - u[t]
  <2>1. \A t \in Tokens : /\ s.pools.activeColl[t] \in Int /\ s.pools.surplusColl[t] \in Int
                          /\ colls[t] \in Int /\ c[t] \in Int /\ u[t] \in Int
                          /\ Plus(c, colls)[t] = c[t] + colls[t]
                          /\ r.pools.activeColl[t] = s.pools.activeColl[t] + colls[t]
    BY <1>1, <1>2, BookParts, BundleOps DEF IntBundles
  <2> QED
    BY <1>2, <2>1
<1>5. /\ r.pools.activeDebt - s.pools.activeDebt = (d + debt) - d
      /\ r.star.gasPool - s.star.gasPool = g - g
      /\ r.star.supply - r.pools.activeDebt - r.pools.defaultDebt
              <= s.star.supply - s.pools.activeDebt - s.pools.defaultDebt
  BY <1>2, <1>3
<1>6. Moves(s, r, d, g, c, u, d + debt, g, Plus(c, colls), u)
  BY <1>2, <1>3, <1>4, <1>5 DEF Moves
<1> QED
  BY <1>2, <1>6, PoolStep

\* A trove is closed: what it held and owed is on its way, and so is the gas
\* compensation set aside for it.
LEMMA CloseAccounts ==
    ASSUME NEW s, Sound(s), NEW b \in Borrowers, active(s, b),
           NEW status \in Closings,
           NEW d \in Int, NEW g \in Int, NEW c \in IntBundles, NEW u \in IntBundles,
           Accounts(s, d, g, c, u),
           NEW r, r = CloseTroveAs(RemoveStake(s, b), b, status)
    PROVE  /\ Sound(r) /\ r.star = s.star /\ r.pools = s.pools
           /\ \A x \in Borrowers : x # b => r.troves[x] = s.troves[x]
           /\ Accounts(r, d + s.troves[b].debt, g + GasCompensation, Plus(c, s.troves[b].colls), u)
<1>1. s \in Books
  BY DEF Sound
<1>2. PICK q : q = RemoveStake(s, b)
  OBVIOUS
<1>3. /\ Sound(q) /\ OnlyTrove(s, q, b) /\ q.pools = s.pools /\ q.star = s.star
  BY <1>2, RemoveStakeEffect
<1>4. r = CloseTroveAs(q, b, status)
  BY <1>2
<1>5. /\ Sound(r) /\ OnlyTrove(q, r, b)
      /\ r.terms = q.terms /\ r.pools = q.pools /\ r.star = q.star
      /\ ~ active(r, b) /\ r.troves[b].debt = 0 /\ r.troves[b].colls = NoColl
  BY <1>3, <1>4, CloseTroveEffect
<1>6. r \in Books /\ (\A x \in Borrowers : x # b => r.troves[x] = s.troves[x])
      /\ r.pools = s.pools /\ r.star = s.star
  BY <1>3, <1>5 DEF OnlyTrove, Sound
<1>7. DebtAgrees(s, d) /\ GasAgrees(s, g) /\ CollAgrees(s, c) /\ SurplusAgrees(s, u) /\ Backed(s)
  BY DEF Accounts
<1>8. /\ DebtSum(r) = DebtSum(s) - s.troves[b].debt
      /\ \A t \in Tokens : CollSum(r, t) = CollSum(s, t) - s.troves[b].colls[t]
  <2>1. DebtSum(s) \in Nat /\ s.troves[b].debt \in Nat
    BY <1>1, SumsNat, BookParts
  <2>2. \A t \in Tokens : /\ CollSum(s, t) \in Nat /\ s.troves[b].colls[t] \in Nat
                          /\ r.troves[b].colls[t] = 0
    BY <1>1, <1>5, SumsNat, BookParts, BundleOps DEF Bundles
  <2>3. /\ DebtSum(r) = DebtSum(s) - s.troves[b].debt + r.troves[b].debt
        /\ \A t \in Tokens : CollSum(r, t) = CollSum(s, t) - s.troves[b].colls[t] + r.troves[b].colls[t]
    BY <1>1, <1>6, OneTrove
  <2> QED
    BY <1>5, <2>1, <2>2, <2>3
<1>9. OwnersCount(s) \in Nat /\ OwnersCount(r) = OwnersCount(s) - 1
  <2>1. ~ active(r, b)
    BY <1>5
  <2>2. \A x \in Borrowers : x # b => r.troves[x].status = s.troves[x].status
    BY <1>6
  <2> QED
    BY <1>1, <1>6, <2>1, <2>2, OwnersChange
<1>10. DebtAgrees(r, d + s.troves[b].debt)
  <2>1. DebtSum(s) \in Int /\ s.troves[b].debt \in Int
    BY <1>1, SumsNat, BookParts
  <2> QED
    BY <1>6, <1>7, <1>8, <2>1 DEF DebtAgrees
<1>11. GasAgrees(r, g + GasCompensation)
  <2>1. GasCompensation \in Int /\ OwnersCount(s) \in Int
    BY <1>9, Constants
  <2>2. GasCompensation * (OwnersCount(s) - 1) = GasCompensation * OwnersCount(s) - GasCompensation
    BY <2>1
  <2>3. PICK x \in Int : x = GasCompensation * OwnersCount(s)
    BY <2>1
  <2>4. s.star.gasPool = x + g
    BY <1>7, <2>3 DEF GasAgrees
  <2>5. GasCompensation * OwnersCount(r) = x - GasCompensation
    BY <1>9, <2>2, <2>3
  <2>6. r.star.gasPool = s.star.gasPool
    BY <1>6
  <2> QED
    BY <2>1, <2>4, <2>5, <2>6 DEF GasAgrees
<1>12. CollAgrees(r, Plus(c, s.troves[b].colls))
  <2> SUFFICES ASSUME NEW t \in Tokens
               PROVE  r.pools.activeColl[t] >= CollSum(r, t) + Plus(c, s.troves[b].colls)[t]
    BY DEF CollAgrees
  <2>1. /\ s.troves[b].colls[t] \in Nat /\ c[t] \in Int /\ CollSum(s, t) \in Nat
        /\ s.pools.activeColl[t] \in Int
    BY <1>1, SumsNat, BookParts DEF Bundles, IntBundles
  <2>2. Plus(c, s.troves[b].colls)[t] = c[t] + s.troves[b].colls[t]
    BY BundleOps
  <2> QED
    BY <1>6, <1>7, <1>8, <2>1, <2>2 DEF CollAgrees
<1>13. SurplusAgrees(r, u) /\ Backed(r)
  BY <1>6, <1>7 DEF SurplusAgrees, Backed, SurplusSum
<1> QED
  BY <1>5, <1>6, <1>10, <1>11, <1>12, <1>13 DEF Accounts

\* A surplus is credited before it is sent.
LEMMA AccountSurplusAccounts ==
    ASSUME NEW s, Sound(s), NEW b \in Borrowers, NEW colls \in Bundles,
           NEW d \in Int, NEW g \in Int, NEW c \in IntBundles, NEW u \in IntBundles,
           Accounts(s, d, g, c, u),
           NEW r, r = AccountSurplus(s, b, colls)
    PROVE  /\ Sound(r) /\ r.troves = s.troves /\ r.terms = s.terms /\ r.star = s.star
           /\ Accounts(r, d, g, c, Plus(u, colls))
<1>1. s \in Books
  BY DEF Sound
<1>2. PICK k : k = Plus(s.pools.surplusOf[b], colls)
  OBVIOUS
<1>3. k \in Bundles /\ \A t \in Tokens : k[t] = s.pools.surplusOf[b][t] + colls[t]
  BY <1>1, <1>2, BookParts, BundleOps
<1>4. PICK K : K = [s.pools.surplusOf EXCEPT ![b] = k]
  OBVIOUS
<1>5. K \in [Borrowers -> Bundles] /\ K[b] = k /\ \A x \in Borrowers : x # b => K[x] = s.pools.surplusOf[x]
  <2>1. s.pools.surplusOf \in [Borrowers -> Bundles]
    BY <1>1, BookParts DEF PoolRecords
  <2> QED
    BY <1>3, <1>4, <2>1
<1>6. PICK P : P = [s.pools EXCEPT !.surplusOf = K]
  OBVIOUS
<1>7. /\ P \in PoolRecords /\ P.surplusOf = K
      /\ P.activeDebt = s.pools.activeDebt /\ P.defaultDebt = s.pools.defaultDebt
      /\ P.activeColl = s.pools.activeColl /\ P.surplusColl = s.pools.surplusColl
  <2>1. s.pools \in PoolRecords
    BY <1>1, BookParts
  <2> QED
    BY <1>5, <1>6, <2>1 DEF PoolRecords
<1>8. r = WithPools(s, P, s.star)
  BY <1>1, <1>2, <1>4, <1>6 DEF AccountSurplus, WithPools, Books, PoolRecords
<1>9. r \in Books /\ r.troves = s.troves /\ r.terms = s.terms /\ r.pools = P /\ r.star = s.star
  BY <1>1, <1>7, <1>8, BookParts, PoolsReplaced
<1>10. \A t \in Tokens : SurplusSum(r, t) = SurplusSum(s, t) - s.pools.surplusOf[b][t] + r.pools.surplusOf[b][t]
  BY <1>1, <1>5, <1>7, <1>9, OneSurplus
<1>11. DebtAgrees(s, d) /\ GasAgrees(s, g) /\ CollAgrees(s, c) /\ SurplusAgrees(s, u) /\ Backed(s)
  BY DEF Accounts
<1>12. DebtAgrees(r, d) /\ GasAgrees(r, g) /\ CollAgrees(r, c) /\ Backed(r)
  BY <1>7, <1>9, <1>11, SameSums DEF DebtAgrees, GasAgrees, CollAgrees, Backed
<1>13. SurplusAgrees(r, Plus(u, colls))
  <2> SUFFICES ASSUME NEW t \in Tokens
               PROVE  r.pools.surplusColl[t] + Plus(u, colls)[t] = SurplusSum(r, t)
    BY DEF SurplusAgrees
  <2>1. /\ Plus(u, colls)[t] = u[t] + colls[t] /\ r.pools.surplusOf[b][t] = s.pools.surplusOf[b][t] + colls[t]
        /\ r.pools.surplusColl[t] = s.pools.surplusColl[t]
    BY <1>3, <1>5, <1>7, <1>9, BundleOps
  <2>2. /\ u[t] \in Int /\ colls[t] \in Int /\ s.pools.surplusOf[b][t] \in Int
        /\ s.pools.surplusColl[t] \in Int /\ SurplusSum(s, t) \in Int
    BY <1>1, SumsNat, BookParts DEF Bundles, IntBundles
  <2> QED
    BY <1>10, <1>11, <2>1, <2>2 DEF SurplusAgrees
<1>14. Sound(r)
  BY <1>9, SoundOfTroves
<1> QED
  BY <1>9, <1>12, <1>13, <1>14 DEF Accounts

PoolsOf(s, ac, ad, dc, dd, sc, su) ==
    [s.pools EXCEPT !.activeColl = ac, !.activeDebt = ad, !.defaultColl = dc,
                    !.defaultDebt = dd, !.stabilityColl = sc, !.surplusColl = su]

StarOf(supply, gas, held) == [supply |-> supply, gasPool |-> gas, stabilityPool |-> held]

\* The balances of the pools, one by one.
Balances(r, ac, ad, dc, dd, sc, su, supply, gas, held) ==
    /\ r.pools.activeColl = ac /\ r.pools.activeDebt = ad
    /\ r.pools.defaultColl = dc /\ r.pools.defaultDebt = dd
    /\ r.pools.stabilityColl = sc /\ r.pools.surplusColl = su
    /\ r.star.supply = supply /\ r.star.gasPool = gas /\ r.star.stabilityPool = held

SamePlaces(s, r) ==
    /\ r \in Books /\ r.troves = s.troves /\ r.terms = s.terms
    /\ r.pools.surplusOf = s.pools.surplusOf

\* Balances are replaced; the accounts of surplus stay.
LEMMA BalancesReplaced ==
    ASSUME NEW s \in Books,
           NEW ac \in IntBundles, NEW ad \in Int, NEW dc \in IntBundles, NEW dd \in Int,
           NEW sc \in Bundles, NEW su \in IntBundles,
           NEW supply \in Int, NEW gas \in Int, NEW held \in Int,
           NEW r, r = WithPools(s, PoolsOf(s, ac, ad, dc, dd, sc, su), StarOf(supply, gas, held))
    PROVE  SamePlaces(s, r) /\ Balances(r, ac, ad, dc, dd, sc, su, supply, gas, held)
<1>1. PICK P : P = PoolsOf(s, ac, ad, dc, dd, sc, su)
  OBVIOUS
<1>2. PICK S : S = StarOf(supply, gas, held)
  OBVIOUS
<1>3. /\ P \in PoolRecords /\ P.surplusOf = s.pools.surplusOf
      /\ P.activeColl = ac /\ P.activeDebt = ad /\ P.defaultColl = dc
      /\ P.defaultDebt = dd /\ P.stabilityColl = sc /\ P.surplusColl = su
  <2>1. s.pools \in PoolRecords
    BY BookParts
  <2> QED
    BY <1>1, <2>1 DEF PoolRecords, PoolsOf
<1>4. S \in StarRecords /\ S.supply = supply /\ S.gasPool = gas /\ S.stabilityPool = held
  BY <1>2 DEF StarRecords, StarOf
<1>5. r \in Books /\ r.troves = s.troves /\ r.terms = s.terms /\ r.pools = P /\ r.star = S
  BY <1>1, <1>2, <1>3, <1>4, PoolsReplaced
<1> QED
  BY <1>3, <1>4, <1>5 DEF SamePlaces, Balances

\* The balances there are.
LEMMA BalancesOf ==
    ASSUME NEW s \in Books
    PROVE  \E ac \in IntBundles, ad \in Int, dc \in IntBundles, dd \in Int,
              sc \in Bundles, su \in IntBundles, supply \in Int, gas \in Int, held \in Int :
                 Balances(s, ac, ad, dc, dd, sc, su, supply, gas, held)
BY BookParts DEF Balances

\* The surplus is sent.
LEMMA SendSurplusAccounts ==
    ASSUME NEW s, Sound(s), NEW colls \in Bundles,
           NEW d \in Int, NEW g \in Int, NEW c \in IntBundles, NEW u \in IntBundles,
           Accounts(s, d, g, c, u),
           NEW r, r = SendSurplus(s, colls)
    PROVE  /\ Sound(r) /\ SamePlaces(s, r) /\ r.star = s.star
           /\ r.pools.activeColl = Minus(s.pools.activeColl, colls)
           /\ r.pools.defaultColl = s.pools.defaultColl
           /\ Accounts(r, d, g, Minus(c, colls), Minus(u, colls))
<1>1. s \in Books
  BY DEF Sound
<1>2. PICK ac \in IntBundles, ad \in Int, dc \in IntBundles, dd \in Int,
           sc \in Bundles, su \in IntBundles, supply \in Int, gas \in Int, held \in Int :
              Balances(s, ac, ad, dc, dd, sc, su, supply, gas, held)
  BY <1>1, BalancesOf
<1>3. PICK ac2 \in IntBundles, su2 \in IntBundles, c2 \in IntBundles, u2 \in IntBundles :
        /\ ac2 = Minus(ac, colls) /\ su2 = Plus(su, colls)
        /\ c2 = Minus(c, colls) /\ u2 = Minus(u, colls)
  BY BundleOps
<1>4. r = WithPools(s, PoolsOf(s, ac2, ad, dc, dd, sc, su2), StarOf(supply, gas, held))
  <2>1. s.pools \in PoolRecords /\ s.star \in StarRecords
    BY <1>1, BookParts
  <2> QED
    BY <1>1, <1>2, <1>3, <2>1
    DEF SendSurplus, WithPools, PoolsOf, StarOf, Balances, Books, PoolRecords, StarRecords
<1>5. SamePlaces(s, r) /\ Balances(r, ac2, ad, dc, dd, sc, su2, supply, gas, held)
  BY <1>1, <1>4, BalancesReplaced
<1>6. \A t \in Tokens : ac2[t] - ac[t] >= c2[t] - c[t] /\ su2[t] - su[t] = u[t] - u2[t]
  <2>1. \A t \in Tokens : /\ ac2[t] = ac[t] - colls[t] /\ su2[t] = su[t] + colls[t]
                          /\ c2[t] = c[t] - colls[t] /\ u2[t] = u[t] - colls[t]
    BY <1>3, BundleOps
  <2>2. \A t \in Tokens : /\ ac[t] \in Int /\ su[t] \in Int /\ c[t] \in Int /\ u[t] \in Int
                          /\ colls[t] \in Int
    BY DEF Bundles, IntBundles
  <2> QED
    BY <2>1, <2>2
<1>7. Moves(s, r, d, g, c, u, d, g, c2, u2)
  BY <1>2, <1>3, <1>5, <1>6 DEF Moves, SamePlaces, Balances
<1>8. Sound(r) /\ Accounts(r, d, g, c2, u2)
  BY <1>7, PoolStep
<1>9. r.star = s.star /\ r.pools.activeColl = Minus(s.pools.activeColl, colls)
      /\ r.pools.defaultColl = s.pools.defaultColl
  <2>1. r.star \in StarRecords /\ s.star \in StarRecords
    BY <1>1, <1>5, BookParts DEF SamePlaces
  <2>2. r.star = s.star
    BY <1>2, <1>5, <2>1 DEF StarRecords, Balances
  <2> QED
    BY <1>2, <1>3, <1>5, <2>2 DEF Balances
<1> QED
  BY <1>3, <1>5, <1>8, <1>9

\* STAR is burnt against the debt, and collateral leaves the ActivePool.
LEMMA PayOutAccounts ==
    ASSUME NEW s, Sound(s), NEW amount \in Int, NEW colls \in Bundles,
           NEW d \in Int, NEW g \in Int, NEW c \in IntBundles, NEW u \in IntBundles,
           Accounts(s, d, g, c, u),
           NEW r, r = PayOut(s, amount, colls)
    PROVE  /\ Sound(r) /\ SamePlaces(s, r)
           /\ Accounts(r, d - amount, g, Minus(c, colls), u)
<1>1. s \in Books
  BY DEF Sound
<1>2. PICK ac \in IntBundles, ad \in Int, dc \in IntBundles, dd \in Int,
           sc \in Bundles, su \in IntBundles, supply \in Int, gas \in Int, held \in Int :
              Balances(s, ac, ad, dc, dd, sc, su, supply, gas, held)
  BY <1>1, BalancesOf
<1>3. PICK ac2 \in IntBundles, ad2 \in Int, supply2 \in Int :
        ac2 = Minus(ac, colls) /\ ad2 = ad - amount /\ supply2 = supply - amount
  BY BundleOps
<1>4. r = WithPools(s, PoolsOf(s, ac2, ad2, dc, dd, sc, su), StarOf(supply2, gas, held))
  <2>1. s.pools \in PoolRecords /\ s.star \in StarRecords
    BY <1>1, BookParts
  <2>2. PICK P, S : /\ P = [s.pools EXCEPT !.activeDebt = ad2, !.activeColl = ac2]
                    /\ S = [s.star EXCEPT !.supply = supply2]
    OBVIOUS
  <2>3. r = WithPools(s, P, S)
    BY <1>1, <1>2, <1>3, <2>1, <2>2 DEF PayOut, Burn, WithPools, Balances, Books, PoolRecords, StarRecords
  <2>4. /\ P = PoolsOf(s, ac2, ad2, dc, dd, sc, su)
        /\ S = StarOf(supply2, gas, held)
    BY <1>2, <2>1, <2>2 DEF PoolsOf, StarOf, Balances, PoolRecords, StarRecords
  <2> QED
    BY <2>3, <2>4
<1>5. SamePlaces(s, r) /\ Balances(r, ac2, ad2, dc, dd, sc, su, supply2, gas, held)
  BY <1>1, <1>4, BalancesReplaced
<1>6. Moves(s, r, d, g, c, u, d - amount, g, Minus(c, colls), u)
  <2>1. \A t \in Tokens : /\ ac[t] \in Int /\ c[t] \in Int /\ su[t] \in Int /\ u[t] \in Int
                          /\ colls[t] \in Int /\ ac2[t] = ac[t] - colls[t]
                          /\ Minus(c, colls)[t] = c[t] - colls[t]
    BY <1>3, BundleOps DEF Bundles, IntBundles
  <2>2. Minus(c, colls) \in IntBundles
    BY BundleOps
  <2> QED
    BY <1>2, <1>3, <1>5, <2>1, <2>2 DEF Moves, SamePlaces, Balances
<1>7. Sound(r) /\ Accounts(r, d - amount, g, Minus(c, colls), u)
  BY <1>6, PoolStep
<1> QED
  BY <1>2, <1>3, <1>5, <1>7 DEF Balances

\* The liquidator is paid out of the GasPool and the ActivePool.
LEMMA CompensateAccounts ==
    ASSUME NEW s, Sound(s), NEW totals, NEW gasStar \in Int, NEW colls \in Bundles,
           gasStar = totals.STARGasCompensation, colls = totals.collGasCompensation,
           NEW d \in Int, NEW g \in Int, NEW c \in IntBundles, NEW u \in IntBundles,
           Accounts(s, d, g, c, u),
           NEW r, r = CompensateLiquidator(s, totals)
    PROVE  /\ Sound(r) /\ SamePlaces(s, r)
           /\ Accounts(r, d, g - gasStar, Minus(c, colls), u)
           /\ r.pools.activeColl = Minus(s.pools.activeColl, colls)
           /\ r.pools.defaultColl = s.pools.defaultColl
<1>1. s \in Books
  BY DEF Sound
<1>2. PICK ac \in IntBundles, ad \in Int, dc \in IntBundles, dd \in Int,
           sc \in Bundles, su \in IntBundles, supply \in Int, gas \in Int, held \in Int :
              Balances(s, ac, ad, dc, dd, sc, su, supply, gas, held)
  BY <1>1, BalancesOf
<1>3. PICK ac2 \in IntBundles, gas2 \in Int :
        ac2 = Minus(ac, colls) /\ gas2 = gas - gasStar
  BY BundleOps
<1>4. r = WithPools(s, PoolsOf(s, ac2, ad, dc, dd, sc, su), StarOf(supply, gas2, held))
  <2>1. s.pools \in PoolRecords /\ s.star \in StarRecords
    BY <1>1, BookParts
  <2>2. PICK P, S : /\ P = [s.pools EXCEPT !.activeColl = ac2]
                    /\ S = [s.star EXCEPT !.gasPool = gas2]
    OBVIOUS
  <2>3. r = WithPools(s, P, S)
    BY <1>1, <1>2, <1>3, <2>1, <2>2 DEF CompensateLiquidator, WithPools, Balances, Books, PoolRecords, StarRecords
  <2>4. /\ P = PoolsOf(s, ac2, ad, dc, dd, sc, su)
        /\ S = StarOf(supply, gas2, held)
    BY <1>2, <2>1, <2>2 DEF PoolsOf, StarOf, Balances, PoolRecords, StarRecords
  <2> QED
    BY <2>3, <2>4
<1>5. SamePlaces(s, r) /\ Balances(r, ac2, ad, dc, dd, sc, su, supply, gas2, held)
  BY <1>1, <1>4, BalancesReplaced
<1>6. Moves(s, r, d, g, c, u, d, g - gasStar, Minus(c, colls), u)
  <2>1. \A t \in Tokens : /\ ac[t] \in Int /\ c[t] \in Int /\ su[t] \in Int /\ u[t] \in Int
                          /\ colls[t] \in Int /\ ac2[t] = ac[t] - colls[t]
                          /\ Minus(c, colls)[t] = c[t] - colls[t]
    BY <1>3, BundleOps DEF Bundles, IntBundles
  <2>2. Minus(c, colls) \in IntBundles
    BY BundleOps
  <2> QED
    BY <1>2, <1>3, <1>5, <2>1, <2>2 DEF Moves, SamePlaces, Balances
<1>7. Sound(r) /\ Accounts(r, d, g - gasStar, Minus(c, colls), u)
  BY <1>6, PoolStep
<1> QED
  BY <1>2, <1>3, <1>5, <1>7 DEF Balances

\* The gas compensation is burnt out of the GasPool.
LEMMA BurnGasAccounts ==
    ASSUME NEW s, Sound(s), 
           NEW d \in Int, NEW g \in Int, NEW c \in IntBundles, NEW u \in IntBundles,
           Accounts(s, d, g, c, u),
           NEW r, r = [Burn(s, GasCompensation) EXCEPT !.star.gasPool = @ - GasCompensation]
    PROVE  /\ Sound(r) /\ SamePlaces(s, r)
           /\ Accounts(r, d - GasCompensation, g - GasCompensation, c, u)
<1>1. s \in Books
  BY DEF Sound
<1>2. PICK ac \in IntBundles, ad \in Int, dc \in IntBundles, dd \in Int,
           sc \in Bundles, su \in IntBundles, supply \in Int, gas \in Int, held \in Int :
              Balances(s, ac, ad, dc, dd, sc, su, supply, gas, held)
  BY <1>1, BalancesOf
<1>3. PICK ad2 \in Int, supply2 \in Int, gas2 \in Int :
        /\ ad2 = ad - GasCompensation /\ supply2 = supply - GasCompensation
        /\ gas2 = gas - GasCompensation
  BY Constants
<1>4. r = WithPools(s, PoolsOf(s, ac, ad2, dc, dd, sc, su), StarOf(supply2, gas2, held))
  <2>1. s.pools \in PoolRecords /\ s.star \in StarRecords
    BY <1>1, BookParts
  <2>2. PICK P, S : /\ P = [s.pools EXCEPT !.activeDebt = ad2]
                    /\ S = [s.star EXCEPT !.supply = supply2, !.gasPool = gas2]
    OBVIOUS
  <2>3. r = WithPools(s, P, S)
    BY <1>1, <1>2, <1>3, <2>1, <2>2 DEF Burn, WithPools, Balances, Books, PoolRecords, StarRecords
  <2>4. /\ P = PoolsOf(s, ac, ad2, dc, dd, sc, su)
        /\ S = StarOf(supply2, gas2, held)
    BY <1>2, <2>1, <2>2 DEF PoolsOf, StarOf, Balances, PoolRecords, StarRecords
  <2> QED
    BY <2>3, <2>4
<1>5. SamePlaces(s, r) /\ Balances(r, ac, ad2, dc, dd, sc, su, supply2, gas2, held)
  BY <1>1, <1>4, BalancesReplaced
<1>6. Moves(s, r, d, g, c, u, d - GasCompensation, g - GasCompensation, c, u)
  <2>1. \A t \in Tokens : ac[t] \in Int /\ c[t] \in Int /\ su[t] \in Int /\ u[t] \in Int
    BY DEF IntBundles
  <2> QED
    BY <1>2, <1>3, <1>5, <2>1, Constants DEF Moves, SamePlaces, Balances
<1>7. Sound(r) /\ Accounts(r, d - GasCompensation, g - GasCompensation, c, u)
  BY <1>6, PoolStep
<1> QED
  BY <1>2, <1>3, <1>5, <1>7 DEF Balances

\* What the last steps of an opening, an adjustment and a closing do to the pools.
OpeningPaid(e, colls, debt, minted) ==
    [Lend([e EXCEPT !.pools.activeColl = Plus(@, colls)], debt, minted)
        EXCEPT !.star.gasPool = @ + GasCompensation]
AdjustmentPaid(n, collsIn, collsOut, x, minted) ==
    Lend([n EXCEPT !.pools.activeColl = Minus(Plus(@, collsIn), collsOut)], x, minted)
OwnerPaid(k, debt, colls) ==
    [Burn(k, debt) EXCEPT !.star.gasPool = @ - GasCompensation,
                          !.pools.activeColl = Minus(@, colls)]

\* An owner's debt, gas compensation and collateral leave the pools.
LEMMA OwnerPays ==
    ASSUME NEW s, Sound(s), NEW debt \in Int, NEW colls \in Bundles,
           NEW d \in Int, NEW g \in Int, NEW c \in IntBundles, NEW u \in IntBundles,
           Accounts(s, d, g, c, u),
           NEW r, r = OwnerPaid(s, debt, colls)
    PROVE  /\ Sound(r) /\ SamePlaces(s, r)
           /\ Accounts(r, d - debt, g - GasCompensation, Minus(c, colls), u)
<1>1. s \in Books
  BY DEF Sound
<1>2. PICK ac \in IntBundles, ad \in Int, dc \in IntBundles, dd \in Int,
           sc \in Bundles, su \in IntBundles, supply \in Int, gas \in Int, held \in Int :
              Balances(s, ac, ad, dc, dd, sc, su, supply, gas, held)
  BY <1>1, BalancesOf
<1>3. PICK ac2 \in IntBundles, ad2 \in Int, supply2 \in Int, gas2 \in Int :
        /\ ac2 = Minus(ac, colls) /\ ad2 = ad - debt /\ supply2 = supply - debt
        /\ gas2 = gas - GasCompensation
  BY BundleOps, Constants
<1>4. r = WithPools(s, PoolsOf(s, ac2, ad2, dc, dd, sc, su), StarOf(supply2, gas2, held))
  <2>1. s.pools \in PoolRecords /\ s.star \in StarRecords
    BY <1>1, BookParts
  <2>2. PICK P, S : /\ P = [s.pools EXCEPT !.activeColl = ac2, !.activeDebt = ad2]
                    /\ S = [s.star EXCEPT !.supply = supply2, !.gasPool = gas2]
    OBVIOUS
  <2>3. r = WithPools(s, P, S)
    <3>1. PICK B : B = Burn(s, debt)
      OBVIOUS
    <3>2. /\ B = [s EXCEPT !.pools = B.pools, !.star = B.star]
          /\ B.pools = [s.pools EXCEPT !.activeDebt = ad2]
          /\ B.star = [s.star EXCEPT !.supply = supply2]
      BY <1>1, <1>2, <1>3, <2>1, <3>1 DEF Burn, Balances, Books, PoolRecords, StarRecords
    <3>3. r = [s EXCEPT !.pools = [B.pools EXCEPT !.activeColl = ac2],
                        !.star = [B.star EXCEPT !.gasPool = gas2]]
      <4>1. /\ B.pools.activeColl = ac /\ B.star.gasPool = gas
        BY <1>2, <2>1, <3>2 DEF Balances, PoolRecords, StarRecords
      <4>2. r = [B EXCEPT !.star = [B.star EXCEPT !.gasPool = gas2],
                          !.pools = [B.pools EXCEPT !.activeColl = ac2]]
        BY <1>1, <1>3, <3>1, <3>2, <4>1 DEF OwnerPaid, Books
      <4> QED
        BY <1>1, <3>2, <4>2 DEF Books
    <3>4. /\ P = [B.pools EXCEPT !.activeColl = ac2]
          /\ S = [B.star EXCEPT !.gasPool = gas2]
      BY <2>1, <2>2, <3>2 DEF PoolRecords, StarRecords
    <3> QED
      BY <3>3, <3>4 DEF WithPools
  <2>4. /\ P = PoolsOf(s, ac2, ad2, dc, dd, sc, su)
        /\ S = StarOf(supply2, gas2, held)
    BY <1>2, <2>1, <2>2 DEF PoolsOf, StarOf, Balances, PoolRecords, StarRecords
  <2> QED
    BY <2>3, <2>4
<1>5. SamePlaces(s, r) /\ Balances(r, ac2, ad2, dc, dd, sc, su, supply2, gas2, held)
  BY <1>1, <1>4, BalancesReplaced
<1>6. Moves(s, r, d, g, c, u, d - debt, g - GasCompensation, Minus(c, colls), u)
  <2>1. \A t \in Tokens : /\ ac[t] \in Int /\ c[t] \in Int /\ su[t] \in Int /\ u[t] \in Int
                          /\ colls[t] \in Int /\ ac2[t] = ac[t] - colls[t]
                          /\ Minus(c, colls)[t] = c[t] - colls[t]
    BY <1>3, BundleOps DEF Bundles, IntBundles
  <2>2. Minus(c, colls) \in IntBundles
    BY BundleOps
  <2> QED
    BY <1>2, <1>3, <1>5, <2>1, <2>2, Constants DEF Moves, SamePlaces, Balances
<1>7. Sound(r) /\ Accounts(r, d - debt, g - GasCompensation, Minus(c, colls), u)
  BY <1>6, PoolStep
<1> QED
  BY <1>2, <1>3, <1>5, <1>7 DEF Balances

\* STAR of the StabilityPool is burnt for the collateral it receives.
LEMMA OffsetMoves ==
    ASSUME NEW s, Sound(s), NEW debt \in Int, NEW colls \in Bundles,
           NEW d \in Int, NEW g \in Int, NEW c \in IntBundles, NEW u \in IntBundles,
           Accounts(s, d, g, c, u),
           NEW r, r = [Burn(s, debt) EXCEPT !.star.stabilityPool = @ - debt,
                                     !.pools.activeColl = Minus(@, colls),
                                     !.pools.stabilityColl = Plus(@, colls)]
    PROVE  /\ Sound(r) /\ SamePlaces(s, r)
           /\ Accounts(r, d - debt, g, Minus(c, colls), u)
<1>1. s \in Books
  BY DEF Sound
<1>2. PICK ac \in IntBundles, ad \in Int, dc \in IntBundles, dd \in Int,
           sc \in Bundles, su \in IntBundles, supply \in Int, gas \in Int, held \in Int :
              Balances(s, ac, ad, dc, dd, sc, su, supply, gas, held)
  BY <1>1, BalancesOf
<1>3. PICK ac2 \in IntBundles, sc2 \in Bundles, ad2 \in Int, supply2 \in Int, held2 \in Int :
        /\ ac2 = Minus(ac, colls) /\ ad2 = ad - debt /\ supply2 = supply - debt
        /\ held2 = held - debt /\ sc2 = Plus(sc, colls)
  BY BundleOps
<1>4. r = WithPools(s, PoolsOf(s, ac2, ad2, dc, dd, sc2, su), StarOf(supply2, gas, held2))
  <2>1. s.pools \in PoolRecords /\ s.star \in StarRecords
    BY <1>1, BookParts
  <2>2. PICK P, S : /\ P = [s.pools EXCEPT !.activeColl = ac2, !.activeDebt = ad2, !.stabilityColl = sc2]
                    /\ S = [s.star EXCEPT !.supply = supply2, !.stabilityPool = held2]
    OBVIOUS
  <2>3. r = WithPools(s, P, S)
    <3>1. PICK P1, S1 : /\ P1 = [s.pools EXCEPT !.activeDebt = ad2]
                        /\ S1 = [s.star EXCEPT !.supply = supply2]
      OBVIOUS
    <3>2. PICK q : q = Burn(s, debt)
      OBVIOUS
    <3>3. q = [s EXCEPT !.pools = P1, !.star = S1]
      BY <1>1, <1>2, <1>3, <2>1, <3>1, <3>2 DEF Burn, Balances, Books, PoolRecords, StarRecords
    <3>4. q.pools = P1 /\ q.star = S1
      BY <1>1, <3>3 DEF Books
    <3>5. /\ P = [q.pools EXCEPT !.activeColl = Minus(@, colls), !.stabilityColl = Plus(@, colls)]
          /\ S = [q.star EXCEPT !.stabilityPool = @ - debt]
      <4>1. /\ q.pools.activeColl = ac /\ q.pools.stabilityColl = sc /\ q.star.stabilityPool = held
        BY <1>2, <2>1, <3>1, <3>4 DEF Balances, PoolRecords, StarRecords
      <4>2. /\ [q.pools EXCEPT !.activeColl = Minus(@, colls), !.stabilityColl = Plus(@, colls)]
                 = [P1 EXCEPT !.activeColl = ac2, !.stabilityColl = sc2]
            /\ [q.star EXCEPT !.stabilityPool = @ - debt] = [S1 EXCEPT !.stabilityPool = held2]
        <5>1. P1 \in PoolRecords /\ S1 \in StarRecords
          BY <2>1, <3>1 DEF PoolRecords, StarRecords
        <5> QED
          BY <1>3, <3>4, <4>1, <5>1 DEF PoolRecords, StarRecords
      <4>3. /\ P = [P1 EXCEPT !.activeColl = ac2, !.stabilityColl = sc2]
            /\ S = [S1 EXCEPT !.stabilityPool = held2]
        BY <2>1, <2>2, <3>1 DEF PoolRecords, StarRecords
      <4> QED
        BY <4>2, <4>3
    <3>6. r = [q EXCEPT !.star.stabilityPool = @ - debt, !.pools.activeColl = Minus(@, colls),
                        !.pools.stabilityColl = Plus(@, colls)]
      BY <3>2
    <3>7. r = [q EXCEPT !.pools = P, !.star = S]
      BY <1>1, <3>3, <3>5, <3>6 DEF Books
    <3> QED
      BY <1>1, <3>3, <3>7 DEF WithPools, Books
  <2>4. /\ P = PoolsOf(s, ac2, ad2, dc, dd, sc2, su)
        /\ S = StarOf(supply2, gas, held2)
    BY <1>2, <2>1, <2>2 DEF PoolsOf, StarOf, Balances, PoolRecords, StarRecords
  <2> QED
    BY <2>3, <2>4
<1>5. SamePlaces(s, r) /\ Balances(r, ac2, ad2, dc, dd, sc2, su, supply2, gas, held2)
  BY <1>1, <1>4, BalancesReplaced
<1>6. Moves(s, r, d, g, c, u, d - debt, g, Minus(c, colls), u)
  <2>1. \A t \in Tokens : /\ ac[t] \in Int /\ c[t] \in Int /\ su[t] \in Int /\ u[t] \in Int
                          /\ colls[t] \in Int /\ ac2[t] = ac[t] - colls[t]
                          /\ Minus(c, colls)[t] = c[t] - colls[t]
    BY <1>3, BundleOps DEF Bundles, IntBundles
  <2>2. Minus(c, colls) \in IntBundles
    BY BundleOps
  <2> QED
    BY <1>2, <1>3, <1>5, <2>1, <2>2 DEF Moves, SamePlaces, Balances
<1>7. Sound(r) /\ Accounts(r, d - debt, g, Minus(c, colls), u)
  BY <1>6, PoolStep
<1> QED
  BY <1>2, <1>3, <1>5, <1>7 DEF Balances

\* The collateral of a new trove is received; its debt is lent and its gas
\* compensation set aside.
LEMMA OpeningLent ==
    ASSUME NEW s, Sound(s), NEW debt \in Int, NEW minted \in Int, minted <= debt, NEW colls \in Bundles,
           NEW d \in Int, NEW g \in Int, NEW c \in IntBundles, NEW u \in IntBundles,
           Accounts(s, d, g, c, u),
           NEW r, r = OpeningPaid(s, colls, debt, minted)
    PROVE  /\ Sound(r) /\ SamePlaces(s, r)
           /\ Accounts(r, d + debt, g + GasCompensation, Plus(c, colls), u)
<1>1. s \in Books
  BY DEF Sound
<1>2. PICK ac \in IntBundles, ad \in Int, dc \in IntBundles, dd \in Int,
           sc \in Bundles, su \in IntBundles, supply \in Int, gas \in Int, held \in Int :
              Balances(s, ac, ad, dc, dd, sc, su, supply, gas, held)
  BY <1>1, BalancesOf
<1>3. PICK ac2 \in IntBundles, ad2 \in Int, supply2 \in Int, gas2 \in Int :
        /\ ac2 = Plus(ac, colls) /\ ad2 = ad + debt /\ supply2 = supply + minted
        /\ gas2 = gas + GasCompensation
  BY BundleOps, Constants
<1>4. r = WithPools(s, PoolsOf(s, ac2, ad2, dc, dd, sc, su), StarOf(supply2, gas2, held))
  <2>1. s.pools \in PoolRecords /\ s.star \in StarRecords
    BY <1>1, BookParts
  <2>2. PICK P, S : /\ P = [s.pools EXCEPT !.activeColl = ac2, !.activeDebt = ad2]
                    /\ S = [s.star EXCEPT !.supply = supply2, !.gasPool = gas2]
    OBVIOUS
  <2>3. r = WithPools(s, P, S)
    BY <1>1, <1>2, <1>3, <2>1, <2>2 DEF OpeningPaid, Lend, WithPools, Balances, Books, PoolRecords, StarRecords
  <2>4. /\ P = PoolsOf(s, ac2, ad2, dc, dd, sc, su)
        /\ S = StarOf(supply2, gas2, held)
    BY <1>2, <2>1, <2>2 DEF PoolsOf, StarOf, Balances, PoolRecords, StarRecords
  <2> QED
    BY <2>3, <2>4
<1>5. SamePlaces(s, r) /\ Balances(r, ac2, ad2, dc, dd, sc, su, supply2, gas2, held)
  BY <1>1, <1>4, BalancesReplaced
<1>6. Moves(s, r, d, g, c, u, d + debt, g + GasCompensation, Plus(c, colls), u)
  <2>1. \A t \in Tokens : /\ ac[t] \in Int /\ c[t] \in Int /\ su[t] \in Int /\ u[t] \in Int
                          /\ colls[t] \in Int /\ ac2[t] = ac[t] + colls[t]
                          /\ Plus(c, colls)[t] = c[t] + colls[t]
    BY <1>3, BundleOps DEF Bundles, IntBundles
  <2>2. Plus(c, colls) \in IntBundles
    BY BundleOps
  <2> QED
    BY <1>2, <1>3, <1>5, <2>1, <2>2, Constants DEF Moves, SamePlaces, Balances
<1>7. Sound(r) /\ Accounts(r, d + debt, g + GasCompensation, Plus(c, colls), u)
  BY <1>6, PoolStep
<1> QED
  BY <1>2, <1>3, <1>5, <1>7 DEF Balances

\* Collateral is received and given back; debt is lent or repaid.
LEMMA AdjustmentLent ==
    ASSUME NEW s, Sound(s), NEW debt \in Int, NEW minted \in Int, minted <= debt,
           NEW collsIn \in Bundles, NEW collsOut \in Bundles,
           NEW d \in Int, NEW g \in Int, NEW c \in IntBundles, NEW u \in IntBundles,
           Accounts(s, d, g, c, u),
           NEW r, r = AdjustmentPaid(s, collsIn, collsOut, debt, minted)
    PROVE  /\ Sound(r) /\ SamePlaces(s, r)
           /\ Accounts(r, d + debt, g, Minus(Plus(c, collsIn), collsOut), u)
<1>1. s \in Books
  BY DEF Sound
<1>2. PICK ac \in IntBundles, ad \in Int, dc \in IntBundles, dd \in Int,
           sc \in Bundles, su \in IntBundles, supply \in Int, gas \in Int, held \in Int :
              Balances(s, ac, ad, dc, dd, sc, su, supply, gas, held)
  BY <1>1, BalancesOf
<1>3. PICK ac2 \in IntBundles, ad2 \in Int, supply2 \in Int :
        /\ ac2 = Minus(Plus(ac, collsIn), collsOut)
        /\ ad2 = ad + debt /\ supply2 = supply + minted
  BY BundleOps
<1>4. r = WithPools(s, PoolsOf(s, ac2, ad2, dc, dd, sc, su), StarOf(supply2, gas, held))
  <2>1. s.pools \in PoolRecords /\ s.star \in StarRecords
    BY <1>1, BookParts
  <2>2. PICK P, S : /\ P = [s.pools EXCEPT !.activeColl = ac2, !.activeDebt = ad2]
                    /\ S = [s.star EXCEPT !.supply = supply2]
    OBVIOUS
  <2>3. r = WithPools(s, P, S)
    BY <1>1, <1>2, <1>3, <2>1, <2>2 DEF AdjustmentPaid, Lend, WithPools, Balances, Books, PoolRecords, StarRecords
  <2>4. /\ P = PoolsOf(s, ac2, ad2, dc, dd, sc, su)
        /\ S = StarOf(supply2, gas, held)
    BY <1>2, <2>1, <2>2 DEF PoolsOf, StarOf, Balances, PoolRecords, StarRecords
  <2> QED
    BY <2>3, <2>4
<1>5. SamePlaces(s, r) /\ Balances(r, ac2, ad2, dc, dd, sc, su, supply2, gas, held)
  BY <1>1, <1>4, BalancesReplaced
<1>8. PICK c2, d2 : c2 = Minus(Plus(c, collsIn), collsOut) /\ d2 = d + debt
  OBVIOUS
<1>6. Moves(s, r, d, g, c, u, d2, g, c2, u)
  <2>1. \A t \in Tokens : /\ ac[t] \in Int /\ c[t] \in Int /\ su[t] \in Int /\ u[t] \in Int
                          /\ collsIn[t] \in Int /\ collsOut[t] \in Int /\ ac2[t] = ac[t] + collsIn[t] - collsOut[t]
                          /\ Minus(Plus(c, collsIn), collsOut)[t] = c[t] + collsIn[t] - collsOut[t]
    BY <1>3, BundleOps DEF Bundles, IntBundles
  <2>2. Minus(Plus(c, collsIn), collsOut) \in IntBundles
    BY BundleOps
  <2> QED
    BY <1>2, <1>3, <1>5, <1>8, <2>1, <2>2 DEF Moves, SamePlaces, Balances
<1>7. Sound(r) /\ Accounts(r, d2, g, c2, u)
  BY <1>6, PoolStep
<1> QED
  BY <1>2, <1>3, <1>5, <1>7, <1>8 DEF Balances

\* STAR enters or leaves the StabilityPool.
LEMMA StabilityPoolPaid ==
    ASSUME NEW s, Sound(s), NEW amount \in Int,
           NEW d \in Int, NEW g \in Int, NEW c \in IntBundles, NEW u \in IntBundles,
           Accounts(s, d, g, c, u),
           NEW r, r = [s EXCEPT !.star.stabilityPool = @ + amount]
    PROVE  /\ Sound(r) /\ SamePlaces(s, r)
           /\ Accounts(r, d, g, c, u)
<1>1. s \in Books
  BY DEF Sound
<1>2. PICK ac \in IntBundles, ad \in Int, dc \in IntBundles, dd \in Int,
           sc \in Bundles, su \in IntBundles, supply \in Int, gas \in Int, held \in Int :
              Balances(s, ac, ad, dc, dd, sc, su, supply, gas, held)
  BY <1>1, BalancesOf
<1>3. PICK held2 \in Int : held2 = held + amount
  OBVIOUS
<1>4. r = WithPools(s, PoolsOf(s, ac, ad, dc, dd, sc, su), StarOf(supply, gas, held2))
  <2>1. s.pools \in PoolRecords /\ s.star \in StarRecords
    BY <1>1, BookParts
  <2>2. PICK P, S : /\ P = s.pools
                    /\ S = [s.star EXCEPT !.stabilityPool = held2]
    OBVIOUS
  <2>3. r = WithPools(s, P, S)
    BY <1>1, <1>2, <1>3, <2>1, <2>2 DEF WithPools, Balances, Books, PoolRecords, StarRecords
  <2>4. /\ P = PoolsOf(s, ac, ad, dc, dd, sc, su)
        /\ S = StarOf(supply, gas, held2)
    BY <1>2, <2>1, <2>2 DEF PoolsOf, StarOf, Balances, PoolRecords, StarRecords
  <2> QED
    BY <2>3, <2>4
<1>5. SamePlaces(s, r) /\ Balances(r, ac, ad, dc, dd, sc, su, supply, gas, held2)
  BY <1>1, <1>4, BalancesReplaced
<1>6. Moves(s, r, d, g, c, u, d, g, c, u)
  <2>1. \A t \in Tokens : ac[t] \in Int /\ c[t] \in Int /\ su[t] \in Int /\ u[t] \in Int
    BY DEF IntBundles
  <2> QED
    BY <1>2, <1>3, <1>5, <2>1 DEF Moves, SamePlaces, Balances
<1>7. Sound(r) /\ Accounts(r, d, g, c, u)
  BY <1>6, PoolStep
<1> QED
  BY <1>2, <1>3, <1>5, <1>7 DEF Balances

-----------------------------------------------------------------------------
(* How a liquidated trove is shared.                                       *)

\* A set of numbers with zero in it that goes on from each number to the next.
LEMMA Reaches ==
    ASSUME NEW n \in Nat, NEW G, 0 \in G, \A k \in 1..n : k - 1 \in G => k \in G
    PROVE  n \in G
<1> DEFINE T == {k \in 0..n : k \notin G}
<1> SUFFICES ASSUME T # {} PROVE FALSE
  OBVIOUS
<1>1. T \subseteq Nat /\ T # {}
  OBVIOUS
<1>2. PICK m \in T : \A x \in T : m <= x
  <2> HIDE DEF T
  <2> QED
    BY <1>1, LeastNumber
<1>3. m \in 0..n /\ m \notin G
  OBVIOUS
<1>4. m # 0
  BY <1>3
<1>5. m \in 1..n /\ m - 1 \in 0..n /\ m - 1 < m
  BY <1>3, <1>4
<1>6. m - 1 \in G
  BY <1>2, <1>5
<1> QED
  BY <1>3, <1>5, <1>6

\* Two parts whose ratios together are at most the whole.
LEMMA TwoParts ==
    ASSUME NEW c \in Nat, NEW p \in Nat, NEW q \in Nat, p + q <= Percent
    PROVE  /\ (c * p) \div Percent \in Nat /\ (c * q) \div Percent \in Nat
           /\ (c * p) \div Percent + (c * q) \div Percent <= c
<1>1. Percent \in Nat \ {0}
  BY Constants
<1>2. c * p \in Nat /\ c * q \in Nat
  BY NatProduct
<1>3. PICK x, y : x = (c * p) \div Percent /\ y = (c * q) \div Percent
  OBVIOUS
<1>4. x \in Nat /\ y \in Nat
  BY <1>1, <1>2, <1>3, QuotientNat
<1>5. x * Percent <= c * p /\ y * Percent <= c * q
  BY <1>1, <1>2, <1>3, QuotientBounds
<1>6. (x + y) * Percent <= c * (p + q)
  <2>1. (x + y) * Percent = x * Percent + y * Percent /\ c * (p + q) = c * p + c * q
    BY <1>1, <1>4
  <2>2. x * Percent \in Int /\ y * Percent \in Int
    BY <1>1, <1>4
  <2> QED
    BY <1>2, <1>5, <2>1, <2>2
<1>7. c * (p + q) <= c * Percent
  BY <1>1, TimesMonotone
<1>8. (x + y) * Percent <= c * Percent
  <2>1. (x + y) * Percent \in Int /\ c * (p + q) \in Int /\ c * Percent \in Int
    BY <1>1, <1>4
  <2> QED
    BY <1>6, <1>7, <2>1
<1>9. x + y <= c
  BY <1>1, <1>4, <1>8, FactorAtMost
<1> QED
  BY <1>3, <1>4, <1>9

\* Two parts of a bundle and what is left of it.
LEMMA Parts ==
    ASSUME NEW colls \in Bundles, NEW p \in Nat, NEW q \in Nat, p + q <= Percent
    PROVE  /\ RatioOf(colls, p) \in Bundles /\ RatioOf(colls, q) \in Bundles
           /\ Minus(Minus(colls, RatioOf(colls, p)), RatioOf(colls, q)) \in Bundles
           /\ \A t \in Tokens : RatioOf(colls, p)[t] + RatioOf(colls, q)[t] <= colls[t]
<1>1. ASSUME NEW t \in Tokens
      PROVE  /\ (colls[t] * p) \div Percent \in Nat /\ (colls[t] * q) \div Percent \in Nat
             /\ (colls[t] * p) \div Percent + (colls[t] * q) \div Percent <= colls[t]
             /\ colls[t] \in Nat
  <2>1. colls[t] \in Nat
    BY DEF Bundles
  <2> QED
    BY <2>1, TwoParts
<1>2. \A t \in Tokens : /\ RatioOf(colls, p)[t] = (colls[t] * p) \div Percent
                        /\ RatioOf(colls, q)[t] = (colls[t] * q) \div Percent
  BY DEF RatioOf
<1>3. RatioOf(colls, p) \in Bundles /\ RatioOf(colls, q) \in Bundles
  BY <1>1 DEF RatioOf, Bundles
<1>4. \A t \in Tokens : RatioOf(colls, p)[t] + RatioOf(colls, q)[t] <= colls[t]
  BY <1>1, <1>2
<1>5. PICK x \in Bundles, y \in Bundles : x = RatioOf(colls, p) /\ y = RatioOf(colls, q)
  BY <1>3
<1>6. Minus(Minus(colls, x), y) \in Bundles
  <2>1. \A t \in Tokens : colls[t] - x[t] - y[t] \in Nat
    <3>1. \A t \in Tokens : colls[t] \in Nat /\ x[t] \in Nat /\ y[t] \in Nat /\ x[t] + y[t] <= colls[t]
      BY <1>4, <1>5 DEF Bundles
    <3> QED
      BY <3>1
  <2> QED
    BY <2>1 DEF Minus, Bundles
<1> QED
  BY <1>3, <1>4, <1>5, <1>6

\* The smaller of two numbers.
LEMMA MinOfTwo ==
    ASSUME NEW a \in Int, NEW b \in Int
    PROVE  Min({a, b}) \in {a, b} /\ Min({a, b}) <= a /\ Min({a, b}) <= b
<1>1. \E x \in {a, b} : \A y \in {a, b} : x <= y
  <2>1. CASE a <= b
    BY <2>1
  <2>2. CASE ~ a <= b
    <3>1. b <= a
      BY <2>2
    <3> QED
      BY <3>1
  <2> QED
    BY <2>1, <2>2
<1>2. Min({a, b}) \in {a, b} /\ \A y \in {a, b} : Min({a, b}) <= y
  BY <1>1 DEF Min
<1> QED
  BY <1>2

\* What the values of a liquidated trove must fulfil.
Shares(v, debt, colls, held) ==
    /\ v.debtToOffset \in Nat /\ v.debtToRedistribute \in Nat /\ v.debtToOffset <= held
    /\ v.debtToOffset + v.debtToRedistribute = debt
    /\ v.collToSendToSP \in Bundles /\ v.collSurplus \in Bundles /\ v.collToRedistribute \in Bundles
    /\ \A t \in Tokens :
          v.collToSendToSP[t] + v.collSurplus[t] + v.collToRedistribute[t] = colls[t]

\* Nothing is lost between the StabilityPool, the redistribution and the owner.
LEMMA OffsetShares ==
    ASSUME NEW debt \in Nat \ {0}, NEW colls \in Bundles, NEW held \in Nat,
           NEW p \in Bundles, price = p, held # 0 => USD(colls) # 0
    PROVE  Shares(OffsetAndRedistributionVals(debt, colls, held), debt, colls, held)
<1>1. CASE held = 0
  <2>1. OffsetAndRedistributionVals(debt, colls, held) =
          [debtToOffset |-> 0, collToSendToSP |-> NoColl, collSurplus |-> NoColl,
           debtToRedistribute |-> debt, collToRedistribute |-> colls]
    BY <1>1 DEF OffsetAndRedistributionVals
  <2>2. PICK v : v = OffsetAndRedistributionVals(debt, colls, held)
    OBVIOUS
  <2>3. /\ v.debtToOffset = 0 /\ v.debtToRedistribute = debt
        /\ v.collToSendToSP = NoColl /\ v.collSurplus = NoColl /\ v.collToRedistribute = colls
    BY <2>1, <2>2
  <2>4. \A t \in Tokens : colls[t] \in Nat /\ NoColl[t] = 0
    BY BundleOps DEF Bundles
  <2> QED
    BY <2>2, <2>3, <2>4, BundleOps DEF Shares
<1>2. CASE held # 0
  <2>1. PICK offset, offsetRatio, SPRatio :
          /\ offset = Min({debt, held})
          /\ offsetRatio = (Percent * offset) \div debt
          /\ SPRatio = Min({offsetRatio, (offset * MCR) \div USD(colls)})
    OBVIOUS
  <2>2. offset \in Nat /\ offset <= debt /\ offset <= held
    <3>1. debt \in Int /\ held \in Int /\ offset = Min({debt, held})
      BY <2>1
    <3>2. offset \in {debt, held} /\ offset <= debt /\ offset <= held
      BY <3>1, MinOfTwo
    <3> QED
      BY <3>2
  <2>3. USD(colls) \in Nat \ {0}
    BY <1>2, Values
  <2>4. offsetRatio \in Nat /\ offsetRatio <= Percent
    <3>1. Percent \in Nat \ {0} /\ Percent * offset \in Nat /\ Percent * offset <= Percent * debt
      BY <2>2, Constants, NatProduct, TimesMonotone
    <3> QED
      BY <2>1, <3>1, QuotientNat, QuotientAtMost
  <2>5. (offset * MCR) \div USD(colls) \in Nat
    <3>1. offset * MCR \in Nat
      BY <2>2, Constants, NatProduct
    <3> QED
      BY <2>3, <3>1, QuotientNat
  <2>6. SPRatio \in Nat /\ SPRatio <= offsetRatio
    <3>1. PICK n \in Nat : n = (offset * MCR) \div USD(colls)
      BY <2>5
    <3>2. SPRatio = Min({offsetRatio, n})
      BY <2>1, <3>1
    <3> QED
      BY <2>4, <3>2, MinOfTwo
  <2>7. PICK rest \in Nat : rest = offsetRatio - SPRatio
    BY <2>4, <2>6
  <2>8. SPRatio + rest <= Percent
    BY <2>4, <2>6, <2>7, Constants
  <2>9. PICK x, y : x = RatioOf(colls, SPRatio) /\ y = RatioOf(colls, rest)
    OBVIOUS
  <2>10. /\ x \in Bundles /\ y \in Bundles /\ Minus(Minus(colls, x), y) \in Bundles
    BY <2>6, <2>8, <2>9, Parts
  <2>11. PICK v : v = OffsetAndRedistributionVals(debt, colls, held)
    OBVIOUS
  <2>12. v = [debtToOffset |-> offset, collToSendToSP |-> x,
              collSurplus |-> y, debtToRedistribute |-> debt - offset,
              collToRedistribute |-> Minus(Minus(colls, x), y)]
    BY <1>2, <2>1, <2>7, <2>9, <2>11 DEF OffsetAndRedistributionVals
  <2>13. /\ v.debtToOffset = offset /\ v.debtToRedistribute = debt - offset
         /\ v.collToSendToSP = x /\ v.collSurplus = y
         /\ v.collToRedistribute = Minus(Minus(colls, x), y)
    BY <2>12
  <2>14. debt - offset \in Nat /\ offset + (debt - offset) = debt
    BY <2>2
  <2>15. \A t \in Tokens : x[t] + y[t] + Minus(Minus(colls, x), y)[t] = colls[t]
    <3>1. \A t \in Tokens : x[t] \in Nat /\ y[t] \in Nat /\ colls[t] \in Nat
      BY <2>10 DEF Bundles
    <3>2. \A t \in Tokens : Minus(Minus(colls, x), y)[t] = colls[t] - x[t] - y[t]
      BY DEF Minus
    <3> QED
      BY <3>1, <3>2
  <2> QED
    BY <2>2, <2>10, <2>11, <2>13, <2>14, <2>15 DEF Shares
<1> QED
  BY <1>1, <1>2

\* The same when the pool takes the whole debt for a part of the collateral.
LEMMA CappedShares ==
    ASSUME NEW debt \in Nat, NEW colls \in Bundles, NEW held \in Nat, debt <= held,
           NEW p \in Bundles, price = p, USD(colls) # 0
    PROVE  Shares(CappedOffsetVals(debt, colls), debt, colls, held)
<1>1. PICK SPRatio : SPRatio = Min({Percent, (MCR * debt) \div USD(colls)})
  OBVIOUS
<1>2. SPRatio \in Nat /\ SPRatio <= Percent
  <2>1. USD(colls) \in Nat \ {0}
    BY Values
  <2>2. MCR * debt \in Nat
    BY Constants, NatProduct
  <2>3. PICK n \in Nat : n = (MCR * debt) \div USD(colls)
    BY <2>1, <2>2, QuotientNat
  <2>4. SPRatio = Min({Percent, n}) /\ Percent \in Nat /\ Percent \in Int /\ n \in Int
    BY <1>1, <2>3, Constants
  <2>5. SPRatio \in {Percent, n} /\ SPRatio <= Percent
    BY <2>4, MinOfTwo
  <2> QED
    BY <2>3, <2>4, <2>5
<1>3. PICK x : x = RatioOf(colls, SPRatio)
  OBVIOUS
<1>4. x \in Bundles /\ Minus(colls, x) \in Bundles
  <2>1. SPRatio + 0 <= Percent /\ 0 \in Nat
    BY <1>2
  <2>2. /\ RatioOf(colls, SPRatio) \in Bundles /\ RatioOf(colls, 0) \in Bundles
        /\ \A t \in Tokens : RatioOf(colls, SPRatio)[t] + RatioOf(colls, 0)[t] <= colls[t]
    BY <1>2, <2>1, Parts
  <2>3. \A t \in Tokens : colls[t] - x[t] \in Nat
    <3>1. PICK z \in Bundles : z = RatioOf(colls, 0)
      BY <2>2
    <3>2. \A t \in Tokens : x[t] \in Nat /\ z[t] \in Nat /\ colls[t] \in Nat /\ x[t] + z[t] <= colls[t]
      BY <1>3, <2>2, <3>1 DEF Bundles
    <3> QED
      BY <3>2
  <2> QED
    BY <1>3, <2>2, <2>3 DEF Minus, Bundles
<1>5. PICK v : v = CappedOffsetVals(debt, colls)
  OBVIOUS
<1>6. /\ v.debtToOffset = debt /\ v.debtToRedistribute = 0
      /\ v.collToSendToSP = x /\ v.collSurplus = Minus(colls, x) /\ v.collToRedistribute = NoColl
  <2>1. v = [debtToOffset |-> debt, collToSendToSP |-> x, collSurplus |-> Minus(colls, x),
             debtToRedistribute |-> 0, collToRedistribute |-> NoColl]
    BY <1>1, <1>3, <1>5 DEF CappedOffsetVals
  <2> QED
    BY <2>1
<1>7. \A t \in Tokens : x[t] + Minus(colls, x)[t] + NoColl[t] = colls[t]
  <2>1. \A t \in Tokens : /\ x[t] \in Nat /\ colls[t] \in Nat /\ NoColl[t] = 0
                          /\ Minus(colls, x)[t] = colls[t] - x[t]
    BY <1>4, BundleOps DEF Bundles
  <2> QED
    BY <2>1
<1>8. debt + 0 = debt
  OBVIOUS
<1> QED
  BY <1>4, <1>5, <1>6, <1>7, <1>8, BundleOps DEF Shares

-----------------------------------------------------------------------------
(* The loop of a batch liquidation.                                        *)

TotalRecords ==
    [debtInSequence : Nat, debtToOffset : Nat, collToSendToSP : Bundles,
     debtToRedistribute : Nat, collToRedistribute : Bundles,
     redistributed : SUBSET Tokens, collSurplus : Bundles,
     collGasCompensation : Bundles, compensated : SUBSET Tokens,
     STARGasCompensation : Nat]

RunRecords ==
    [books : Books, ok : BOOLEAN, totals : TotalRecords, remaining : Nat,
     backToNormalMode : BOOLEAN, systemCollVC : Int, systemDebt : Int]

\* What has been taken from the troves and has not reached a pool yet.
TransitDebt(T) == T.debtToOffset + T.debtToRedistribute
TransitColl(T) ==
    [t \in Tokens |-> T.collToSendToSP[t] + T.collSurplus[t]
                        + T.collToRedistribute[t] + T.collGasCompensation[t]]

\* In the middle of the loop: the books are sound, the pools agree with the
\* troves and the totals, and no more is to be offset than the StabilityPool has.
RunInv(run) ==
    /\ run \in RunRecords
    /\ Sound(run.books)
    /\ run.totals.debtToOffset + run.remaining = run.books.star.stabilityPool
    /\ Accounts(run.books, TransitDebt(run.totals), run.totals.STARGasCompensation,
                TransitColl(run.totals), run.totals.collSurplus)

\* Accounts are of the amounts on their way, and less may be on its way.
LEMMA AccountsSame ==
    ASSUME NEW s \in Books, NEW d, NEW g, NEW c \in IntBundles, NEW u \in IntBundles,
           Accounts(s, d, g, c, u),
           NEW c2 \in IntBundles, NEW u2 \in IntBundles,
           \A t \in Tokens : c2[t] <= c[t] /\ u2[t] = u[t]
    PROVE  Accounts(s, d, g, c2, u2)
<1>1. DebtAgrees(s, d) /\ GasAgrees(s, g) /\ CollAgrees(s, c) /\ SurplusAgrees(s, u) /\ Backed(s)
  BY DEF Accounts
<1>2. CollAgrees(s, c2)
  <2>1. \A t \in Tokens : s.pools.activeColl[t] \in Int /\ CollSum(s, t) \in Int /\ c[t] \in Int /\ c2[t] \in Int
    BY BookParts, SumsNat DEF IntBundles
  <2> QED
    BY <1>1, <2>1 DEF CollAgrees
<1>3. SurplusAgrees(s, u2)
  BY <1>1 DEF SurplusAgrees
<1> QED
  BY <1>1, <1>2, <1>3 DEF Accounts

Grown(T, U, v, gas) ==
    /\ U \in TotalRecords
    /\ U.debtToOffset = T.debtToOffset + v.debtToOffset
    /\ U.debtToRedistribute = T.debtToRedistribute + v.debtToRedistribute
    /\ U.STARGasCompensation = T.STARGasCompensation + GasCompensation
    /\ U.collSurplus = Plus(T.collSurplus, v.collSurplus)
    /\ \A t \in Tokens :
         /\ U.collToSendToSP[t] = T.collToSendToSP[t] + v.collToSendToSP[t]
         /\ U.collSurplus[t] = T.collSurplus[t] + v.collSurplus[t]
         /\ U.collToRedistribute[t] = T.collToRedistribute[t] + v.collToRedistribute[t]
         /\ U.collGasCompensation[t] = T.collGasCompensation[t] + gas[t]

\* The totals grow by the values of the trove.
LEMMA TotalsAdded ==
    ASSUME NEW T \in TotalRecords, NEW debt \in Nat, NEW tokens \in SUBSET Tokens,
           NEW gas \in Bundles, NEW shares, NEW colls, NEW held, NEW v,
           Shares(v, debt, colls, held),
           NEW U, U = AddToTotals(T, debt, tokens, gas, v, shares)
    PROVE  Grown(T, U, v, gas)
<1>1. /\ v.debtToOffset \in Nat /\ v.debtToRedistribute \in Nat
      /\ v.collToSendToSP \in Bundles /\ v.collSurplus \in Bundles /\ v.collToRedistribute \in Bundles
  BY DEF Shares
<1>2. /\ T.debtInSequence \in Nat /\ T.debtToOffset \in Nat /\ T.debtToRedistribute \in Nat
      /\ T.STARGasCompensation \in Nat
      /\ T.collToSendToSP \in Bundles /\ T.collSurplus \in Bundles /\ T.collToRedistribute \in Bundles
      /\ T.collGasCompensation \in Bundles /\ T.redistributed \in SUBSET Tokens
      /\ T.compensated \in SUBSET Tokens
  BY DEF TotalRecords
<1>3. PICK n1 \in Nat, n2 \in Nat, n3 \in Nat, n4 \in Nat :
        /\ n1 = T.debtInSequence + debt /\ n2 = T.debtToOffset + v.debtToOffset
        /\ n3 = T.debtToRedistribute + v.debtToRedistribute
        /\ n4 = T.STARGasCompensation + GasCompensation
  <2>1. T.debtInSequence + debt \in Nat /\ T.debtToOffset + v.debtToOffset \in Nat
    BY <1>1, <1>2
  <2>2. T.debtToRedistribute + v.debtToRedistribute \in Nat
    BY <1>1, <1>2
  <2>3. T.STARGasCompensation + GasCompensation \in Nat
    BY <1>2, Constants
  <2> QED
    BY <2>1, <2>2, <2>3
<1>4. PICK c1 \in Bundles, c2 \in Bundles, c3 \in Bundles, c4 \in Bundles :
        /\ c1 = Plus(T.collToSendToSP, v.collToSendToSP)
        /\ c2 = Plus(T.collToRedistribute, v.collToRedistribute)
        /\ c3 = Plus(T.collSurplus, v.collSurplus)
        /\ c4 = Plus(T.collGasCompensation, gas)
  BY <1>1, <1>2, BundleOps
<1>5. PICK s1 \in SUBSET Tokens, s2 \in SUBSET Tokens :
        /\ s1 = T.redistributed \cup (IF shares THEN tokens ELSE {})
        /\ s2 = T.compensated \cup tokens
  BY <1>2
<1>6. U = [T EXCEPT !.debtInSequence = n1, !.debtToOffset = n2, !.collToSendToSP = c1,
                    !.debtToRedistribute = n3, !.collToRedistribute = c2, !.redistributed = s1,
                    !.collSurplus = c3, !.collGasCompensation = c4, !.compensated = s2,
                    !.STARGasCompensation = n4]
  BY <1>3, <1>4, <1>5 DEF AddToTotals, TotalRecords
<1>7. /\ U \in TotalRecords
      /\ U.debtToOffset = n2 /\ U.debtToRedistribute = n3 /\ U.STARGasCompensation = n4
      /\ U.collToSendToSP = c1 /\ U.collToRedistribute = c2 /\ U.collSurplus = c3
      /\ U.collGasCompensation = c4
  BY <1>6 DEF TotalRecords
<1>8. \A t \in Tokens :
        /\ c1[t] = T.collToSendToSP[t] + v.collToSendToSP[t]
        /\ c3[t] = T.collSurplus[t] + v.collSurplus[t]
        /\ c2[t] = T.collToRedistribute[t] + v.collToRedistribute[t]
        /\ c4[t] = T.collGasCompensation[t] + gas[t]
  BY <1>4, BundleOps
<1> QED
  BY <1>3, <1>4, <1>7, <1>8 DEF Grown

\* The liquidator's part, and what is left of the collateral.
LEMMA GasParts ==
    ASSUME NEW colls \in Bundles
    PROVE  /\ CollGasCompensation(colls) \in Bundles
           /\ Minus(colls, CollGasCompensation(colls)) \in Bundles
           /\ \A t \in Tokens :
                 /\ Minus(colls, CollGasCompensation(colls))[t] + CollGasCompensation(colls)[t] = colls[t]
                 /\ colls[t] # 0 => Minus(colls, CollGasCompensation(colls))[t] # 0
<1>1. ASSUME NEW t \in Tokens
      PROVE  /\ colls[t] \div GasDivisor \in Nat /\ colls[t] \in Nat
             /\ colls[t] - (colls[t] \div GasDivisor) \in Nat
             /\ colls[t] # 0 => colls[t] - (colls[t] \div GasDivisor) # 0
  <2>1. colls[t] \in Nat /\ GasDivisor \in Nat \ {0} /\ GasDivisor > 1
    BY Constants DEF Bundles
  <2>2. PICK x, y : x = colls[t] /\ y = colls[t] \div GasDivisor
    OBVIOUS
  <2>3. x \in Nat /\ y \in Nat /\ y * GasDivisor <= x
    BY <2>1, <2>2, QuotientNat, QuotientBounds
  <2>4. y * 2 <= y * GasDivisor
    BY <2>1, <2>3, TimesMonotone
  <2>5. y * 2 <= x
    <3>1. y * GasDivisor \in Int
      BY <2>1, <2>3
    <3> QED
      BY <2>3, <2>4, <3>1
  <2> QED
    BY <2>2, <2>3, <2>5
<1>2. PICK gas : gas = CollGasCompensation(colls)
  OBVIOUS
<1>3. \A t \in Tokens : gas[t] = colls[t] \div GasDivisor
  BY <1>2 DEF CollGasCompensation
<1>4. gas \in Bundles
  BY <1>1, <1>2 DEF CollGasCompensation, Bundles
<1>5. \A t \in Tokens : Minus(colls, gas)[t] = colls[t] - gas[t] /\ gas[t] \in Nat /\ colls[t] \in Nat
  BY <1>4, BundleOps DEF Bundles
<1>6. Minus(colls, gas) \in Bundles
  <2>1. \A t \in Tokens : colls[t] - gas[t] \in Nat
    BY <1>1, <1>3
  <2> QED
    BY <2>1 DEF Minus, Bundles
<1>7. \A t \in Tokens : Minus(colls, gas)[t] + gas[t] = colls[t]
  BY <1>5
<1>8. \A t \in Tokens : colls[t] # 0 => Minus(colls, gas)[t] # 0
  BY <1>1, <1>3, <1>5
<1> QED
  BY <1>2, <1>4, <1>6, <1>7, <1>8

\* A trove is closed in the loop.
LEMMA CloseInRunKeeps ==
    ASSUME NEW run, RunInv(run), NEW b \in Borrowers, active(run.books, b),
           NEW v, NEW shares, NEW p \in Bundles, price = p,
           Shares(v, EntireDebt(run.books, b), CollToLiquidate(run.books, b), run.remaining),
           NEW r, r = CloseInRun(run, b, v, shares)
    PROVE  RunInv(r)
<1>1. PICK s, T : s = run.books /\ T = run.totals
  OBVIOUS
<1>2. /\ run \in RunRecords /\ Sound(s) /\ s \in Books /\ T \in TotalRecords
      /\ run.remaining \in Nat /\ run.ok \in BOOLEAN /\ run.backToNormalMode \in BOOLEAN
      /\ run.systemCollVC \in Int /\ run.systemDebt \in Int
      /\ T.debtToOffset + run.remaining = s.star.stabilityPool
  BY <1>1 DEF RunInv, RunRecords, Sound
<1>3. PICK d, g, c, u : d = TransitDebt(T) /\ g = T.STARGasCompensation
                        /\ c = TransitColl(T) /\ u = T.collSurplus
  OBVIOUS
<1>4. /\ d \in Int /\ g \in Int /\ c \in IntBundles /\ u \in IntBundles
      /\ Accounts(s, d, g, c, u)
      /\ \A t \in Tokens : c[t] = T.collToSendToSP[t] + T.collSurplus[t]
                                    + T.collToRedistribute[t] + T.collGasCompensation[t]
  <2>1. /\ T.debtToOffset \in Nat /\ T.debtToRedistribute \in Nat /\ T.STARGasCompensation \in Nat
        /\ T.collSurplus \in Bundles
        /\ \A t \in Tokens : /\ T.collToSendToSP[t] \in Nat /\ T.collSurplus[t] \in Nat
                             /\ T.collToRedistribute[t] \in Nat /\ T.collGasCompensation[t] \in Nat
    BY <1>2 DEF TotalRecords, Bundles
  <2>2. Accounts(s, d, g, c, u)
    BY <1>1, <1>3 DEF RunInv
  <2>3. d \in Int /\ g \in Int
    BY <1>3, <2>1 DEF TransitDebt
  <2>4. c \in IntBundles
    BY <1>3, <2>1 DEF TransitColl, IntBundles
  <2>5. u \in IntBundles
    BY <1>3, <2>1, BundleOps
  <2>6. \A t \in Tokens : c[t] = T.collToSendToSP[t] + T.collSurplus[t]
                                    + T.collToRedistribute[t] + T.collGasCompensation[t]
    BY <1>3 DEF TransitColl
  <2> QED
    BY <2>2, <2>3, <2>4, <2>5, <2>6
<1>5. PICK debt, gas, colls : /\ debt = EntireDebt(s, b) /\ gas = CollGasCompensation(EntireColl(s, b))
                              /\ colls = CollToLiquidate(s, b)
  OBVIOUS
<1>6. /\ debt \in Nat /\ debt = s.troves[b].debt + PendingDebt(s, b)
      /\ gas \in Bundles /\ colls \in Bundles
      /\ \A t \in Tokens : colls[t] + gas[t] = s.troves[b].colls[t] + PendingColl(s, b)[t]
  <2>1. PICK e : e = EntireColl(s, b)
    OBVIOUS
  <2>2. /\ EntireDebt(s, b) \in Nat /\ EntireDebt(s, b) = s.troves[b].debt + PendingDebt(s, b)
        /\ e \in Bundles /\ \A t \in Tokens : e[t] = s.troves[b].colls[t] + PendingColl(s, b)[t]
    BY <1>2, <2>1, PendingNat
  <2>3. gas = CollGasCompensation(e) /\ colls = Minus(e, gas)
    BY <1>5, <2>1 DEF CollToLiquidate
  <2>4. gas \in Bundles /\ colls \in Bundles /\ \A t \in Tokens : colls[t] + gas[t] = e[t]
    BY <2>2, <2>3, GasParts
  <2> QED
    BY <1>5, <2>2, <2>4
<1>7. Shares(v, debt, colls, run.remaining)
  BY <1>1, <1>5
<1>8. PICK U : U = AddToTotals(T, debt, s.troves[b].tokens, gas, v, shares)
  OBVIOUS
<1>9. /\ U \in TotalRecords
      /\ U.debtToOffset = T.debtToOffset + v.debtToOffset
      /\ U.debtToRedistribute = T.debtToRedistribute + v.debtToRedistribute
      /\ U.STARGasCompensation = T.STARGasCompensation + GasCompensation
      /\ U.collSurplus = Plus(T.collSurplus, v.collSurplus)
      /\ \A t \in Tokens :
           /\ U.collToSendToSP[t] = T.collToSendToSP[t] + v.collToSendToSP[t]
           /\ U.collSurplus[t] = T.collSurplus[t] + v.collSurplus[t]
           /\ U.collToRedistribute[t] = T.collToRedistribute[t] + v.collToRedistribute[t]
           /\ U.collGasCompensation[t] = T.collGasCompensation[t] + gas[t]
  <2>1. PICK tk \in SUBSET Tokens : tk = s.troves[b].tokens
    BY <1>2, BookParts
  <2>2. U = AddToTotals(T, debt, tk, gas, v, shares)
    BY <1>8, <2>1
  <2>3. T \in TotalRecords /\ debt \in Nat /\ gas \in Bundles
    BY <1>2, <1>6
  <2> QED
    <3>1. Grown(T, U, v, gas)
      BY <1>7, <2>2, <2>3, TotalsAdded
    <3> QED
      BY <3>1 DEF Grown
<1>10. PICK m, q, k : /\ m = MovePending(s, PendingDebt(s, b), PendingColl(s, b))
                      /\ q = CloseTroveAs(RemoveStake(m, b), b, "closedByLiquidation")
                      /\ k = AccountSurplus(q, b, v.collSurplus)
  OBVIOUS
<1>11. PICK pd \in Nat, pc \in Bundles : pd = PendingDebt(s, b) /\ pc = PendingColl(s, b)
  BY <1>2, PendingNat
<1>12. PICK d1 \in Int, c1 \in IntBundles : d1 = d + pd /\ c1 = Plus(c, pc)
  BY <1>4, BundleOps
<1>13. /\ Sound(m) /\ m.troves = s.troves /\ m.star = s.star
       /\ Accounts(m, d1, g, c1, u)
  <2>1. m = MovePending(s, pd, pc)
    BY <1>10, <1>11
  <2>2. /\ Sound(m) /\ m.troves = s.troves /\ m.star = s.star
        /\ Accounts(m, d + pd, g, Plus(c, pc), u)
    BY <1>2, <1>4, <2>1, MovePendingAccounts
  <2> QED
    BY <1>12, <2>2
<1>14. PICK d2 \in Int, g2 \in Int, c2 \in IntBundles :
          /\ d2 = d1 + s.troves[b].debt /\ g2 = g + GasCompensation
          /\ c2 = Plus(c1, s.troves[b].colls)
  <2>1. s.troves[b].debt \in Nat /\ s.troves[b].colls \in IntBundles /\ GasCompensation \in Nat
    BY <1>2, BookParts, BundleOps, Constants
  <2>2. d1 + s.troves[b].debt \in Int
    BY <2>1
  <2>3. g + GasCompensation \in Int
    BY <1>4, <2>1
  <2>4. Plus(c1, s.troves[b].colls) \in IntBundles
    BY <2>1, BundleOps
  <2> QED
    BY <2>2, <2>3, <2>4
<1>15. Sound(q) /\ q.star = s.star /\ Accounts(q, d2, g2, c2, u)
  <2>1. active(m, b)
    BY <1>1, <1>13 DEF active
  <2>2. "closedByLiquidation" \in Closings
    BY DEF Closings
  <2>3. /\ Sound(q) /\ q.star = m.star
        /\ Accounts(q, d1 + m.troves[b].debt, g + GasCompensation, Plus(c1, m.troves[b].colls), u)
    BY <1>4, <1>10, <1>13, <2>1, <2>2, CloseAccounts
  <2> QED
    BY <1>13, <1>14, <2>3
<1>16. PICK sur \in Bundles : sur = v.collSurplus
  BY <1>7 DEF Shares
<1>17. Sound(k) /\ k.star = s.star /\ Accounts(k, d2, g2, c2, Plus(u, sur))
  <2>1. k = AccountSurplus(q, b, sur)
    BY <1>10, <1>16
  <2> QED
    BY <1>4, <1>15, <2>1, AccountSurplusAccounts
<1>18. PICK rem \in Nat, VCnow \in Int, debtNow \in Int, ok \in BOOLEAN :
         /\ rem = run.remaining - v.debtToOffset
         /\ debtNow = run.systemDebt - v.debtToOffset
         /\ VCnow = run.systemCollVC - VC(v.collToSendToSP) - VC(gas) - VC(v.collSurplus)
         /\ ok = (run.ok /\ CanClose(s))
  <2>1. /\ v.debtToOffset \in Nat /\ v.debtToOffset <= run.remaining
        /\ v.collToSendToSP \in Bundles /\ v.collSurplus \in Bundles
    BY <1>7 DEF Shares
  <2>2. VC(v.collToSendToSP) \in Int /\ VC(gas) \in Int /\ VC(v.collSurplus) \in Int
    BY <1>6, <2>1, Values
  <2>3. (run.ok /\ CanClose(s)) \in BOOLEAN
    OBVIOUS
  <2>4. run.remaining - v.debtToOffset \in Nat
    BY <1>2, <2>1
  <2>5. run.systemDebt - v.debtToOffset \in Int
    BY <1>2, <2>1
  <2>6. run.systemCollVC - VC(v.collToSendToSP) - VC(gas) - VC(v.collSurplus) \in Int
    BY <1>2, <2>2
  <2> QED
    BY <2>3, <2>4, <2>5, <2>6
<1>19. r = [run EXCEPT !.ok = ok, !.books = k, !.remaining = rem, !.systemDebt = debtNow,
                       !.systemCollVC = VCnow, !.totals = U]
  <2>1. r = [run EXCEPT
            !.ok = @ /\ CanClose(s),
            !.books = k,
            !.remaining = @ - v.debtToOffset,
            !.systemDebt = @ - v.debtToOffset,
            !.systemCollVC = @ - VC(v.collToSendToSP) - VC(gas) - VC(v.collSurplus),
            !.totals = U]
    BY <1>1, <1>5, <1>8, <1>10 DEF CloseInRun
  <2> QED
    BY <1>2, <1>18, <2>1 DEF RunRecords
<1>20. /\ r \in RunRecords /\ r.books = k /\ r.remaining = rem /\ r.totals = U
  <2>1. k \in Books
    BY <1>17 DEF Sound
  <2> QED
    BY <1>2, <1>9, <1>19, <2>1 DEF RunRecords
<1>21. U.debtToOffset + rem = k.star.stabilityPool
  <2>1. T.debtToOffset \in Nat /\ v.debtToOffset \in Nat
    BY <1>2, <1>7 DEF TotalRecords, Shares
  <2> QED
    BY <1>2, <1>9, <1>17, <1>18, <2>1
<1>22. Accounts(k, TransitDebt(U), U.STARGasCompensation, TransitColl(U), U.collSurplus)
  <2>1. PICK dU, gU, cU, uU : /\ dU = TransitDebt(U) /\ gU = U.STARGasCompensation
                              /\ cU = TransitColl(U) /\ uU = U.collSurplus
    OBVIOUS
  <2>2. dU = d2
    <3>1. T.debtToOffset \in Nat /\ T.debtToRedistribute \in Nat
      BY <1>2 DEF TotalRecords
    <3>2. /\ v.debtToOffset \in Nat /\ v.debtToRedistribute \in Nat
          /\ v.debtToOffset + v.debtToRedistribute = debt
      BY <1>7 DEF Shares
    <3>3. d = T.debtToOffset + T.debtToRedistribute /\ dU = U.debtToOffset + U.debtToRedistribute
      BY <1>3, <2>1 DEF TransitDebt
    <3>4. d2 = d + pd + s.troves[b].debt
      BY <1>12, <1>14
    <3>5. debt = s.troves[b].debt + pd
      BY <1>6, <1>11
    <3>6. s.troves[b].debt \in Nat
      BY <1>2, BookParts
    <3>7. /\ U.debtToOffset = T.debtToOffset + v.debtToOffset
          /\ U.debtToRedistribute = T.debtToRedistribute + v.debtToRedistribute
      BY <1>9
    <3> QED
      BY <3>1, <3>2, <3>3, <3>4, <3>5, <3>6, <3>7
  <2>3. gU = g2
    BY <1>3, <1>9, <1>14, <2>1
  <2>4. cU \in IntBundles /\ \A t \in Tokens : cU[t] = U.collToSendToSP[t] + U.collSurplus[t]
                                    + U.collToRedistribute[t] + U.collGasCompensation[t]
    <3>1. \A t \in Tokens : /\ U.collToSendToSP[t] \in Nat /\ U.collSurplus[t] \in Nat
                            /\ U.collToRedistribute[t] \in Nat /\ U.collGasCompensation[t] \in Nat
      BY <1>9 DEF TotalRecords, Bundles
    <3> QED
      BY <2>1, <3>1 DEF TransitColl, IntBundles
  <2>5. \A t \in Tokens : cU[t] <= c2[t]
    <3> SUFFICES ASSUME NEW t \in Tokens PROVE cU[t] <= c2[t]
      OBVIOUS
    <3>1. /\ T.collToSendToSP[t] \in Nat /\ T.collSurplus[t] \in Nat
          /\ T.collToRedistribute[t] \in Nat /\ T.collGasCompensation[t] \in Nat
      BY <1>2 DEF TotalRecords, Bundles
    <3>2. /\ v.collToSendToSP[t] \in Nat /\ v.collSurplus[t] \in Nat /\ v.collToRedistribute[t] \in Nat
          /\ v.collToSendToSP[t] + v.collSurplus[t] + v.collToRedistribute[t] = colls[t]
      BY <1>7 DEF Shares, Bundles
    <3>3. gas[t] \in Nat /\ colls[t] \in Nat /\ pc[t] \in Nat /\ s.troves[b].colls[t] \in Nat
          /\ colls[t] + gas[t] = s.troves[b].colls[t] + pc[t]
      BY <1>2, <1>6, <1>11, BookParts DEF Bundles
    <3>4. c2[t] = c[t] + pc[t] + s.troves[b].colls[t]
      BY <1>12, <1>14, BundleOps
    <3>5. c[t] = T.collToSendToSP[t] + T.collSurplus[t]
                   + T.collToRedistribute[t] + T.collGasCompensation[t]
      BY <1>4
    <3>6. cU[t] = (T.collToSendToSP[t] + v.collToSendToSP[t]) + (T.collSurplus[t] + v.collSurplus[t])
                    + (T.collToRedistribute[t] + v.collToRedistribute[t])
                    + (T.collGasCompensation[t] + gas[t])
      BY <1>9, <2>4
    <3> QED
      BY <3>1, <3>2, <3>3, <3>4, <3>5, <3>6
  <2>6. uU = Plus(u, sur) /\ uU \in IntBundles
    <3>1. uU = Plus(u, sur)
      BY <1>3, <1>9, <1>16, <2>1
    <3> QED
      BY <1>4, <3>1, BundleOps
  <2>7. k \in Books /\ Accounts(k, dU, gU, c2, uU)
    BY <1>17, <2>2, <2>3, <2>6 DEF Sound
  <2>8. Accounts(k, dU, gU, cU, uU)
    BY <2>4, <2>5, <2>6, <2>7, AccountsSame
  <2> QED
    BY <2>1, <2>8
<1> QED
  BY <1>17, <1>20, <1>21, <1>22 DEF RunInv

-----------------------------------------------------------------------------
(* A loop is a fold, and a fold is what its steps make, one after another. *)

NormalStep(p, r, b) == TurnNormal(r, b)
RecoveryStep(p, r, b) == TurnRecovery(r, b)

NormalFold == INSTANCE FoldFacts WITH Op <- NormalStep
RecoveryFold == INSTANCE FoldFacts WITH Op <- RecoveryStep

NormalIter(p, base, seq, D, it) ==
    it = [s \in SUBSET D |->
            IF s = {} THEN base
            ELSE NormalStep(p, it[s \ {CHOOSE x \in s : \A y \in s : x >= y}],
                            seq[CHOOSE x \in s : \A y \in s : x >= y])]

RecoveryIter(p, base, seq, D, it) ==
    it = [s \in SUBSET D |->
            IF s = {} THEN base
            ELSE RecoveryStep(p, it[s \ {CHOOSE x \in s : \A y \in s : x >= y}],
                              seq[CHOOSE x \in s : \A y \in s : x >= y])]

\* The loop in normal mode is defined for every list of troves.
LEMMA NormalItersExist ==
    \A p, base, seq, D : \A n \in Nat : D = 1..n => \E it : NormalIter(p, base, seq, D, it)
BY NormalFold!FoldsExist DEF NormalIter

\* It goes through them one by one.
LEMMA NormalIterSteps ==
    \A p, base, seq, it, D : \A n \in Nat :
      D = 1..n /\ NormalIter(p, base, seq, D, it)
      => \E f : /\ f[0] = base
                /\ \A k \in 1..n : f[k] = NormalStep(p, f[k - 1], seq[k])
                /\ f[n] = it[D]
BY NormalFold!FoldSteps DEF NormalIter

\* The states of the loop in normal mode, turn by turn.
LEMMA NormalRun ==
    ASSUME NEW base, NEW S, NEW seq \in Seq(S)
    PROVE  \E f : /\ f[0] = base
                  /\ \A k \in 1..Len(seq) : f[k] = TurnNormal(f[k - 1], seq[k])
                  /\ f[Len(seq)] = FoldLeft(TurnNormal, base, seq)
<1>1. PICK n \in Nat : n = Len(seq) /\ DOMAIN seq = 1..n
  BY LenProperties
<1>2. \E it : NormalIter(0, base, seq, DOMAIN seq, it)
  BY <1>1, NormalItersExist
<1>3. \E g : /\ NormalIter(0, base, seq, DOMAIN seq, g)
             /\ FoldLeft(TurnNormal, base, seq) = g[DOMAIN seq]
  BY <1>2 DEF NormalIter, NormalStep, FoldLeft, MapThenFoldSet, Max
<1>4. PICK g : /\ NormalIter(0, base, seq, DOMAIN seq, g)
               /\ FoldLeft(TurnNormal, base, seq) = g[DOMAIN seq]
  BY <1>3
<1>5. PICK f : /\ f[0] = base
               /\ \A k \in 1..n : f[k] = NormalStep(0, f[k - 1], seq[k])
               /\ f[n] = g[DOMAIN seq]
  BY <1>1, <1>4, NormalIterSteps
<1> QED
  BY <1>1, <1>4, <1>5 DEF NormalStep

\* The loop in recovery mode is defined for every list of troves.
LEMMA RecoveryItersExist ==
    \A p, base, seq, D : \A n \in Nat : D = 1..n => \E it : RecoveryIter(p, base, seq, D, it)
BY RecoveryFold!FoldsExist DEF RecoveryIter

\* It goes through them one by one.
LEMMA RecoveryIterSteps ==
    \A p, base, seq, it, D : \A n \in Nat :
      D = 1..n /\ RecoveryIter(p, base, seq, D, it)
      => \E f : /\ f[0] = base
                /\ \A k \in 1..n : f[k] = RecoveryStep(p, f[k - 1], seq[k])
                /\ f[n] = it[D]
BY RecoveryFold!FoldSteps DEF RecoveryIter

\* The states of the loop in recovery mode, turn by turn.
LEMMA RecoveryRun ==
    ASSUME NEW base, NEW S, NEW seq \in Seq(S)
    PROVE  \E f : /\ f[0] = base
                  /\ \A k \in 1..Len(seq) : f[k] = TurnRecovery(f[k - 1], seq[k])
                  /\ f[Len(seq)] = FoldLeft(TurnRecovery, base, seq)
<1>1. PICK n \in Nat : n = Len(seq) /\ DOMAIN seq = 1..n
  BY LenProperties
<1>2. \E it : RecoveryIter(0, base, seq, DOMAIN seq, it)
  BY <1>1, RecoveryItersExist
<1>3. \E g : /\ RecoveryIter(0, base, seq, DOMAIN seq, g)
             /\ FoldLeft(TurnRecovery, base, seq) = g[DOMAIN seq]
  BY <1>2 DEF RecoveryIter, RecoveryStep, FoldLeft, MapThenFoldSet, Max
<1>4. PICK g : /\ RecoveryIter(0, base, seq, DOMAIN seq, g)
               /\ FoldLeft(TurnRecovery, base, seq) = g[DOMAIN seq]
  BY <1>3
<1>5. PICK f : /\ f[0] = base
               /\ \A k \in 1..n : f[k] = RecoveryStep(0, f[k - 1], seq[k])
               /\ f[n] = g[DOMAIN seq]
  BY <1>1, <1>4, RecoveryIterSteps
<1> QED
  BY <1>1, <1>4, <1>5 DEF RecoveryStep

\* A sum over the tokens that is not zero has a term that is not zero.
LEMMA TokenSumZero ==
    ASSUME NEW f \in [Tokens -> Nat], \A t \in Tokens : f[t] = 0
    PROVE  SumFunction(f) = 0
<1>1. IsFiniteSet(Tokens) /\ DOMAIN f = Tokens /\ Tokens \in SUBSET Tokens
  BY TokensFinite
<1>2. \A t \in Tokens : f[t] \in Int /\ f[t] = 0 * f[t]
  OBVIOUS
<1>3. SumFunctionOnSet(f, Tokens) = 0 * SumFunctionOnSet(f, Tokens)
  <2>1. 0 \in Int
    OBVIOUS
  <2> QED
    BY <1>1, <1>2, <2>1, SumTimes
<1>4. SumFunctionOnSet(f, Tokens) \in Int
  BY <1>1, <1>2, SumInt
<1> QED
  BY <1>1, <1>3, <1>4 DEF SumFunction

\* Collateral that counts for something is worth something after the gas
\* compensation too.
LEMMA WorthLeft ==
    ASSUME NEW p \in Bundles, price = p, NEW colls \in Bundles, VC(colls) # 0
    PROVE  USD(Minus(colls, CollGasCompensation(colls))) # 0
<1>1. PICK t \in Tokens : colls[t] # 0 /\ p[t] # 0
  <2> SUFFICES ASSUME \A t \in Tokens : colls[t] = 0 \/ p[t] = 0 PROVE FALSE
    OBVIOUS
  <2>1. \A t \in Tokens : (colls[t] * p[t] * SafetyRatio[t]) \div Percent = 0
    <3> TAKE t \in Tokens
    <3>1. colls[t] \in Nat /\ p[t] \in Nat /\ SafetyRatio[t] \in Nat /\ Percent \in Nat \ {0}
      BY Constants DEF Bundles
    <3>2. colls[t] * p[t] = 0
      BY <3>1
    <3>3. 0 * SafetyRatio[t] = 0 /\ 0 \div Percent = 0
      BY <3>1
    <3> QED
      BY <3>2, <3>3
  <2> DEFINE g == [t \in Tokens |-> (colls[t] * p[t] * SafetyRatio[t]) \div Percent]
  <2>2. VC(colls) = SumFunction(g)
    BY DEF VC
  <2>3. g \in [Tokens -> Nat] /\ \A t \in Tokens : g[t] = 0
    BY <2>1
  <2> HIDE DEF g
  <2> QED
    BY <2>2, <2>3, TokenSumZero
<1>2. PICK e \in Bundles : e = Minus(colls, CollGasCompensation(colls))
  BY GasParts
<1>3. e[t] # 0
  BY <1>1, <1>2, GasParts
<1>4. e[t] \in Nat \ {0} /\ p[t] \in Nat \ {0}
  BY <1>1, <1>3 DEF Bundles
<1>5. e[t] * p[t] \in Nat \ {0}
  BY <1>4, PositiveProduct
<1>6. USD(e) \in Nat /\ e[t] * p[t] <= USD(e)
  BY Values
<1> QED
  BY <1>2, <1>5, <1>6

\* Ratios are natural numbers; the ratio of a trove that is not active is the
\* largest, and a trove at or above MCR holds something.
LEMMA RatioNat ==
    ASSUME NEW s, Sound(s), NEW b \in Borrowers, NEW p \in Bundles, price = p
    PROVE  /\ ICR(s, b) \in Nat
           /\ ~ active(s, b) => ICR(s, b) >= MCR
           /\ active(s, b) /\ ICR(s, b) >= MCR => VC(EntireColl(s, b)) # 0
<1>1. PICK v \in Nat, d \in Nat : v = VC(EntireColl(s, b)) /\ d = EntireDebt(s, b)
  <2>1. PICK e \in Bundles : e = EntireColl(s, b)
    BY PendingNat
  <2>2. VC(e) \in Nat
    BY Values
  <2>3. EntireDebt(s, b) \in Nat
    BY PendingNat
  <2> QED
    BY <2>1, <2>2, <2>3
<1>2. ICR(s, b) = IF d = 0 THEN MaxUint ELSE (v * Percent) \div d
  BY <1>1 DEF ICR, CR
<1>3. MaxUint \in Nat /\ MaxUint >= MCR /\ MCR \in Nat \ {0} /\ Percent \in Nat \ {0}
  BY Constants
<1>4. v * Percent \in Nat
  BY <1>3, NatProduct
<1>5. d # 0 => (v * Percent) \div d \in Nat
  BY <1>4, QuotientNat
<1>6. active(s, b) => d # 0
  BY <1>1, PendingNat
<1>7. ~ active(s, b) => d = 0
  BY <1>1, PendingNat
<1>8. d # 0 /\ v = 0 => (v * Percent) \div d = 0
  BY <1>3
<1> QED
  BY <1>1, <1>2, <1>3, <1>5, <1>6, <1>7, <1>8

\* What is shared with an empty pool is shared with any.
LEMMA SharesOfMore ==
    ASSUME NEW v, NEW debt, NEW colls, NEW held \in Nat, Shares(v, debt, colls, 0)
    PROVE  Shares(v, debt, colls, held)
BY DEF Shares

\* The parts of the run's record.
LEMMA RunParts ==
    ASSUME NEW run, RunInv(run)
    PROVE  /\ run \in RunRecords /\ Sound(run.books) /\ run.remaining \in Nat
           /\ run.totals \in TotalRecords
BY DEF RunInv, RunRecords

\* A run that reverts keeps its books.
LEMMA RunFails ==
    ASSUME NEW run, RunInv(run)
    PROVE  RunInv([run EXCEPT !.ok = FALSE])
<1>1. PICK r : r = [run EXCEPT !.ok = FALSE]
  OBVIOUS
<1>2. /\ r \in RunRecords /\ r.books = run.books /\ r.totals = run.totals
      /\ r.remaining = run.remaining
  BY <1>1 DEF RunInv, RunRecords
<1> QED
  BY <1>1, <1>2 DEF RunInv

\* Looking at the mode changes neither the books nor the totals.
LEMMA LookKeeps ==
    ASSUME NEW run, RunInv(run)
    PROVE  RunInv(LookAtMode(run))
<1>0. /\ (CR(run.systemCollVC, run.systemDebt) >= CCR) \in BOOLEAN
      /\ (run.ok /\ run.systemDebt >= 0 /\ run.systemCollVC >= 0) \in BOOLEAN
  OBVIOUS
<1>1. PICK m \in BOOLEAN, k \in BOOLEAN :
        /\ m = (CR(run.systemCollVC, run.systemDebt) >= CCR)
        /\ k = (run.ok /\ run.systemDebt >= 0 /\ run.systemCollVC >= 0)
  BY <1>0
<1>2. PICK r : r = LookAtMode(run)
  OBVIOUS
<1>3. r = [run EXCEPT !.ok = k, !.backToNormalMode = m]
  BY <1>1, <1>2 DEF LookAtMode
<1>4. /\ r \in RunRecords /\ r.books = run.books /\ r.totals = run.totals
      /\ r.remaining = run.remaining
  BY <1>3 DEF RunInv, RunRecords
<1> QED
  BY <1>2, <1>4 DEF RunInv

\* What a trove of the run has to share.
LEMMA ToShare ==
    ASSUME NEW run, RunInv(run), NEW b \in Borrowers, active(run.books, b)
    PROVE  /\ EntireDebt(run.books, b) \in Nat \ {0}
           /\ CollToLiquidate(run.books, b) \in Bundles
<1>1. PICK e \in Bundles : e = EntireColl(run.books, b)
  BY RunParts, PendingNat
<1>2. CollToLiquidate(run.books, b) = Minus(e, CollGasCompensation(e))
  BY <1>1 DEF CollToLiquidate
<1> QED
  BY <1>2, RunParts, PendingNat, GasParts

\* A trove is closed in the run, and all that it has is shared.
Closes(run, b, r) ==
    \E v, shares :
       /\ Shares(v, EntireDebt(run.books, b), CollToLiquidate(run.books, b), run.remaining)
       /\ r = CloseInRun(run, b, v, shares)

\* Closing a trove keeps the invariant of the run.
LEMMA ClosesKeeps ==
    ASSUME NEW run, RunInv(run), NEW b \in Borrowers, active(run.books, b),
           NEW p \in Bundles, price = p, NEW r, Closes(run, b, r)
    PROVE  RunInv(r)
<1>1. PICK v, shares :
        /\ Shares(v, EntireDebt(run.books, b), CollToLiquidate(run.books, b), run.remaining)
        /\ r = CloseInRun(run, b, v, shares)
  BY DEF Closes
<1> QED
  BY <1>1, CloseInRunKeeps

\* A liquidation in normal mode closes the trove, or the code reverts.
LEMMA NormalModeWays ==
    ASSUME NEW run, RunInv(run), NEW b \in Borrowers, active(run.books, b),
           NEW p \in Bundles, price = p, NEW r, r = LiquidateNormalMode(run, b)
    PROVE  r = [run EXCEPT !.ok = FALSE] \/ Closes(run, b, r)
<1>1. PICK s : s = run.books
  OBVIOUS
<1>2. PICK debt \in Nat \ {0} : debt = EntireDebt(s, b)
  BY <1>1, ToShare
<1>3. PICK colls \in Bundles : colls = CollToLiquidate(s, b)
  BY <1>1, ToShare
<1>4. PICK held \in Nat : held = run.remaining
  BY RunParts
<1>5. CASE held # 0 /\ USD(colls) = 0
  BY <1>1, <1>2, <1>3, <1>4, <1>5 DEF LiquidateNormalMode
<1>6. CASE ~ (held # 0 /\ USD(colls) = 0)
  <2>1. PICK v : v = OffsetAndRedistributionVals(debt, colls, held)
    OBVIOUS
  <2>2. r = CloseInRun(run, b, v, TRUE)
    BY <1>1, <1>2, <1>3, <1>4, <1>6, <2>1 DEF LiquidateNormalMode
  <2>3. Shares(v, debt, colls, held)
    BY <1>6, <2>1, OffsetShares
  <2>4. Shares(v, EntireDebt(run.books, b), CollToLiquidate(run.books, b), run.remaining)
    BY <1>1, <1>2, <1>3, <1>4, <2>3
  <2> QED
    BY <2>2, <2>4 DEF Closes
<1> QED
  BY <1>5, <1>6

\* A liquidation in normal mode keeps the invariant of the run.
LEMMA NormalModeKeeps ==
    ASSUME NEW run, RunInv(run), NEW b \in Borrowers, active(run.books, b),
           NEW p \in Bundles, price = p
    PROVE  RunInv(LiquidateNormalMode(run, b))
<1>1. PICK r : r = LiquidateNormalMode(run, b)
  OBVIOUS
<1>2. r = [run EXCEPT !.ok = FALSE] \/ Closes(run, b, r)
  BY <1>1, NormalModeWays
<1>3. RunInv([run EXCEPT !.ok = FALSE])
  BY RunFails
<1>4. Closes(run, b, r) => RunInv(r)
  BY ClosesKeeps
<1> QED
  BY <1>1, <1>2, <1>3, <1>4

\* The ways a trove may go in recovery mode.
LEMMA RecoveryWays ==
    ASSUME NEW run, NEW b, NEW s, s = run.books, OwnersCount(s) \in Nat, ICR(s, b) \in Nat,
           NEW r, r = LiquidateRecoveryMode(run, b)
    PROVE  /\ OwnersCount(s) <= 1 => r = run
           /\ OwnersCount(s) > 1 /\ ICR(s, b) <= Percent =>
                r = CloseInRun(run, b, OffsetAndRedistributionVals(EntireDebt(s, b),
                                  CollToLiquidate(s, b), 0), TRUE)
           /\ OwnersCount(s) > 1 /\ Percent < ICR(s, b) /\ ICR(s, b) < MCR =>
                r = LiquidateNormalMode(run, b)
           /\ OwnersCount(s) > 1 /\ Percent < ICR(s, b) /\ ~ (ICR(s, b) < MCR) =>
                \/ r = run
                \/ /\ AICR(s, b) < CR(run.systemCollVC, run.systemDebt)
                   /\ EntireDebt(s, b) <= run.remaining
                   /\ r = CloseInRun(run, b, CappedOffsetVals(EntireDebt(s, b), CollToLiquidate(s, b)), FALSE)
<1>1. PICK A, B, N, C : /\ A = CloseInRun(run, b, OffsetAndRedistributionVals(EntireDebt(s, b),
                                  CollToLiquidate(s, b), 0), TRUE)
                        /\ N = LiquidateNormalMode(run, b)
                        /\ B = CloseInRun(run, b, CappedOffsetVals(EntireDebt(s, b), CollToLiquidate(s, b)), FALSE)
                        /\ C = IF AICR(s, b) < CR(run.systemCollVC, run.systemDebt)
                                  /\ EntireDebt(s, b) <= run.remaining
                               THEN B ELSE run
  OBVIOUS
<1>2. r = CASE OwnersCount(s) <= 1 -> run
          [] OwnersCount(s) > 1 /\ ICR(s, b) <= Percent -> A
          [] OwnersCount(s) > 1 /\ Percent < ICR(s, b) /\ ICR(s, b) < MCR -> N
          [] OTHER -> C
  BY <1>1, Zenon DEF LiquidateRecoveryMode
<1>3. \/ C = run
      \/ /\ AICR(s, b) < CR(run.systemCollVC, run.systemDebt)
         /\ EntireDebt(s, b) <= run.remaining /\ C = B
  BY <1>1
<1>4. Percent \in Nat /\ MCR \in Nat
  BY Constants
<1>5. /\ OwnersCount(s) <= 1 => r = run
      /\ OwnersCount(s) > 1 /\ ICR(s, b) <= Percent => r = A
      /\ OwnersCount(s) > 1 /\ Percent < ICR(s, b) /\ ICR(s, b) < MCR => r = N
      /\ OwnersCount(s) > 1 /\ Percent < ICR(s, b) /\ ~ (ICR(s, b) < MCR) => r = C
  <2>1. PICK n \in Nat, x \in Nat : n = OwnersCount(s) /\ x = ICR(s, b)
    OBVIOUS
  <2>2. r = CASE n <= 1 -> run [] n > 1 /\ x <= Percent -> A
            [] n > 1 /\ Percent < x /\ x < MCR -> N [] OTHER -> C
    BY <1>2, <2>1, Zenon
  <2>3. /\ n <= 1 => r = run
        /\ n > 1 /\ x <= Percent => r = A
        /\ n > 1 /\ Percent < x /\ x < MCR => r = N
        /\ n > 1 /\ Percent < x /\ ~ (x < MCR) => r = C
    <3>1. CASE n <= 1
      <4>1. ~ (n > 1)
        BY <3>1
      <4> QED
        BY <2>2, <3>1, <4>1, Zenon
    <3>2. CASE n > 1 /\ x <= Percent
      <4>1. ~ (n <= 1) /\ ~ (Percent < x)
        BY <1>4, <3>2
      <4> QED
        BY <2>2, <3>2, <4>1, Zenon
    <3>3. CASE n > 1 /\ Percent < x
      <4>1. ~ (n <= 1) /\ ~ (x <= Percent)
        BY <1>4, <3>3
      <4> QED
        BY <2>2, <3>3, <4>1, Zenon
    <3>4. (n <= 1 \/ n > 1) /\ (x <= Percent \/ Percent < x)
      BY <1>4
    <3> QED
      BY <3>1, <3>2, <3>3, <3>4, Zenon
  <2> QED
    BY <2>1, <2>3
<1> QED
  BY <1>1, <1>3, <1>5

\* In recovery mode a trove is left alone, or closed because its ratio is below
\* MCR or below the system's, or the code reverts.
LEMMA RecoveryModeWays ==
    ASSUME NEW run, RunInv(run), NEW b \in Borrowers, active(run.books, b),
           NEW p \in Bundles, price = p, NEW r, r = LiquidateRecoveryMode(run, b)
    PROVE  \/ r = run
           \/ r = [run EXCEPT !.ok = FALSE]
           \/ /\ Closes(run, b, r)
              /\ \/ ICR(run.books, b) < MCR
                 \/ AICR(run.books, b) < CR(run.systemCollVC, run.systemDebt)
<1>1. PICK s : s = run.books
  OBVIOUS
<1>2. PICK debt \in Nat \ {0} : debt = EntireDebt(s, b)
  BY <1>1, ToShare
<1>3. PICK colls \in Bundles : colls = CollToLiquidate(s, b)
  BY <1>1, ToShare
<1>4. PICK held \in Nat : held = run.remaining
  BY RunParts
<1>5. PICK icr \in Nat : icr = ICR(s, b)
  BY <1>1, RunParts, RatioNat
<1>7. OwnersCount(s) \in Nat
  <2>1. s \in Books
    BY <1>1, RunParts DEF Sound
  <2> QED
    BY <2>1, OwnersChange
<1>8. MCR \in Nat /\ Percent \in Nat /\ MCR > Percent
  BY Constants
<1>0. PICK A : A = CloseInRun(run, b, OffsetAndRedistributionVals(EntireDebt(s, b),
                                  CollToLiquidate(s, b), 0), TRUE)
  OBVIOUS
<1>16. OwnersCount(s) > 1 /\ ICR(s, b) <= Percent => r = A
  BY <1>0, <1>1, <1>5, <1>7, RecoveryWays, Zenon
<1>10. CASE OwnersCount(s) <= 1
  BY <1>1, <1>5, <1>7, <1>10, RecoveryWays
<1>11. CASE OwnersCount(s) > 1 /\ icr <= Percent
  <2>1. PICK v : v = OffsetAndRedistributionVals(debt, colls, 0)
    OBVIOUS
  <2>2. r = CloseInRun(run, b, v, TRUE)
    BY <1>0, <1>2, <1>3, <1>5, <1>11, <1>16, <2>1
  <2>3. Shares(v, debt, colls, 0)
    BY <2>1, OffsetShares
  <2>4. Shares(v, EntireDebt(run.books, b), CollToLiquidate(run.books, b), run.remaining)
    BY <1>1, <1>2, <1>3, <1>4, <2>3, SharesOfMore
  <2>5. ICR(run.books, b) < MCR
    BY <1>1, <1>5, <1>8, <1>11
  <2> QED
    BY <2>2, <2>4, <2>5 DEF Closes
<1>12. CASE OwnersCount(s) > 1 /\ Percent < icr /\ icr < MCR
  <2>1. r = LiquidateNormalMode(run, b)
    BY <1>1, <1>5, <1>7, <1>12, RecoveryWays
  <2>2. r = [run EXCEPT !.ok = FALSE] \/ Closes(run, b, r)
    BY <2>1, NormalModeWays
  <2> QED
    BY <1>1, <1>5, <1>12, <2>2
<1>13. CASE OwnersCount(s) > 1 /\ Percent < icr /\ ~ (icr < MCR)
  <2>1. PICK v : v = CappedOffsetVals(debt, colls)
    OBVIOUS
  <2>2. \/ r = run
        \/ /\ AICR(s, b) < CR(run.systemCollVC, run.systemDebt)
           /\ debt <= held /\ r = CloseInRun(run, b, v, FALSE)
    BY <1>1, <1>2, <1>3, <1>4, <1>5, <1>7, <1>13, <2>1, RecoveryWays
  <2>3. CASE AICR(s, b) < CR(run.systemCollVC, run.systemDebt)
             /\ debt <= held /\ r = CloseInRun(run, b, v, FALSE)
    <3>1. USD(colls) # 0
      <4>1. PICK e \in Bundles : e = EntireColl(s, b)
        BY <1>1, RunParts, PendingNat
      <4>2. VC(e) # 0
        BY <1>1, <1>5, <1>8, <1>13, <4>1, RunParts, RatioNat
      <4>3. colls = Minus(e, CollGasCompensation(e))
        BY <1>3, <4>1 DEF CollToLiquidate
      <4> QED
        BY <4>2, <4>3, WorthLeft
    <3>2. Shares(v, debt, colls, held)
      <4>1. debt \in Nat
        OBVIOUS
      <4> QED
        BY <2>1, <2>3, <3>1, <4>1, CappedShares
    <3>3. Shares(v, EntireDebt(run.books, b), CollToLiquidate(run.books, b), run.remaining)
      BY <1>1, <1>2, <1>3, <1>4, <3>2
    <3>4. Closes(run, b, r)
      BY <2>3, <3>3 DEF Closes
    <3> QED
      BY <1>1, <2>3, <3>4
  <2> QED
    BY <2>2, <2>3
<1>14. OwnersCount(s) <= 1 \/ OwnersCount(s) > 1
  BY <1>7
<1>15. icr <= Percent \/ (Percent < icr /\ icr < MCR) \/ (Percent < icr /\ ~ (icr < MCR))
  BY <1>8
<1> QED
  BY <1>10, <1>11, <1>12, <1>13, <1>14, <1>15

\* A liquidation in recovery mode keeps the invariant of the run.
LEMMA RecoveryModeKeeps ==
    ASSUME NEW run, RunInv(run), NEW b \in Borrowers, active(run.books, b),
           NEW p \in Bundles, price = p
    PROVE  RunInv(LiquidateRecoveryMode(run, b))
<1>1. PICK r : r = LiquidateRecoveryMode(run, b)
  OBVIOUS
<1>2. r = run \/ r = [run EXCEPT !.ok = FALSE] \/ Closes(run, b, r)
  BY <1>1, RecoveryModeWays
<1>3. RunInv([run EXCEPT !.ok = FALSE])
  BY RunFails
<1>4. Closes(run, b, r) => RunInv(r)
  BY ClosesKeeps
<1> QED
  BY <1>1, <1>2, <1>3, <1>4

\* A turn of the loop in normal mode keeps it.
LEMMA TurnNormalKeeps ==
    ASSUME NEW run, RunInv(run), NEW b \in Borrowers, NEW p \in Bundles, price = p
    PROVE  RunInv(TurnNormal(run, b))
<1>1. CASE ICR(run.books, b) < MCR
  <2>1. active(run.books, b)
    <3>1. ICR(run.books, b) \in Nat /\ (~ active(run.books, b) => ICR(run.books, b) >= MCR)
      BY RunParts, RatioNat
    <3>2. MCR \in Nat
      BY Constants
    <3> QED
      BY <1>1, <3>1, <3>2
  <2> QED
    BY <1>1, <2>1, NormalModeKeeps DEF TurnNormal
<1> QED
  BY <1>1 DEF TurnNormal

\* A turn of the loop in recovery mode keeps it.
LEMMA TurnRecoveryKeeps ==
    ASSUME NEW run, RunInv(run), NEW b \in Borrowers, NEW p \in Bundles, price = p
    PROVE  RunInv(TurnRecovery(run, b))
<1>1. CASE ~ active(run.books, b)
  BY <1>1 DEF TurnRecovery
<1>2. CASE active(run.books, b) /\ run.backToNormalMode
  <2>1. TurnRecovery(run, b) = TurnNormal(run, b)
    BY <1>2 DEF TurnRecovery
  <2> QED
    BY <2>1, TurnNormalKeeps
<1>3. CASE active(run.books, b) /\ ~ run.backToNormalMode
  <2>1. PICK r : r = LiquidateRecoveryMode(run, b)
    OBVIOUS
  <2>2. TurnRecovery(run, b) \in {run, LookAtMode(r)}
    BY <1>3, <2>1 DEF TurnRecovery
  <2>3. RunInv(r)
    BY <1>3, <2>1, RecoveryModeKeeps
  <2>4. RunInv(LookAtMode(r))
    BY <2>3, LookKeeps
  <2> QED
    BY <2>2, <2>4
<1> QED
  BY <1>1, <1>2, <1>3

\* What a batch begins with.
StartOf(s) ==
    [books |-> s, ok |-> TRUE, totals |-> NoTotals,
     remaining |-> s.star.stabilityPool, backToNormalMode |-> FALSE,
     systemCollVC |-> VC(SystemColl(s)), systemDebt |-> SystemDebt(s)]

\* A batch is one of two loops, and nothing is on its way when it begins.
LEMMA RunBegins ==
    ASSUME NEW s, Sound(s), s.star.stabilityPool \in Nat, Accounts(s, 0, 0, NoColl, NoColl),
           NEW p \in Bundles, price = p, NEW borrowers
    PROVE  /\ RunInv(StartOf(s))
           /\ LiquidationRun(s, borrowers) =
                IF RecoveryMode(s) THEN FoldLeft(TurnRecovery, StartOf(s), borrowers)
                ELSE FoldLeft(TurnNormal, StartOf(s), borrowers)
<1>1. PICK vc, sd : vc = VC(SystemColl(s)) /\ sd = SystemDebt(s)
  OBVIOUS
<1>2. vc \in Int /\ sd \in Int
  <2>1. s \in Books
    BY DEF Sound
  <2>2. SystemColl(s) \in IntBundles
    BY <2>1, BookParts, BundleOps DEF SystemColl
  <2>3. s.pools.activeDebt \in Int /\ s.pools.defaultDebt \in Int
    BY <2>1, BookParts
  <2> QED
    BY <1>1, <2>2, <2>3, ValuesInt DEF SystemDebt
<1>3. PICK held \in Nat : held = s.star.stabilityPool
  OBVIOUS
<1>4. PICK start : start = [books |-> s, ok |-> TRUE, totals |-> NoTotals,
                  remaining |-> held, backToNormalMode |-> FALSE,
                  systemCollVC |-> vc, systemDebt |-> sd]
  OBVIOUS
<1>5. RunInv(start)
  <2>1. /\ NoTotals \in TotalRecords /\ TransitDebt(NoTotals) = 0
        /\ NoTotals.STARGasCompensation = 0 /\ NoTotals.debtToOffset = 0
        /\ NoTotals.collSurplus = NoColl
    BY BundleOps DEF NoTotals, TotalRecords, TransitDebt
  <2>2. TransitColl(NoTotals) = NoColl
    <3>1. \A t \in Tokens : NoColl[t] = 0
      BY BundleOps
    <3> QED
      BY <3>1 DEF TransitColl, NoTotals, NoColl
  <2>3. start \in RunRecords
    BY <1>2, <1>4, <2>1 DEF RunRecords, Sound
  <2>4. /\ start.books = s /\ start.totals = NoTotals /\ start.remaining = held
    BY <1>4
  <2>5. 0 + held = held
    OBVIOUS
  <2> QED
    BY <1>3, <2>1, <2>2, <2>3, <2>4, <2>5 DEF RunInv
<1>6. start = StartOf(s)
  BY <1>1, <1>3, <1>4 DEF StartOf
<1>7. LiquidationRun(s, borrowers) = IF RecoveryMode(s) THEN FoldLeft(TurnRecovery, start, borrowers)
        ELSE FoldLeft(TurnNormal, start, borrowers)
  BY <1>1, <1>3, <1>4 DEF LiquidationRun
<1> QED
  BY <1>5, <1>6, <1>7

\* The loop keeps the books sound and the pools in agreement with the troves and
\* the totals, whatever the troves named and in either mode.
LEMMA RunKeeps ==
    ASSUME NEW s, Sound(s), s.star.stabilityPool \in Nat, Accounts(s, 0, 0, NoColl, NoColl),
           NEW borrowers \in Seq(Borrowers), NEW p \in Bundles, price = p
    PROVE  RunInv(LiquidationRun(s, borrowers))
<1>4. PICK start : start = StartOf(s)
  OBVIOUS
<1>5. RunInv(start)
  BY <1>4, RunBegins
<1>6. PICK n \in Nat : n = Len(borrowers)
  BY LenProperties
<1>7. \A k \in 1..n : borrowers[k] \in Borrowers
  BY <1>6, LenProperties
<1>8. RunInv(FoldLeft(TurnNormal, start, borrowers))
  <2>1. PICK f : /\ f[0] = start
                 /\ \A k \in 1..n : f[k] = TurnNormal(f[k - 1], borrowers[k])
                 /\ f[n] = FoldLeft(TurnNormal, start, borrowers)
    BY <1>6, NormalRun
  <2> DEFINE G == {k \in 0..n : RunInv(f[k])}
  <2>2. 0 \in G
    BY <1>5, <2>1
  <2>3. ASSUME NEW k \in 1..n, k - 1 \in G PROVE k \in G
    <3>1. RunInv(f[k - 1]) /\ f[k] = TurnNormal(f[k - 1], borrowers[k])
      BY <2>1, <2>3
    <3>2. RunInv(f[k])
      BY <1>7, <3>1, TurnNormalKeeps
    <3> QED
      BY <3>2
  <2> HIDE DEF G
  <2>4. n \in G
    BY <2>2, <2>3, Reaches
  <2> QED
    BY <2>1, <2>4 DEF G
<1>9. RunInv(FoldLeft(TurnRecovery, start, borrowers))
  <2>1. PICK f : /\ f[0] = start
                 /\ \A k \in 1..n : f[k] = TurnRecovery(f[k - 1], borrowers[k])
                 /\ f[n] = FoldLeft(TurnRecovery, start, borrowers)
    BY <1>6, RecoveryRun
  <2> DEFINE G == {k \in 0..n : RunInv(f[k])}
  <2>2. 0 \in G
    BY <1>5, <2>1
  <2>3. ASSUME NEW k \in 1..n, k - 1 \in G PROVE k \in G
    <3>1. RunInv(f[k - 1]) /\ f[k] = TurnRecovery(f[k - 1], borrowers[k])
      BY <2>1, <2>3
    <3>2. RunInv(f[k])
      BY <1>7, <3>1, TurnRecoveryKeeps
    <3> QED
      BY <3>2
  <2> HIDE DEF G
  <2>4. n \in G
    BY <2>2, <2>3, Reaches
  <2> QED
    BY <2>1, <2>4 DEF G
<1>10. LiquidationRun(s, borrowers) \in {FoldLeft(TurnNormal, start, borrowers), FoldLeft(TurnRecovery, start, borrowers)}
  <2>1. LiquidationRun(s, borrowers) =
                IF RecoveryMode(s) THEN FoldLeft(TurnRecovery, StartOf(s), borrowers)
                ELSE FoldLeft(TurnNormal, StartOf(s), borrowers)
    BY RunBegins
  <2> QED
    BY <1>4, <2>1
<1> QED
  BY <1>8, <1>9, <1>10

-----------------------------------------------------------------------------
(* Redistribution.                                                         *)

\* The terms of a token are put in the place of others.
WithTerm(s, t, R) == [s EXCEPT !.terms[t] = R]

\* Only that token's terms change.
LEMMA TermReplaced ==
    ASSUME NEW s \in Books, NEW t \in Tokens, NEW R \in TermRecords,
           NEW r, r = WithTerm(s, t, R)
    PROVE  /\ r \in Books /\ r.terms[t] = R /\ \A x \in Tokens : x # t => r.terms[x] = s.terms[x]
           /\ r.troves = s.troves /\ r.pools = s.pools /\ r.star = s.star
<1>1. [s.terms EXCEPT ![t] = R] \in [Tokens -> TermRecords]
  BY BookParts
<1> QED
  BY <1>1 DEF Books, WithTerm

\* The terms of the rewards have grown, and nothing else has changed.
TermsGrow(s, r) ==
    /\ Sound(r) /\ r.troves = s.troves /\ r.pools = s.pools /\ r.star = s.star
    /\ \A x \in Tokens : r.terms[x].totalStakes = s.terms[x].totalStakes

\* What is given per unit staked is added to the terms of the token.
LEMMA UpdateStakesGrows ==
    ASSUME NEW s, Sound(s), NEW t \in Tokens, s.terms[t].totalStakes # 0,
           NEW amount \in Nat, NEW num \in Nat, NEW upd \in BOOLEAN,
           NEW r, r = UpdateStakesOnRedistribution(s, t, amount, num, upd)
    PROVE  TermsGrow(s, r)
<1>1. s \in Books /\ SnapshotsBehind(s) /\ Indebted(s) /\ Staked(s)
  BY DEF Sound
<1>2. PICK total \in Nat \ {0} : total = s.terms[t].totalStakes
  BY <1>1, BookParts
<1>3. PICK L \in Nat, D \in Nat, ce \in Nat, de \in Nat :
        /\ L = s.terms[t].L_Coll /\ D = s.terms[t].L_STARDebt
        /\ ce = s.terms[t].lastCollError /\ de = s.terms[t].lastSTARDebtError
  BY <1>1, BookParts
<1>4. amount * Scale + ce \in Nat
  <2>1. amount * Scale \in Nat
    BY Constants, NatProduct
  <2> QED
    BY <2>1
<1>5. PICK coll \in Nat : coll = amount * Scale + ce
  BY <1>4
<1>6. /\ num \div total \in Nat /\ num % total \in Nat
      /\ coll \div total \in Nat /\ coll % total \in Nat
  BY DivMod
<1>7. PICK qd \in Nat, rd \in Nat, qc \in Nat, rc \in Nat :
        /\ qd = num \div total /\ rd = num % total /\ qc = coll \div total /\ rc = coll % total
  BY <1>6
<1>8. PICK L2 \in Nat, ce2 \in Nat : /\ L2 = (IF upd THEN L + qc ELSE L)
                                     /\ ce2 = (IF upd THEN rc ELSE ce)
  <2>1. L + qc \in Nat
    OBVIOUS
  <2> QED
    BY <2>1
<1>10. PICK Q \in TermRecords : Q = s.terms[t]
  BY <1>1, BookParts
<1>9. PICK D2 \in Nat : D2 = D + qd
  OBVIOUS
<1>18. PICK R : R = [Q EXCEPT !.L_STARDebt = D2, !.lastSTARDebtError = rd,
                              !.L_Coll = L2, !.lastCollError = ce2]
  OBVIOUS
<1>11. /\ R \in TermRecords /\ R.L_Coll = L2 /\ R.L_STARDebt = D2
       /\ R.totalStakes = s.terms[t].totalStakes
  BY <1>10, <1>18 DEF TermRecords
<1>12. r = WithTerm(s, t, R)
  <2>1. r = [s EXCEPT !.terms[t] = [Q EXCEPT
            !.L_STARDebt = @ + qd,
            !.lastSTARDebtError = rd,
            !.L_Coll = IF upd THEN @ + qc ELSE @,
            !.lastCollError = IF upd THEN rc ELSE @]]
    BY <1>2, <1>3, <1>5, <1>7, <1>10 DEF UpdateStakesOnRedistribution
  <2>2. /\ Q.L_STARDebt + qd = D2 /\ (IF upd THEN Q.L_Coll + qc ELSE Q.L_Coll) = L2
        /\ (IF upd THEN rc ELSE Q.lastCollError) = ce2
    BY <1>3, <1>8, <1>9, <1>10
  <2>3. R = [Q EXCEPT
            !.L_STARDebt = @ + qd,
            !.lastSTARDebtError = rd,
            !.L_Coll = IF upd THEN @ + qc ELSE @,
            !.lastCollError = IF upd THEN rc ELSE @]
    BY <1>18, <2>2 DEF TermRecords
  <2> QED
    BY <2>1, <2>3 DEF WithTerm
<1>13. /\ r \in Books /\ r.terms[t] = R /\ \A x \in Tokens : x # t => r.terms[x] = s.terms[x]
       /\ r.troves = s.troves /\ r.pools = s.pools /\ r.star = s.star
  BY <1>1, <1>11, <1>12, TermReplaced
<1>14. \A x \in Tokens : r.terms[x].totalStakes = s.terms[x].totalStakes
  BY <1>11, <1>13
<1>15. Staked(r)
  <2>1. \A x \in Tokens : StakeSum(r, x) = StakeSum(s, x)
    BY <1>13, SameSums
  <2> QED
    BY <1>1, <1>14, <2>1 DEF Staked
<1>16. SnapshotsBehind(r)
  <2>1. \A x \in Tokens : s.terms[x].L_Coll <= r.terms[x].L_Coll
                          /\ s.terms[x].L_STARDebt <= r.terms[x].L_STARDebt
    <3> TAKE x \in Tokens
    <3>1. s.terms[x].L_Coll \in Nat /\ s.terms[x].L_STARDebt \in Nat
      BY <1>1, BookParts
    <3>2. L <= L2 /\ D <= D2
      BY <1>8, <1>9
    <3> QED
      BY <1>3, <1>11, <1>13, <3>1, <3>2
  <2>2. \A b \in Borrowers, x \in Tokens :
          /\ s.troves[b].CollRewards[x] \in Nat /\ s.troves[b].STARDebts[x] \in Nat
          /\ s.terms[x].L_Coll \in Nat /\ s.terms[x].L_STARDebt \in Nat
          /\ r.terms[x].L_Coll \in Nat /\ r.terms[x].L_STARDebt \in Nat
    BY <1>1, <1>13, BookParts DEF Bundles
  <2> QED
    BY <1>1, <1>13, <2>1, <2>2 DEF SnapshotsBehind
<1>17. Indebted(r)
  BY <1>1, <1>13 DEF Indebted, active
<1> QED
  BY <1>13, <1>14, <1>15, <1>16, <1>17 DEF TermsGrow, Sound

\* Growing terms do not disturb the accounts.
LEMMA GrowAccounts ==
    ASSUME NEW s, NEW r, TermsGrow(s, r), NEW d, NEW g, NEW c, NEW u, Accounts(s, d, g, c, u)
    PROVE  Accounts(r, d, g, c, u)
<1>1. r.troves = s.troves /\ r.pools = s.pools /\ r.star = s.star
  BY DEF TermsGrow
<1>2. /\ DebtSum(r) = DebtSum(s) /\ OwnersCount(r) = OwnersCount(s)
      /\ \A t \in Tokens : CollSum(r, t) = CollSum(s, t) /\ SurplusSum(r, t) = SurplusSum(s, t)
  BY <1>1, SameSums
<1>3. DebtAgrees(s, d) /\ GasAgrees(s, g) /\ CollAgrees(s, c) /\ SurplusAgrees(s, u) /\ Backed(s)
  BY DEF Accounts
<1>4. DebtAgrees(r, d) /\ Backed(r)
  BY <1>1, <1>2, <1>3 DEF DebtAgrees, Backed
<1>5. GasAgrees(r, g)
  BY <1>1, <1>2, <1>3 DEF GasAgrees
<1>6. CollAgrees(r, c)
  BY <1>1, <1>2, <1>3 DEF CollAgrees
<1>7. SurplusAgrees(r, u)
  BY <1>1, <1>2, <1>3 DEF SurplusAgrees
<1> QED
  BY <1>4, <1>5, <1>6, <1>7 DEF Accounts

\* Growing is transitive.
LEMMA GrowMore ==
    ASSUME NEW s, NEW q, TermsGrow(s, q), NEW r, TermsGrow(q, r)
    PROVE  TermsGrow(s, r)
BY DEF TermsGrow

-----------------------------------------------------------------------------
(* The absorption of an orphaned token's debt.                             *)

\* The absorption collaterals are finitely many tokens.
LEMMA AbsorbersFinite ==
    IsFiniteSet(Range(AbsorptionColls)) /\ Range(AbsorptionColls) \subseteq Tokens
<1>1. PICK n \in Nat : DOMAIN AbsorptionColls = 1..n
  BY LedgerAssumption, LenProperties
<1>2. IsFiniteSet(1..n)
  BY FS_Interval
<1>3. AbsorptionColls \in [1..n -> Range(AbsorptionColls)]
  <2>1. AbsorptionColls \in [1..n -> Tokens]
    BY <1>1, LedgerAssumption, LenProperties
  <2> QED
    BY <2>1 DEF Range
<1>4. \A t \in Range(AbsorptionColls) : \E i \in 1..n : AbsorptionColls[i] = t
  BY <1>1 DEF Range
<1>5. AbsorptionColls \in Surjection(1..n, Range(AbsorptionColls))
  BY <1>3, <1>4 DEF Surjection
<1>6. AbsorptionColls \in [1..n -> Tokens]
  BY <1>1, LedgerAssumption, LenProperties
<1>7. Range(AbsorptionColls) \subseteq Tokens
  BY <1>1, <1>6 DEF Range
<1> QED
  BY <1>2, <1>5, <1>7, FS_Surjection

\* Weights are natural numbers.
LEMMA WeightNat ==
    ASSUME NEW s, NEW a \in Range(AbsorptionColls)
    PROVE  AbsorberWeight(s, a) \in Nat
<1>1. \A x \in Range(AbsorptionColls) : AbsorptionWeight[x] \in Nat
  BY LedgerAssumption
<1> DEFINE idle == {x \in Range(AbsorptionColls) : s.terms[x].totalStakes = 0}
           w == [x \in idle |-> AbsorptionWeight[x]]
<1>2. IsFiniteSet(idle)
  BY AbsorbersFinite, FS_Subset
<1>3. DOMAIN w = idle /\ \A x \in idle : w[x] \in Nat
  BY <1>1
<1>4. SumFunction(w) \in Nat
  <2> HIDE DEF idle, w
  <2> QED
    BY <1>2, <1>3, SumNat DEF SumFunction
<1>5. AbsorberWeight(s, a) \in {AbsorptionWeight[a] + SumFunction(w), AbsorptionWeight[a] + 0}
  BY DEF AbsorberWeight
<1> HIDE DEF w, idle
<1> QED
  BY <1>1, <1>4, <1>5

\* One absorption collateral takes its share.
LEMMA AbsorbShareGrows ==
    ASSUME NEW s, NEW debt \in Nat, NEW r, Sound(r), NEW a \in Range(AbsorptionColls),
           r.terms[a].totalStakes = s.terms[a].totalStakes
    PROVE  TermsGrow(r, AbsorbShare(s, debt, r, a))
<1>1. a \in Tokens
  BY AbsorbersFinite
<1>2. CASE ~ CanAbsorb(s, a)
  <2>1. AbsorbShare(s, debt, r, a) = r
    BY <1>2 DEF AbsorbShare
  <2> QED
    BY <2>1 DEF TermsGrow
<1>3. CASE CanAbsorb(s, a)
  <2>1. debt * AbsorberWeight(s, a) + r.terms[a].lastSTARDebtError \in Nat
    <3>1. PICK w \in Nat : w = AbsorberWeight(s, a)
      BY WeightNat
    <3>2. PICK e \in Nat : e = r.terms[a].lastSTARDebtError
      BY <1>1, BookParts DEF Sound
    <3>3. debt * w \in Nat
      BY NatProduct
    <3> QED
      BY <3>1, <3>2, <3>3
  <2>2. PICK num \in Nat : num = debt * AbsorberWeight(s, a) + r.terms[a].lastSTARDebtError
    BY <2>1
  <2>3. PICK q : q = AbsorbShare(s, debt, r, a)
    OBVIOUS
  <2>4. q = UpdateStakesOnRedistribution(r, a, 0, num, FALSE)
    BY <1>3, <2>2, <2>3 DEF AbsorbShare
  <2>5. r.terms[a].totalStakes # 0
    BY <1>3 DEF CanAbsorb
  <2>6. 0 \in Nat /\ FALSE \in BOOLEAN
    OBVIOUS
  <2>7. TermsGrow(r, q)
    BY <1>1, <2>4, <2>5, <2>6, UpdateStakesGrows
  <2> QED
    BY <2>3, <2>7
<1> QED
  BY <1>2, <1>3

AbsorbStep(p, r, a) == AbsorbShare(p[1], p[2], r, a)

AbsorbFold == INSTANCE FoldFacts WITH Op <- AbsorbStep

AbsorbIter(p, base, seq, D, it) ==
    it = [s \in SUBSET D |->
            IF s = {} THEN base
            ELSE AbsorbStep(p, it[s \ {CHOOSE x \in s : \A y \in s : x >= y}],
                            seq[CHOOSE x \in s : \A y \in s : x >= y])]

\* The loop over the tokens that absorb is defined for every list of them.
LEMMA AbsorbItersExist ==
    \A p, base, seq, D : \A n \in Nat : D = 1..n => \E it : AbsorbIter(p, base, seq, D, it)
BY AbsorbFold!FoldsExist DEF AbsorbIter

\* It goes through them one by one.
LEMMA AbsorbIterSteps ==
    \A p, base, seq, it, D : \A n \in Nat :
      D = 1..n /\ AbsorbIter(p, base, seq, D, it)
      => \E f : /\ f[0] = base
                /\ \A k \in 1..n : f[k] = AbsorbStep(p, f[k - 1], seq[k])
                /\ f[n] = it[D]
BY AbsorbFold!FoldSteps DEF AbsorbIter

\* The states of the loop over the tokens that absorb.
LEMMA AbsorbRun ==
    ASSUME NEW s, NEW debt
    PROVE  \E n \in Nat : \E f :
              /\ DOMAIN AbsorptionColls = 1..n /\ f[0] = s
              /\ \A k \in 1..n : f[k] = AbsorbShare(s, debt, f[k - 1], AbsorptionColls[k])
              /\ f[n] = AbsorbDebt(s, debt)
<1>1. PICK n \in Nat : DOMAIN AbsorptionColls = 1..n
  BY LedgerAssumption, LenProperties
<1>2. PICK p : p = <<s, debt>>
  OBVIOUS
<1>3. p[1] = s /\ p[2] = debt
  BY <1>2
<1>4. \E it : AbsorbIter(p, p[1], AbsorptionColls, DOMAIN AbsorptionColls, it)
  BY <1>1, AbsorbItersExist
<1>5. \E g : /\ AbsorbIter(p, p[1], AbsorptionColls, DOMAIN AbsorptionColls, g)
             /\ AbsorbDebt(p[1], p[2]) = g[DOMAIN AbsorptionColls]
  BY <1>4 DEF AbsorbIter, AbsorbStep, AbsorbDebt, FoldLeft, MapThenFoldSet, Max
<1>6. PICK g : /\ AbsorbIter(p, s, AbsorptionColls, DOMAIN AbsorptionColls, g)
               /\ AbsorbDebt(s, debt) = g[DOMAIN AbsorptionColls]
  BY <1>3, <1>5
<1>7. PICK f : /\ f[0] = s
               /\ \A k \in 1..n : f[k] = AbsorbStep(p, f[k - 1], AbsorptionColls[k])
               /\ f[n] = g[DOMAIN AbsorptionColls]
  BY <1>1, <1>6, AbsorbIterSteps
<1>8. \A k \in 1..n : f[k] = AbsorbShare(s, debt, f[k - 1], AbsorptionColls[k])
  BY <1>3, <1>7 DEF AbsorbStep
<1> QED
  BY <1>1, <1>6, <1>7, <1>8

\* The whole debt is absorbed: only terms grow.
LEMMA AbsorbGrows ==
    ASSUME NEW s, Sound(s), NEW debt \in Nat
    PROVE  TermsGrow(s, AbsorbDebt(s, debt))
<1>0. PICK n \in Nat : \E f :
              /\ DOMAIN AbsorptionColls = 1..n /\ f[0] = s
              /\ \A k \in 1..n : f[k] = AbsorbShare(s, debt, f[k - 1], AbsorptionColls[k])
              /\ f[n] = AbsorbDebt(s, debt)
  BY AbsorbRun
<1>1. PICK f :
              /\ DOMAIN AbsorptionColls = 1..n /\ f[0] = s
              /\ \A k \in 1..n : f[k] = AbsorbShare(s, debt, f[k - 1], AbsorptionColls[k])
              /\ f[n] = AbsorbDebt(s, debt)
  BY <1>0
<1> DEFINE G == {k \in 0..n : TermsGrow(s, f[k])}
<1>2. 0 \in G
  <2>1. TermsGrow(s, s)
    BY DEF TermsGrow
  <2> QED
    BY <1>1, <2>1
<1>3. ASSUME NEW k \in 1..n, k - 1 \in G PROVE k \in G
  <2>1. TermsGrow(s, f[k - 1])
    BY <1>3
  <2>2. PICK a \in Range(AbsorptionColls) : a = AbsorptionColls[k]
    BY <1>1 DEF Range
  <2>3. PICK r : r = f[k - 1]
    OBVIOUS
  <2>4. Sound(r) /\ r.terms[a].totalStakes = s.terms[a].totalStakes
    BY <2>1, <2>3, AbsorbersFinite DEF TermsGrow
  <2>5. TermsGrow(r, AbsorbShare(s, debt, r, a))
    BY <2>4, AbsorbShareGrows
  <2>6. f[k] = AbsorbShare(s, debt, r, a)
    BY <1>1, <2>2, <2>3
  <2>7. TermsGrow(s, r)
    BY <2>1, <2>3
  <2>8. TermsGrow(s, f[k])
    BY <2>5, <2>6, <2>7, GrowMore
  <2> QED
    BY <2>8
<1> HIDE DEF G
<1>4. n \in G
  BY <1>2, <1>3, Reaches
<1> QED
  BY <1>1, <1>4 DEF G

-----------------------------------------------------------------------------
(* The loop over the liquidated tokens.                                    *)

\* An orphaned token's collateral leaves the ActivePool.
LEMMA OrphanSent ==
    ASSUME NEW s, Sound(s), NEW t \in Tokens, NEW amount \in Nat,
           NEW d \in Int, NEW g \in Int, NEW c \in IntBundles, NEW u \in IntBundles,
           Accounts(s, d, g, c, u),
           NEW c2 \in IntBundles,
           \A x \in Tokens : c2[x] = c[x] - (IF x = t THEN amount ELSE 0),
           NEW r, r = [s EXCEPT !.pools.activeColl[t] = @ - amount]
    PROVE  Sound(r) /\ Accounts(r, d, g, c2, u)
<1>1. s \in Books
  BY DEF Sound
<1>2. PICK ac \in IntBundles, ad \in Int, dc \in IntBundles, dd \in Int,
           sc \in Bundles, su \in IntBundles, supply \in Int, gas \in Int, held \in Int :
              Balances(s, ac, ad, dc, dd, sc, su, supply, gas, held)
  BY <1>1, BalancesOf
<1>3. ac[t] \in Int
  BY DEF IntBundles
<1>4. PICK ac2 \in IntBundles : ac2 = [ac EXCEPT ![t] = ac[t] - amount]
  <2>1. ac[t] - amount \in Int
    BY <1>3
  <2>2. [ac EXCEPT ![t] = ac[t] - amount] \in IntBundles
    BY <2>1 DEF IntBundles
  <2> QED
    BY <2>2
<1>5. r = WithPools(s, PoolsOf(s, ac2, ad, dc, dd, sc, su), StarOf(supply, gas, held))
  <2>1. s.pools \in PoolRecords /\ s.star \in StarRecords
    BY <1>1, BookParts
  <2>2. ac2 = [s.pools.activeColl EXCEPT ![t] = @ - amount]
    BY <1>2, <1>4 DEF Balances, IntBundles
  <2>3. r = [s EXCEPT !.pools.activeColl = ac2]
    BY <1>1, <2>1, <2>2 DEF Books, PoolRecords
  <2>4. StarOf(supply, gas, held) = s.star
    BY <1>2, <2>1 DEF StarOf, Balances, StarRecords
  <2>5. PoolsOf(s, ac2, ad, dc, dd, sc, su) = [s.pools EXCEPT !.activeColl = ac2]
    BY <1>2, <2>1 DEF PoolsOf, Balances, PoolRecords
  <2> QED
    BY <1>1, <2>3, <2>4, <2>5 DEF WithPools, Books
<1>6. SamePlaces(s, r) /\ Balances(r, ac2, ad, dc, dd, sc, su, supply, gas, held)
  BY <1>1, <1>5, BalancesReplaced
<1>7. \A x \in Tokens : ac2[x] - ac[x] >= c2[x] - c[x] /\ su[x] - su[x] = u[x] - u[x]
  <2> TAKE x \in Tokens
  <2>1. ac[x] \in Int /\ c[x] \in Int /\ c2[x] \in Int /\ u[x] \in Int /\ su[x] \in Int
    BY DEF IntBundles
  <2>2. ac2[x] = ac[x] - (IF x = t THEN amount ELSE 0)
    BY <1>4, <2>1 DEF IntBundles
  <2> QED
    BY <2>1, <2>2
<1>8. Moves(s, r, d, g, c, u, d, g, c2, u)
  BY <1>2, <1>6, <1>7 DEF Moves, SamePlaces, Balances
<1> QED
  BY <1>8, PoolStep

\* Debt and collateral go to the DefaultPool.
LEMMA MovedToDefault ==
    ASSUME NEW r, Sound(r.books), NEW left \in Bundles, left = r.left, NEW debt \in Nat,
           NEW d \in Int, NEW g \in Int, NEW c \in IntBundles, NEW u \in IntBundles,
           Accounts(r.books, d, g, c, u),
           NEW q, q = MoveToDefaultPool(r, debt)
    PROVE  /\ Sound(q.books) /\ Accounts(q.books, d - debt, g, Minus(c, left), u)
           /\ q.books.troves = r.books.troves
<1>1. PICK s : s = r.books
  OBVIOUS
<1>2. s \in Books /\ Sound(s) /\ Accounts(s, d, g, c, u)
  BY <1>1 DEF Sound
<1>3. PICK ac \in IntBundles, ad \in Int, dc \in IntBundles, dd \in Int,
           sc \in Bundles, su \in IntBundles, supply \in Int, gas \in Int, held \in Int :
              Balances(s, ac, ad, dc, dd, sc, su, supply, gas, held)
  BY <1>2, BalancesOf
<1>4. PICK ac2 \in IntBundles, dc2 \in IntBundles, c2 \in IntBundles :
        ac2 = Minus(ac, left) /\ dc2 = Plus(dc, left) /\ c2 = Minus(c, left)
  BY BundleOps
<1>5. PICK ad2 \in Int, dd2 \in Int, d2 \in Int : ad2 = ad - debt /\ dd2 = dd + debt /\ d2 = d - debt
  <2>1. ad - debt \in Int /\ dd + debt \in Int /\ d - debt \in Int
    OBVIOUS
  <2> QED
    BY <2>1
<1>6. PICK z : z = q.books
  OBVIOUS
<1>7. z = WithPools(s, PoolsOf(s, ac2, ad2, dc2, dd2, sc, su), StarOf(supply, gas, held))
  <2>1. s.pools \in PoolRecords /\ s.star \in StarRecords
    BY <1>2, BookParts
  <2>2. z = [s EXCEPT !.pools.activeDebt = @ - debt, !.pools.defaultDebt = @ + debt,
                      !.pools.activeColl = Minus(@, left), !.pools.defaultColl = Plus(@, left)]
    BY <1>1, <1>6 DEF MoveToDefaultPool
  <2>3. StarOf(supply, gas, held) = s.star
    BY <1>3, <2>1 DEF StarOf, Balances, StarRecords
  <2>4. PoolsOf(s, ac2, ad2, dc2, dd2, sc, su) =
          [s.pools EXCEPT !.activeDebt = @ - debt, !.defaultDebt = @ + debt,
                          !.activeColl = Minus(@, left), !.defaultColl = Plus(@, left)]
    BY <1>3, <1>4, <1>5, <2>1 DEF PoolsOf, Balances, PoolRecords
  <2> QED
    BY <1>2, <2>2, <2>3, <2>4 DEF WithPools, Books
<1>8. SamePlaces(s, z) /\ Balances(z, ac2, ad2, dc2, dd2, sc, su, supply, gas, held)
  BY <1>2, <1>7, BalancesReplaced
<1>9. \A x \in Tokens : ac2[x] - ac[x] >= c2[x] - c[x] /\ su[x] - su[x] = u[x] - u[x]
  <2> TAKE x \in Tokens
  <2>1. ac[x] \in Int /\ c[x] \in Int /\ left[x] \in Int /\ u[x] \in Int /\ su[x] \in Int
    BY DEF IntBundles, Bundles
  <2>2. ac2[x] = ac[x] - left[x] /\ c2[x] = c[x] - left[x]
    BY <1>4, BundleOps
  <2> QED
    BY <2>1, <2>2
<1>10. ad2 - ad = d2 - d /\ supply - ad2 - dd2 <= supply - ad - dd
  BY <1>5
<1>11. Moves(s, z, d, g, c, u, d2, g, c2, u)
  BY <1>3, <1>8, <1>9, <1>10 DEF Moves, SamePlaces, Balances
<1>12. Sound(z) /\ Accounts(z, d2, g, c2, u)
  BY <1>2, <1>11, PoolStep
<1>13. z.troves = s.troves
  BY <1>8 DEF SamePlaces
<1> QED
  BY <1>1, <1>4, <1>5, <1>6, <1>12, <1>13

ShareRecords == [books : Books, left : Bundles, ok : BOOLEAN]

\* In the loop over the tokens: what is not left to be moved has been sent.
Sharing(r, d, g, c, u, colls) ==
    /\ r \in ShareRecords /\ Sound(r.books)
    /\ Accounts(r.books, d, g, Plus(Minus(c, colls), r.left), u)

\* The amounts that are on their way while the tokens are shared.
LEMMA OnTheWay ==
    ASSUME NEW c \in IntBundles, NEW colls \in Bundles, NEW left \in Bundles
    PROVE  /\ Plus(Minus(c, colls), left) \in IntBundles
           /\ \A t \in Tokens : Plus(Minus(c, colls), left)[t] = c[t] - colls[t] + left[t]
<1>1. Minus(c, colls) \in IntBundles /\ left \in IntBundles
  BY BundleOps
<1>2. Plus(Minus(c, colls), left) \in IntBundles
  BY <1>1, BundleOps
<1>3. \A t \in Tokens : Plus(Minus(c, colls), left)[t] = Minus(c, colls)[t] + left[t]
                        /\ Minus(c, colls)[t] = c[t] - colls[t]
  BY BundleOps
<1> QED
  BY <1>2, <1>3

\* One token is shared.
LEMMA TokenShared ==
    ASSUME NEW d \in Int, NEW g \in Int, NEW c \in IntBundles, NEW u \in IntBundles,
           NEW colls \in Bundles, NEW r, Sharing(r, d, g, c, u, colls),
           NEW t \in Tokens, r.left[t] = colls[t], NEW debt \in Nat,
           NEW q, q = RedistributeToken(r, t, colls[t], debt)
    PROVE  /\ Sharing(q, d, g, c, u, colls) /\ q.books.troves = r.books.troves
           /\ \A x \in Tokens : x # t => q.left[x] = r.left[x]
<1>1. PICK s \in Books, left \in Bundles, ok \in BOOLEAN, amount \in Nat :
        s = r.books /\ left = r.left /\ ok = r.ok /\ amount = colls[t]
  BY DEF Sharing, ShareRecords, Bundles
<1>2. PICK c1 \in IntBundles : c1 = Plus(Minus(c, colls), left)
  BY OnTheWay
<1>3. Sound(s) /\ Accounts(s, d, g, c1, u)
  BY <1>1, <1>2 DEF Sharing
<1>4. CASE s.terms[t].totalStakes # 0
  <2>1. PICK e \in Nat : e = s.terms[t].lastSTARDebtError
    BY BookParts
  <2>2. debt * Scale + e \in Nat
    <3>1. debt * Scale \in Nat
      BY Constants, NatProduct
    <3> QED
      BY <3>1
  <2>3. PICK num \in Nat : num = debt * Scale + e
    BY <2>2
  <2>4. PICK z : z = UpdateStakesOnRedistribution(s, t, amount, num, TRUE)
    OBVIOUS
  <2>5. TermsGrow(s, z)
    <3>1. TRUE \in BOOLEAN
      OBVIOUS
    <3> QED
      BY <1>3, <1>4, <2>4, <3>1, UpdateStakesGrows
  <2>6. Sound(z) /\ Accounts(z, d, g, c1, u) /\ z \in Books
    BY <1>3, <2>5, GrowAccounts DEF TermsGrow, Sound
  <2>7. q = [r EXCEPT !.books = z]
    BY <1>1, <1>4, <2>1, <2>3, <2>4 DEF RedistributeToken
  <2>8. q \in ShareRecords /\ q.books = z /\ q.left = left
    BY <1>1, <2>6, <2>7 DEF Sharing, ShareRecords
  <2>9. q.books.troves = r.books.troves
    BY <1>1, <2>5, <2>8 DEF TermsGrow
  <2> QED
    BY <1>1, <1>2, <2>6, <2>8, <2>9 DEF Sharing
<1>5. CASE s.terms[t].totalStakes = 0
  <2>1. PICK a : a = AbsorbDebt(s, debt)
    OBVIOUS
  <2>2. TermsGrow(s, a)
    BY <1>3, <2>1, AbsorbGrows
  <2>3. Sound(a) /\ Accounts(a, d, g, c1, u)
    BY <1>3, <2>2, GrowAccounts DEF TermsGrow
  <2>4. PICK left2 \in Bundles : left2 = LeftToMove(left, t)
    BY DEF LeftToMove, Bundles
  <2>5. \A x \in Tokens : left2[x] = IF x = t THEN 0 ELSE left[x]
    BY <2>4 DEF LeftToMove, Bundles
  <2>6. PICK c2 \in IntBundles : c2 = Plus(Minus(c, colls), left2)
    BY OnTheWay
  <2>7. \A x \in Tokens : c2[x] = c1[x] - (IF x = t THEN amount ELSE 0)
    <3> TAKE x \in Tokens
    <3>0. c2[x] = c[x] - colls[x] + left2[x]
      BY <2>6, OnTheWay
    <3>1. c1[x] = c[x] - colls[x] + left[x]
      BY <1>2, OnTheWay
    <3>2. c[x] \in Int /\ colls[x] \in Int /\ left[x] \in Int
      BY DEF IntBundles, Bundles
    <3> QED
      BY <1>1, <2>5, <3>0, <3>1, <3>2
  <2>8. PICK z : z = [a EXCEPT !.pools.activeColl[t] = @ - amount]
    OBVIOUS
  <2>9. Sound(z) /\ Accounts(z, d, g, c2, u)
    BY <2>3, <2>7, <2>8, OrphanSent
  <2>10. PICK ok2 \in BOOLEAN : ok2 = (ok /\ Absorbers(s) # {})
    <3>1. (ok /\ Absorbers(s) # {}) \in BOOLEAN
      OBVIOUS
    <3> QED
      BY <3>1
  <2>11. q = [ok |-> ok2, left |-> left2, books |-> z]
    BY <1>1, <1>5, <2>1, <2>4, <2>8, <2>10 DEF RedistributeToken
  <2>12. q \in ShareRecords /\ q.books = z /\ q.left = left2
    BY <2>9, <2>11 DEF Sound, ShareRecords
  <2>13. q.books.troves = r.books.troves
    <3>1. z.troves = a.troves
      BY <2>3, <2>8 DEF Sound, Books
    <3>2. a.troves = s.troves
      BY <2>2 DEF TermsGrow
    <3> QED
      BY <1>1, <2>12, <3>1, <3>2
  <2> QED
    BY <1>1, <2>5, <2>6, <2>9, <2>12, <2>13 DEF Sharing
<1> QED
  BY <1>4, <1>5

\* One turn of the loop over the tokens.
LEMMA ShareKeeps ==
    ASSUME NEW d \in Int, NEW g \in Int, NEW c \in IntBundles, NEW u \in IntBundles,
           NEW colls \in Bundles, NEW r, Sharing(r, d, g, c, u, colls),
           NEW t \in Tokens, r.left[t] = colls[t], NEW debt \in Nat, NEW tokens,
           NEW p \in Bundles, price = p, VC(colls) # 0,
           NEW q, q = RedistributeShare(debt, tokens, colls, r, t)
    PROVE  /\ Sharing(q, d, g, c, u, colls) /\ q.books.troves = r.books.troves
           /\ \A x \in Tokens : x # t => q.left[x] = r.left[x]
<1>1. CASE t \notin tokens
  BY <1>1 DEF RedistributeShare
<1>2. CASE t \in tokens
  <2>1. colls[t] \in Nat
    BY DEF Bundles
  <2>2. Only(t, colls[t]) \in Bundles
    BY <2>1, BundleOps DEF Only, Bundles
  <2>3. VC(Only(t, colls[t])) \in Nat /\ VC(colls) \in Nat \ {0}
    BY <2>2, Values
  <2>4. VC(Only(t, colls[t])) * debt \in Nat
    BY <2>3, NatProduct
  <2>5. (VC(Only(t, colls[t])) * debt) \div VC(colls) \in Nat
    BY <2>3, <2>4, QuotientNat
  <2>6. PICK part \in Nat : part = (VC(Only(t, colls[t])) * debt) \div VC(colls)
    BY <2>5
  <2>7. q = RedistributeToken(r, t, colls[t], part)
    BY <1>2, <2>6 DEF RedistributeShare
  <2> QED
    BY <2>7, TokenShared
<1> QED
  BY <1>1, <1>2

ShareStep(p, r, t) == RedistributeShare(p[1], p[2], p[3], r, t)

ShareFold == INSTANCE FoldFacts WITH Op <- ShareStep

ShareIter(p, base, seq, D, it) ==
    it = [s \in SUBSET D |->
            IF s = {} THEN base
            ELSE ShareStep(p, it[s \ {CHOOSE x \in s : \A y \in s : x >= y}],
                            seq[CHOOSE x \in s : \A y \in s : x >= y])]

\* The loop over the tokens of a redistribution is defined for every list.
LEMMA ShareItersExist ==
    \A p, base, seq, D : \A n \in Nat : D = 1..n => \E it : ShareIter(p, base, seq, D, it)
BY ShareFold!FoldsExist DEF ShareIter

\* It goes through them one by one.
LEMMA ShareIterSteps ==
    \A p, base, seq, it, D : \A n \in Nat :
      D = 1..n /\ ShareIter(p, base, seq, D, it)
      => \E f : /\ f[0] = base
                /\ \A k \in 1..n : f[k] = ShareStep(p, f[k - 1], seq[k])
                /\ f[n] = it[D]
BY ShareFold!FoldSteps DEF ShareIter

\* The states of the loop over the tokens of a redistribution.
LEMMA ShareRun ==
    ASSUME NEW start, NEW debt, NEW tokens, NEW colls
    PROVE  \E n \in Nat : \E f :
              /\ DOMAIN ValidCollateral = 1..n /\ f[0] = start
              /\ \A k \in 1..n : f[k] = RedistributeShare(debt, tokens, colls, f[k - 1], ValidCollateral[k])
              /\ f[n] = RedistributeTokens(start, debt, tokens, colls)
<1>1. PICK n \in Nat : DOMAIN ValidCollateral = 1..n
  BY LedgerAssumption, LenProperties
<1>2. PICK p : p = <<debt, tokens, colls>>
  OBVIOUS
<1>3. p[1] = debt /\ p[2] = tokens /\ p[3] = colls
  BY <1>2
<1>4. \E it : ShareIter(p, start, ValidCollateral, DOMAIN ValidCollateral, it)
  BY <1>1, ShareItersExist
<1>5. \E g : /\ ShareIter(p, start, ValidCollateral, DOMAIN ValidCollateral, g)
             /\ RedistributeTokens(start, p[1], p[2], p[3]) = g[DOMAIN ValidCollateral]
  BY <1>4 DEF ShareIter, ShareStep, RedistributeTokens, FoldLeft, MapThenFoldSet, Max
<1>6. PICK g : /\ ShareIter(p, start, ValidCollateral, DOMAIN ValidCollateral, g)
               /\ RedistributeTokens(start, debt, tokens, colls) = g[DOMAIN ValidCollateral]
  BY <1>3, <1>5
<1>7. PICK f : /\ f[0] = start
               /\ \A k \in 1..n : f[k] = ShareStep(p, f[k - 1], ValidCollateral[k])
               /\ f[n] = g[DOMAIN ValidCollateral]
  BY <1>1, <1>6, ShareIterSteps
<1>8. \A k \in 1..n : f[k] = RedistributeShare(debt, tokens, colls, f[k - 1], ValidCollateral[k])
  BY <1>3, <1>7 DEF ShareStep
<1> QED
  BY <1>1, <1>6, <1>7, <1>8

\* All the tokens are shared.
LEMMA TokensShared ==
    ASSUME NEW s, Sound(s),
           NEW d \in Int, NEW g \in Int, NEW c \in IntBundles, NEW u \in IntBundles,
           Accounts(s, d, g, c, u), NEW colls \in Bundles, NEW debt \in Nat, NEW tokens,
           NEW p \in Bundles, price = p, VC(colls) # 0,
           NEW start, start = [books |-> s, left |-> colls, ok |-> TRUE],
           NEW end, end = RedistributeTokens(start, debt, tokens, colls)
    PROVE  Sharing(end, d, g, c, u, colls) /\ end.books.troves = s.troves
<1>0. PICK n \in Nat : \E f :
              /\ DOMAIN ValidCollateral = 1..n /\ f[0] = start
              /\ \A k \in 1..n : f[k] = RedistributeShare(debt, tokens, colls, f[k - 1], ValidCollateral[k])
              /\ f[n] = RedistributeTokens(start, debt, tokens, colls)
  BY ShareRun
<1>1. PICK f :
              /\ DOMAIN ValidCollateral = 1..n /\ f[0] = start
              /\ \A k \in 1..n : f[k] = RedistributeShare(debt, tokens, colls, f[k - 1], ValidCollateral[k])
              /\ f[n] = RedistributeTokens(start, debt, tokens, colls)
  BY <1>0
<1>2. ValidCollateral \in [1..n -> Tokens] /\ IsInjective(ValidCollateral)
  BY <1>1, LedgerAssumption, LenProperties
<1> DEFINE Later(k) == \A i \in 1..n : i > k => f[k].left[ValidCollateral[i]] = colls[ValidCollateral[i]]
           G == {k \in 0..n : /\ Sharing(f[k], d, g, c, u, colls) /\ Later(k)
                             /\ f[k].books.troves = s.troves}
<1>3. 0 \in G
  <2>1. start \in ShareRecords /\ start.books = s /\ start.left = colls
    BY DEF Sound, ShareRecords
  <2>2. PICK c1 \in IntBundles : c1 = Plus(Minus(c, colls), colls)
    BY OnTheWay
  <2>3. \A t \in Tokens : c1[t] <= c[t] /\ u[t] = u[t]
    <3> TAKE t \in Tokens
    <3>1. c1[t] = c[t] - colls[t] + colls[t]
      BY <2>2, OnTheWay
    <3>2. c[t] \in Int /\ colls[t] \in Int
      BY DEF IntBundles, Bundles
    <3> QED
      BY <3>1, <3>2
  <2>4. Accounts(s, d, g, c1, u)
    BY <2>3, AccountsSame DEF Sound
  <2>5. Sharing(start, d, g, c, u, colls)
    BY <2>1, <2>2, <2>4 DEF Sharing
  <2>6. Later(0)
    BY <1>1, <2>1
  <2>7. f[0].books.troves = s.troves
    BY <1>1, <2>1
  <2> QED
    BY <1>1, <2>5, <2>6, <2>7
<1>4. ASSUME NEW k \in 1..n, k - 1 \in G PROVE k \in G
  <2>1. PICK r : r = f[k - 1]
    OBVIOUS
  <2>2. Sharing(r, d, g, c, u, colls) /\ Later(k - 1) /\ r.books.troves = s.troves
    BY <1>4, <2>1
  <2>3. PICK t \in Tokens : t = ValidCollateral[k]
    BY <1>2
  <2>4. r.left[t] = colls[t]
    <3>1. k > k - 1
      OBVIOUS
    <3> QED
      BY <2>1, <2>2, <2>3, <3>1
  <2>5. PICK q : q = f[k]
    OBVIOUS
  <2>6. q = RedistributeShare(debt, tokens, colls, r, t)
    BY <1>1, <2>1, <2>3, <2>5
  <2>7. /\ Sharing(q, d, g, c, u, colls) /\ q.books.troves = r.books.troves
        /\ \A x \in Tokens : x # t => q.left[x] = r.left[x]
    <3> HIDE DEF G, Later
    <3> QED
      BY <2>2, <2>4, <2>6, ShareKeeps
  <2>8. Later(k)
    <3> SUFFICES ASSUME NEW i \in 1..n, i > k
                 PROVE  f[k].left[ValidCollateral[i]] = colls[ValidCollateral[i]]
      OBVIOUS
    <3>1. ValidCollateral[i] # t /\ ValidCollateral[i] \in Tokens
      <4>1. i # k /\ i \in DOMAIN ValidCollateral /\ k \in DOMAIN ValidCollateral
        BY <1>1
      <4>2. ValidCollateral[i] # ValidCollateral[k]
        BY <1>2, <4>1 DEF IsInjective
      <4> QED
        BY <1>2, <2>3, <4>2
    <3>2. i > k - 1
      OBVIOUS
    <3> QED
      BY <2>1, <2>2, <2>5, <2>7, <3>1, <3>2
  <2>9. f[k].books.troves = s.troves
    BY <2>2, <2>5, <2>7
  <2> QED
    BY <2>5, <2>7, <2>8, <2>9
<1>5. n \in G
  <2> HIDE DEF G
  <2> QED
    BY <1>3, <1>4, Reaches
<1> QED
  BY <1>1, <1>5

-----------------------------------------------------------------------------
(* The totals of a batch are settled.                                      *)

\* Debt and collateral are redistributed, to the last of what was to be.
LEMMA RedistributeAccounts ==
    ASSUME NEW s, Sound(s),
           NEW d \in Int, NEW g \in Int, NEW c \in IntBundles, NEW u \in IntBundles,
           Accounts(s, d, g, c, u), NEW colls \in Bundles, NEW debt \in Nat, NEW tokens,
           NEW p \in Bundles, price = p,
           NEW q, q = RedistributeDebtAndColl(s, debt, tokens, colls), q.ok
    PROVE  /\ Sound(q.books) /\ Accounts(q.books, d - debt, g, Minus(c, colls), u)
           /\ q.books.troves = s.troves
<1>1. PICK c2 \in IntBundles, d2 \in Int : c2 = Minus(c, colls) /\ d2 = d - debt
  <2>1. d - debt \in Int /\ Minus(c, colls) \in IntBundles
    BY BundleOps
  <2> QED
    BY <2>1
<1>2. \A t \in Tokens : c2[t] = c[t] - colls[t] /\ c[t] \in Int /\ colls[t] \in Nat /\ c2[t] \in Int
  BY <1>1, BundleOps DEF IntBundles, Bundles
<1>3. CASE debt = 0
  <2>1. q = [books |-> s, ok |-> TRUE]
    BY <1>3 DEF RedistributeDebtAndColl
  <2>2. q.books = s /\ d2 = d
    BY <1>1, <1>3, <2>1
  <2>3. \A t \in Tokens : c2[t] <= c[t] /\ u[t] = u[t]
    BY <1>2
  <2>4. Accounts(s, d, g, c2, u)
    BY <2>3, AccountsSame DEF Sound
  <2> QED
    BY <1>1, <2>2, <2>4
<1>4. CASE debt # 0 /\ VC(colls) = 0
  <2>1. q = [books |-> s, ok |-> FALSE]
    BY <1>4 DEF RedistributeDebtAndColl
  <2> QED
    BY <2>1
<1>5. CASE debt # 0 /\ VC(colls) # 0
  <2>1. PICK start : start = [books |-> s, left |-> colls, ok |-> TRUE]
    OBVIOUS
  <2>2. PICK r : r = RedistributeTokens(start, debt, tokens, colls)
    OBVIOUS
  <2>3. q = MoveToDefaultPool(r, debt)
    BY <1>5, <2>1, <2>2 DEF RedistributeDebtAndColl
  <2>4. Sharing(r, d, g, c, u, colls) /\ r.books.troves = s.troves
    BY <1>5, <2>1, <2>2, TokensShared
  <2>5. PICK left \in Bundles : left = r.left
    BY <2>4 DEF Sharing, ShareRecords
  <2>6. PICK c1 \in IntBundles : c1 = Plus(Minus(c, colls), left)
    BY OnTheWay
  <2>7. Sound(r.books) /\ Accounts(r.books, d, g, c1, u)
    BY <2>4, <2>5, <2>6 DEF Sharing
  <2>8. /\ Sound(q.books) /\ Accounts(q.books, d - debt, g, Minus(c1, left), u)
        /\ q.books.troves = r.books.troves
    BY <2>3, <2>5, <2>7, MovedToDefault
  <2>9. PICK c3 \in IntBundles : c3 = Minus(c1, left)
    BY BundleOps
  <2>10. \A t \in Tokens : c2[t] <= c3[t] /\ u[t] = u[t]
    <3> TAKE t \in Tokens
    <3>1. c1[t] = c[t] - colls[t] + left[t]
      BY <2>6, OnTheWay
    <3>2. c3[t] = c1[t] - left[t]
      BY <2>9, BundleOps
    <3>3. left[t] \in Nat
      BY DEF Bundles
    <3> QED
      BY <1>2, <3>1, <3>2, <3>3
  <2>11. PICK z \in Books : z = q.books
    BY <2>8 DEF Sound
  <2>12. Accounts(z, d2, g, c3, u)
    BY <1>1, <2>8, <2>9, <2>11
  <2>13. Accounts(z, d2, g, c2, u)
    BY <2>10, <2>12, AccountsSame
  <2> QED
    BY <1>1, <2>4, <2>8, <2>11, <2>13
<1> QED
  BY <1>3, <1>4, <1>5

\* The StabilityPool pays for what it receives.
LEMMA OffsetAccounts ==
    ASSUME NEW s, Sound(s), NEW debt \in Nat, NEW colls \in Bundles,
           s.star.stabilityPool = 0 => debt = 0,
           NEW d \in Int, NEW g \in Int, NEW c \in IntBundles, NEW u \in IntBundles,
           Accounts(s, d, g, c, u),
           NEW q, q = Offset(s, debt, colls)
    PROVE  Sound(q) /\ Accounts(q, d - debt, g, Minus(c, colls), u)
<1>1. CASE debt = 0
  <2>1. q = s
    BY <1>1 DEF Offset
  <2>2. PICK c2 \in IntBundles : c2 = Minus(c, colls)
    BY BundleOps
  <2>3. \A t \in Tokens : c2[t] <= c[t] /\ u[t] = u[t]
    <3>1. \A t \in Tokens : c2[t] = c[t] - colls[t] /\ c[t] \in Int /\ colls[t] \in Nat
      BY <2>2, BundleOps DEF IntBundles, Bundles
    <3> QED
      BY <3>1
  <2>4. Accounts(s, d, g, c2, u)
    BY <2>3, AccountsSame DEF Sound
  <2>5. d - debt = d
    BY <1>1
  <2> QED
    BY <2>1, <2>2, <2>4, <2>5
<1>2. CASE debt # 0
  <2>1. q = [Burn(s, debt) EXCEPT !.star.stabilityPool = @ - debt,
                                  !.pools.activeColl = Minus(@, colls),
                                  !.pools.stabilityColl = Plus(@, colls)]
    BY <1>2 DEF Offset
  <2>2. debt \in Int
    OBVIOUS
  <2> QED
    BY <2>1, <2>2, OffsetMoves
<1> QED
  BY <1>1, <1>2

\* The snapshots of the system are taken: terms in the place of others.
WithTerms(s, F) == [s EXCEPT !.terms = F]

\* That changes the terms, and nothing else of the books.
LEMMA TermsReplaced ==
    ASSUME NEW s \in Books, NEW F, NEW r, r = WithTerms(s, F)
    PROVE  /\ r.terms = F /\ r.troves = s.troves /\ r.pools = s.pools /\ r.star = s.star
           /\ F \in [Tokens -> TermRecords] => r \in Books
BY DEF WithTerms, Books

\* They are natural numbers when the collateral left in the system is.
LEMMA SnapshotsTaken ==
    ASSUME NEW s, Sound(s), NEW tokens, NEW gas \in Bundles,
           \A t \in Tokens : s.pools.activeColl[t] - gas[t] + s.pools.defaultColl[t] \in Nat,
           NEW r, r = UpdateSystemSnapshots(s, tokens, gas)
    PROVE  TermsGrow(s, r)
<1>1. s \in Books /\ SnapshotsBehind(s) /\ Indebted(s) /\ Staked(s)
  BY DEF Sound
<1>2. PICK F : F = [t \in Tokens |->
        IF t \in tokens
        THEN [s.terms[t] EXCEPT
                !.totalStakesSnapshot = s.terms[t].totalStakes,
                !.totalCollateralSnapshot = SystemColl(s)[t] - gas[t]]
        ELSE s.terms[t]]
  OBVIOUS
<1>3. r = WithTerms(s, F)
  BY <1>2 DEF UpdateSystemSnapshots, WithTerms
<1>4. ASSUME NEW t \in Tokens
      PROVE  /\ F[t] \in TermRecords /\ F[t].totalStakes = s.terms[t].totalStakes
             /\ F[t].L_Coll = s.terms[t].L_Coll /\ F[t].L_STARDebt = s.terms[t].L_STARDebt
  <2>1. PICK Q \in TermRecords : Q = s.terms[t]
    BY <1>1, BookParts
  <2>2. PICK n \in Nat : n = SystemColl(s)[t] - gas[t]
    <3>1. SystemColl(s)[t] = s.pools.activeColl[t] + s.pools.defaultColl[t]
      BY BundleOps DEF SystemColl
    <3>2. s.pools.activeColl[t] \in Int /\ s.pools.defaultColl[t] \in Int /\ gas[t] \in Int
      BY <1>1, BookParts DEF IntBundles, Bundles
    <3>3. SystemColl(s)[t] - gas[t] = s.pools.activeColl[t] - gas[t] + s.pools.defaultColl[t]
      BY <3>1, <3>2
    <3> QED
      BY <3>3
  <2>3. Q.totalStakes \in Nat
    BY DEF TermRecords
  <2>4. F[t] = Q \/ F[t] = [Q EXCEPT !.totalStakesSnapshot = Q.totalStakes, !.totalCollateralSnapshot = n]
    BY <1>2, <2>1, <2>2
  <2> QED
    BY <2>1, <2>3, <2>4 DEF TermRecords
<1>5. F \in [Tokens -> TermRecords]
  BY <1>2, <1>4
<1>6. /\ r \in Books /\ r.terms = F /\ r.troves = s.troves /\ r.pools = s.pools /\ r.star = s.star
  BY <1>1, <1>3, <1>5, TermsReplaced
<1>7. Staked(r)
  <2>1. \A x \in Tokens : StakeSum(r, x) = StakeSum(s, x)
    BY <1>6, SameSums
  <2> QED
    BY <1>1, <1>4, <1>6, <2>1 DEF Staked
<1>8. SnapshotsBehind(r)
  BY <1>1, <1>4, <1>6 DEF SnapshotsBehind
<1>9. Indebted(r)
  BY <1>1, <1>6 DEF Indebted, active
<1> QED
  BY <1>4, <1>6, <1>7, <1>8, <1>9 DEF TermsGrow, Sound

\* What the pools hold at the end of a batch.
LEMMA AtTheEnd ==
    ASSUME NEW s \in Books, NEW F, NEW r, r = WithTerms(s, F), NEW totals,
           NEW gas \in Bundles, gas = totals.collGasCompensation,
           NEW q, q = CompensateLiquidator(r, totals)
    PROVE  /\ q.pools.activeColl = Minus(s.pools.activeColl, gas)
           /\ q.pools.defaultColl = s.pools.defaultColl
<1>1. r.pools \in PoolRecords /\ r.pools = s.pools
  BY TermsReplaced, BookParts
<1>2. r = [troves |-> s.troves, terms |-> F, pools |-> s.pools, star |-> s.star]
  BY DEF WithTerms, Books
<1>3. q.pools = [r.pools EXCEPT !.activeColl = Minus(@, gas)]
  BY <1>2 DEF CompensateLiquidator
<1> QED
  BY <1>1, <1>3 DEF PoolRecords

\* At the end of a batch the books are sound and nothing is on its way; no trove
\* is touched after the loop.
LEMMA Settled ==
    ASSUME NEW run, RunInv(run), NEW p \in Bundles, price = p,
           NEW q, q = SettleTotals(run), q.ok,
           \A t \in Tokens : q.books.pools.activeColl[t] >= 0 /\ q.books.pools.defaultColl[t] >= 0
    PROVE  /\ Sound(q.books) /\ Accounts(q.books, 0, 0, NoColl, NoColl)
           /\ run.ok /\ q.books.troves = run.books.troves
<1>1. PICK s, T : s = run.books /\ T = run.totals
  OBVIOUS
<1>2. Sound(s) /\ T \in TotalRecords /\ run.remaining \in Nat
      /\ T.debtToOffset + run.remaining = s.star.stabilityPool
  BY <1>1, RunParts DEF RunInv
<1>3. PICK off \in Nat, red \in Nat, gasStar \in Nat, toSP \in Bundles, toRed \in Bundles,
           sur \in Bundles, gas \in Bundles :
        /\ off = T.debtToOffset /\ red = T.debtToRedistribute /\ gasStar = T.STARGasCompensation
        /\ toSP = T.collToSendToSP /\ toRed = T.collToRedistribute /\ sur = T.collSurplus
        /\ gas = T.collGasCompensation
  BY <1>2 DEF TotalRecords
<1>4. PICK d \in Int, c \in IntBundles : d = off + red /\ c = TransitColl(T)
  <2>1. off + red \in Int
    OBVIOUS
  <2>2. \A t \in Tokens : toSP[t] + sur[t] + toRed[t] + gas[t] \in Int
    BY DEF Bundles
  <2>3. TransitColl(T) \in IntBundles
    BY <1>3, <2>2 DEF TransitColl, IntBundles
  <2> QED
    BY <2>1, <2>3
<1>5. \A t \in Tokens : c[t] = toSP[t] + sur[t] + toRed[t] + gas[t]
  BY <1>3, <1>4 DEF TransitColl
<1>6. sur \in IntBundles /\ toSP \in IntBundles /\ toRed \in IntBundles /\ gas \in IntBundles
      /\ gasStar \in Int
  BY BundleOps
<1>7. Accounts(s, d, gasStar, c, sur)
  <2>1. TransitDebt(T) = d
    BY <1>3, <1>4 DEF TransitDebt
  <2> QED
    BY <1>1, <1>3, <1>4, <2>1 DEF RunInv
<1>8. run.ok /\ T.debtInSequence # 0
  <2>1. ~ (run.ok /\ T.debtInSequence # 0) => ~ q.ok
    BY <1>1 DEF SettleTotals
  <2> QED
    BY <2>1
<1>9. PICK o, r : /\ o = Offset(s, off, toSP)
                  /\ r = RedistributeDebtAndColl(o, red, T.redistributed, toRed)
  OBVIOUS
<1>10. q = FinishTotals(r, T)
  BY <1>1, <1>3, <1>8, <1>9 DEF SettleTotals
<1>11. PICK y, x, z : /\ y = SendSurplus(r.books, sur)
                      /\ x = UpdateSystemSnapshots(y, T.compensated, gas)
                      /\ z = CompensateLiquidator(x, T)
  OBVIOUS
<1>12. r.ok /\ q.books = z
  <2>1. x = SendAndSnapshot(r.books, T)
    BY <1>3, <1>11 DEF SendAndSnapshot
  <2>2. FinishTotals(r, T) = [ok |-> r.ok, books |-> CompensateLiquidator(SendAndSnapshot(r.books, T), T)]
    BY DEF FinishTotals
  <2>3. q = [ok |-> r.ok, books |-> z]
    BY <1>10, <1>11, <2>1, <2>2
  <2>4. q.books = z
    BY <2>3
  <2>5. PICK k : k = r.ok
    OBVIOUS
  <2>6. q = [ok |-> k, books |-> z]
    BY <2>3, <2>5
  <2>7. q.ok = k
    BY <2>6
  <2>8. k
    BY <2>7
  <2> QED
    BY <2>4, <2>5, <2>8
<1>13. PICK d1 \in Int, c1 \in IntBundles, d2 \in Int, c2 \in IntBundles, c3 \in IntBundles, u3 \in IntBundles :
         /\ d1 = d - off /\ c1 = Minus(c, toSP) /\ d2 = d1 - red /\ c2 = Minus(c1, toRed)
         /\ c3 = Minus(c2, sur) /\ u3 = Minus(sur, sur)
  <2>1. PICK d1 \in Int, c1 \in IntBundles : d1 = d - off /\ c1 = Minus(c, toSP)
    <3>1. d - off \in Int /\ Minus(c, toSP) \in IntBundles
      BY <1>6, BundleOps
    <3> QED
      BY <3>1
  <2>2. PICK d2 \in Int, c2 \in IntBundles : d2 = d1 - red /\ c2 = Minus(c1, toRed)
    <3>1. d1 - red \in Int /\ Minus(c1, toRed) \in IntBundles
      BY <1>6, BundleOps
    <3> QED
      BY <3>1
  <2>3. Minus(c2, sur) \in IntBundles /\ Minus(sur, sur) \in IntBundles
    BY <1>6, BundleOps
  <2> QED
    BY <2>1, <2>2, <2>3
<1>14. Sound(o) /\ Accounts(o, d1, gasStar, c1, sur)
  <2>1. s.star.stabilityPool = 0 => off = 0
    BY <1>2, <1>3
  <2>2. Sound(o) /\ Accounts(o, d - off, gasStar, Minus(c, toSP), sur)
    BY <1>2, <1>6, <1>7, <1>9, <2>1, OffsetAccounts
  <2> QED
    BY <1>13, <2>2
<1>15. Sound(r.books) /\ Accounts(r.books, d2, gasStar, c2, sur) /\ r.books.troves = o.troves
  <2>1. /\ Sound(r.books) /\ Accounts(r.books, d1 - red, gasStar, Minus(c1, toRed), sur)
        /\ r.books.troves = o.troves
    BY <1>6, <1>9, <1>12, <1>14, RedistributeAccounts
  <2> QED
    BY <1>13, <2>1
<1>16. Sound(y) /\ Accounts(y, d2, gasStar, c3, u3)
  <2>1. PICK w : w = r.books
    OBVIOUS
  <2>2. Sound(y) /\ Accounts(y, d2, gasStar, Minus(c2, sur), Minus(sur, sur))
    <3>1. Sound(w) /\ Accounts(w, d2, gasStar, c2, sur) /\ y = SendSurplus(w, sur)
      BY <1>11, <1>15, <2>1
    <3> QED
      BY <1>6, <3>1, SendSurplusAccounts
  <2> QED
    BY <1>13, <2>2
<1>17. y \in Books
  BY <1>16 DEF Sound
<1>18. \E F : x = WithTerms(y, F)
  BY <1>11 DEF UpdateSystemSnapshots, WithTerms
<1>19. /\ z.pools.activeColl = Minus(y.pools.activeColl, gas)
       /\ z.pools.defaultColl = y.pools.defaultColl
  BY <1>3, <1>11, <1>17, <1>18, AtTheEnd
<1>20. TermsGrow(y, x)
  <2>1. \A t \in Tokens : y.pools.activeColl[t] - gas[t] + y.pools.defaultColl[t] \in Nat
    <3> TAKE t \in Tokens
    <3>1. y.pools.activeColl[t] \in Int /\ y.pools.defaultColl[t] \in Int /\ gas[t] \in Int
      BY <1>17, BookParts DEF IntBundles, Bundles
    <3>2. z.pools.activeColl[t] = y.pools.activeColl[t] - gas[t]
      BY <1>19, BundleOps
    <3>3. z.pools.activeColl[t] >= 0 /\ z.pools.defaultColl[t] >= 0
      BY <1>12
    <3> QED
      BY <1>19, <3>1, <3>2, <3>3
  <2> QED
    BY <1>11, <1>16, <2>1, SnapshotsTaken
<1>21. Sound(x) /\ Accounts(x, d2, gasStar, c3, u3)
  BY <1>16, <1>20, GrowAccounts DEF TermsGrow
<1>22. Sound(z) /\ Accounts(z, d2, gasStar - gasStar, Minus(c3, gas), u3)
  BY <1>3, <1>6, <1>11, <1>21, CompensateAccounts
<1>23. d2 = 0 /\ gasStar - gasStar = 0
  BY <1>4, <1>13
<1>24. PICK c4 \in IntBundles, no \in IntBundles : c4 = Minus(c3, gas) /\ no = NoColl
  BY <1>6, BundleOps
<1>25. \A t \in Tokens : no[t] <= c4[t] /\ no[t] = u3[t]
  <2> TAKE t \in Tokens
  <2>1. c4[t] = c3[t] - gas[t] /\ no[t] = 0
    BY <1>24, BundleOps
  <2>2. c3[t] = c2[t] - sur[t] /\ u3[t] = sur[t] - sur[t]
    BY <1>13, BundleOps
  <2>3. c2[t] = c1[t] - toRed[t]
    BY <1>13, BundleOps
  <2>4. c1[t] = c[t] - toSP[t]
    BY <1>13, BundleOps
  <2>5. c[t] \in Int /\ toSP[t] \in Int /\ toRed[t] \in Int /\ sur[t] \in Int /\ gas[t] \in Int
    BY <1>6 DEF IntBundles
  <2>6. c[t] = toSP[t] + sur[t] + toRed[t] + gas[t]
    BY <1>5
  <2> QED
    BY <2>1, <2>2, <2>3, <2>4, <2>5, <2>6
<1>26. z \in Books /\ Accounts(z, 0, 0, c4, u3)
  BY <1>22, <1>23, <1>24 DEF Sound
<1>27. Accounts(z, 0, 0, no, no)
  BY <1>25, <1>26, AccountsSame
<1>28. z.troves = s.troves
  <2>1. PICK w : w = r.books
    OBVIOUS
  <2>2. w \in Books /\ x \in Books /\ y = SendSurplus(w, sur)
    BY <1>11, <1>15, <1>21, <2>1 DEF Sound
  <2>3. y.troves = w.troves
    BY <2>2 DEF SendSurplus, Books
  <2>4. x.troves = y.troves
    BY <1>20 DEF TermsGrow
  <2>5. z.troves = x.troves
    BY <1>11, <2>2 DEF CompensateLiquidator, Books
  <2>6. o.troves = s.troves
    <3>1. s \in Books
      BY <1>2 DEF Sound
    <3> QED
      BY <1>9, <3>1 DEF Offset, Burn, Books
  <2> QED
    BY <1>15, <2>1, <2>3, <2>4, <2>5, <2>6
<1> QED
  BY <1>1, <1>8, <1>12, <1>22, <1>24, <1>27, <1>28

=============================================================================
