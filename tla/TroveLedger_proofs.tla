------------------------- MODULE TroveLedger_proofs -------------------------
(***************************************************************************)
(* In every behaviour of the ledger, for any finite set of borrowers, any  *)
(* tokens, parameters, prices and amounts: what the troves record, what    *)
(* the five pools hold and how much STAR there is agree.                   *)
(*                                                                         *)
(* Between two transactions nothing is on its way, so that the invariant   *)
(* is Sound and Accounts with the four amounts at zero, and that no        *)
(* balance is below zero.  Redemptions and the borrower's operations are   *)
(* shown to keep it here, liquidations by what TroveBooks_proofs says of   *)
(* their loops and their settlement.  A transaction that fails or          *)
(* underflows leaves the books alone, by the guard of every action.        *)
(***************************************************************************)
EXTENDS TroveBooks_proofs

-----------------------------------------------------------------------------
(* One trove changes and stays or becomes active.                          *)

\* What one trove gives up is on its way, what it takes on has arrived.
TroveMoved(s, r, b, d, g, c, d2, g2, c2) ==
    /\ d2 = d + s.troves[b].debt - r.troves[b].debt
    /\ g2 = IF active(s, b) THEN g ELSE g - GasCompensation
    /\ \A t \in Tokens : c2[t] = c[t] + s.troves[b].colls[t] - r.troves[b].colls[t]

\* The pools agree again once that has been taken into account.
LEMMA TroveAccounts ==
    ASSUME NEW s, Sound(s), NEW r, Sound(r), NEW b \in Borrowers, OnlyTrove(s, r, b),
           r.pools = s.pools, r.star = s.star, active(r, b),
           NEW d \in Int, NEW g \in Int, NEW c \in IntBundles, NEW u \in IntBundles,
           Accounts(s, d, g, c, u),
           NEW d2 \in Int, NEW g2 \in Int, NEW c2 \in IntBundles,
           TroveMoved(s, r, b, d, g, c, d2, g2, c2)
    PROVE  Accounts(r, d2, g2, c2, u)
<1>0. /\ d2 = d + s.troves[b].debt - r.troves[b].debt
      /\ g2 = IF active(s, b) THEN g ELSE g - GasCompensation
      /\ \A t \in Tokens : c2[t] = c[t] + s.troves[b].colls[t] - r.troves[b].colls[t]
  BY DEF TroveMoved
<1>1. s \in Books /\ r \in Books
  BY DEF Sound
<1>2. \A x \in Borrowers : x # b => r.troves[x] = s.troves[x]
  BY DEF OnlyTrove
<1>3. DebtAgrees(s, d) /\ GasAgrees(s, g) /\ CollAgrees(s, c) /\ SurplusAgrees(s, u) /\ Backed(s)
  BY DEF Accounts
<1>4. /\ DebtSum(r) = DebtSum(s) - s.troves[b].debt + r.troves[b].debt
      /\ \A t \in Tokens : CollSum(r, t) = CollSum(s, t) - s.troves[b].colls[t] + r.troves[b].colls[t]
  BY <1>1, <1>2, OneTrove
<1>5. /\ OwnersCount(s) \in Nat
      /\ active(s, b) => OwnersCount(r) = OwnersCount(s)
      /\ ~ active(s, b) => OwnersCount(r) = OwnersCount(s) + 1
  <2>1. \A x \in Borrowers : x # b => r.troves[x].status = s.troves[x].status
    BY <1>2
  <2> QED
    BY <1>1, <2>1, OwnersChange
<1>6. DebtAgrees(r, d2)
  <2>1. DebtSum(s) \in Int /\ s.troves[b].debt \in Int /\ r.troves[b].debt \in Int
    BY <1>1, SumsNat, BookParts
  <2> QED
    BY <1>0, <1>3, <1>4, <2>1 DEF DebtAgrees
<1>7. GasAgrees(r, g2)
  <2>1. GasCompensation \in Int /\ OwnersCount(s) \in Int
    BY <1>5, Constants
  <2>2. GasCompensation * (OwnersCount(s) + 1) = GasCompensation * OwnersCount(s) + GasCompensation
    BY <2>1
  <2>3. PICK x \in Int : x = GasCompensation * OwnersCount(s)
    BY <2>1
  <2>4. s.star.gasPool = x + g
    BY <1>3, <2>3 DEF GasAgrees
  <2>5. GasCompensation * OwnersCount(r) = IF active(s, b) THEN x ELSE x + GasCompensation
    BY <1>5, <2>2, <2>3
  <2>6. r.star.gasPool = GasCompensation * OwnersCount(r) + g2
    <3>1. CASE active(s, b)
      BY <1>0, <2>3, <2>4, <2>5, <3>1
    <3>2. CASE ~ active(s, b)
      BY <1>0, <2>1, <2>3, <2>4, <2>5, <3>2
    <3> QED
      BY <3>1, <3>2
  <2> QED
    BY <2>6 DEF GasAgrees
<1>8. CollAgrees(r, c2)
  <2> SUFFICES ASSUME NEW t \in Tokens
               PROVE  r.pools.activeColl[t] >= CollSum(r, t) + c2[t]
    BY DEF CollAgrees
  <2>1. /\ s.troves[b].colls[t] \in Int /\ r.troves[b].colls[t] \in Int
        /\ c[t] \in Int /\ CollSum(s, t) \in Int /\ s.pools.activeColl[t] \in Int
    BY <1>1, SumsNat, BookParts DEF Bundles, IntBundles
  <2>2. s.pools.activeColl[t] >= CollSum(s, t) + c[t]
    BY <1>3 DEF CollAgrees
  <2> QED
    BY <1>0, <1>4, <2>1, <2>2
<1>9. SurplusAgrees(r, u)
  <2>1. \A t \in Tokens : SurplusSum(r, t) = SurplusSum(s, t)
    BY DEF SurplusSum
  <2> QED
    BY <1>3, <2>1 DEF SurplusAgrees
<1>10. Backed(r)
  BY <1>3 DEF Backed
<1> QED
  BY <1>6, <1>7, <1>8, <1>9, <1>10 DEF Accounts

\* A trove is made or kept active.
LEMMA TroveActivated ==
    ASSUME NEW s, Sound(s), NEW b \in Borrowers, NEW debt \in Nat,
           debt >= GasCompensation + MinNetDebt, NEW colls \in Bundles,
           NEW R, R = TroveWith(s, b, "active", debt, colls),
           NEW r, r = WithTrove(s, b, R)
    PROVE  /\ Sound(r) /\ OnlyTrove(s, r, b) /\ r.pools = s.pools /\ r.star = s.star
           /\ r.troves[b].status = "active" /\ r.troves[b].debt = debt
<1>1. PICK status \in {"nonExistent", "active", "closedByOwner", "closedByLiquidation", "closedByRedemption"} :
        status = "active"
  OBVIOUS
<1>2. R = TroveWith(s, b, status, debt, colls)
  BY <1>1
<1>3. status = "active" => debt >= GasCompensation + MinNetDebt
  OBVIOUS
<1>4. status # "active" => debt = 0
  BY <1>1
<1>5. /\ Sound(r) /\ OnlyTrove(s, r, b) /\ r.troves[b] = R
      /\ r.pools = s.pools /\ r.star = s.star /\ R.status = status /\ R.debt = debt
  BY <1>2, <1>3, <1>4, TroveSet
<1> QED
  BY <1>1, <1>5

-----------------------------------------------------------------------------
(* Redemptions.                                                            *)

\* The trove is closed when only the gas compensation is owed.
LEMMA RedeemCloseAccounts ==
    ASSUME NEW s, Sound(s), NEW b \in Borrowers, active(s, b),
           NEW d \in Int, NEW g \in Int, NEW c \in IntBundles, NEW u \in IntBundles,
           Accounts(s, d, g, c, u), NEW drawn \in Bundles, NEW rest \in Bundles,
           \A t \in Tokens : drawn[t] + rest[t] = s.troves[b].colls[t],
           NEW d2 \in Int, d2 = d + s.troves[b].debt - GasCompensation,
           NEW q, q = RedeemCloseTrove(s, b, rest)
    PROVE  Sound(q) /\ OnlyTrove(s, q, b) /\ Accounts(q, d2, g, Plus(c, drawn), u)
<1>1. PICK k, n, a : /\ k = CloseTroveAs(RemoveStake(s, b), b, "closedByRedemption")
                     /\ n = [Burn(k, GasCompensation) EXCEPT !.star.gasPool = @ - GasCompensation]
                     /\ a = AccountSurplus(n, b, rest)
  OBVIOUS
<1>2. q = SendSurplus(a, rest)
  BY <1>1 DEF RedeemCloseTrove
<1>3. s \in Books
  BY DEF Sound
<1>4. PICK debt \in Nat, colls \in Bundles : debt = s.troves[b].debt /\ colls = s.troves[b].colls
  BY <1>3, BookParts
<1>5. PICK d1 \in Int, g1 \in Int, c1 \in IntBundles, u1 \in IntBundles :
        /\ d1 = d + debt /\ g1 = g + GasCompensation /\ c1 = Plus(c, colls) /\ u1 = Plus(u, rest)
  <2>1. d + debt \in Int /\ g + GasCompensation \in Int
    BY Constants
  <2>2. colls \in IntBundles /\ rest \in IntBundles
    BY BundleOps
  <2>3. Plus(c, colls) \in IntBundles /\ Plus(u, rest) \in IntBundles
    BY <2>2, BundleOps
  <2> QED
    BY <2>1, <2>3
<1>6. /\ Sound(k) /\ Accounts(k, d1, g1, c1, u)
      /\ \A x \in Borrowers : x # b => k.troves[x] = s.troves[x]
  <2>1. "closedByRedemption" \in Closings
    BY DEF Closings
  <2>2. /\ Sound(k) /\ Accounts(k, d + s.troves[b].debt, g + GasCompensation, Plus(c, s.troves[b].colls), u)
        /\ \A x \in Borrowers : x # b => k.troves[x] = s.troves[x]
    BY <1>1, <2>1, CloseAccounts
  <2> QED
    BY <1>4, <1>5, <2>2
<1>7. Sound(n) /\ n.troves = k.troves /\ Accounts(n, d1 - GasCompensation, g1 - GasCompensation, c1, u)
  <2>1. n = [Burn(k, GasCompensation) EXCEPT !.star.gasPool = @ - GasCompensation]
    BY <1>1
  <2>2. d1 \in Int /\ g1 \in Int /\ c1 \in IntBundles
    BY <1>5
  <2>3. Sound(k) /\ Accounts(k, d1, g1, c1, u)
    BY <1>6
  <2>4. Sound(n) /\ SamePlaces(k, n) /\ Accounts(n, d1 - GasCompensation, g1 - GasCompensation, c1, u)
    BY <2>1, <2>2, <2>3, BurnGasAccounts
  <2> QED
    BY <2>4 DEF SamePlaces
<1>8. d1 - GasCompensation = d2 /\ g1 - GasCompensation = g
  BY <1>4, <1>5, Constants
<1>9. Sound(a) /\ a.troves = n.troves /\ Accounts(a, d2, g, c1, u1)
  <2>1. Accounts(n, d2, g, c1, u)
    BY <1>7, <1>8
  <2>2. Sound(a) /\ a.troves = n.troves /\ Accounts(a, d2, g, c1, Plus(u, rest))
    <3>1. a = AccountSurplus(n, b, rest)
      BY <1>1
    <3>2. Sound(n)
      BY <1>7
    <3>3. c1 \in IntBundles
      BY <1>5
    <3> QED
      BY <2>1, <3>1, <3>2, <3>3, AccountSurplusAccounts
  <2> QED
    BY <1>5, <2>2
<1>10. Sound(q) /\ q.troves = a.troves /\ Accounts(q, d2, g, Minus(c1, rest), Minus(u1, rest))
  BY <1>2, <1>9, SendSurplusAccounts DEF SamePlaces
<1>11. PICK c2 \in IntBundles, u2 \in IntBundles, c3 \in IntBundles :
         c2 = Minus(c1, rest) /\ u2 = Minus(u1, rest) /\ c3 = Plus(c, drawn)
  BY BundleOps
<1>12. \A t \in Tokens : c3[t] <= c2[t] /\ u[t] = u2[t]
  <2> TAKE t \in Tokens
  <2>1. /\ c[t] \in Int /\ u[t] \in Int /\ rest[t] \in Int /\ drawn[t] \in Int /\ colls[t] \in Int
    BY DEF IntBundles, Bundles
  <2>2. c2[t] = c1[t] - rest[t] /\ u2[t] = u1[t] - rest[t] /\ c3[t] = c[t] + drawn[t]
    BY <1>11, BundleOps
  <2>3. c1[t] = c[t] + colls[t] /\ u1[t] = u[t] + rest[t]
    BY <1>5, BundleOps
  <2>4. drawn[t] + rest[t] = colls[t]
    BY <1>4
  <2> QED
    BY <2>1, <2>2, <2>3, <2>4
<1>13. q \in Books /\ Accounts(q, d2, g, c2, u2)
  BY <1>10, <1>11 DEF Sound
<1>14. Accounts(q, d2, g, c3, u)
  BY <1>12, <1>13, AccountsSame
<1>15. OnlyTrove(s, q, b)
  BY <1>6, <1>7, <1>9, <1>10 DEF OnlyTrove
<1> QED
  BY <1>10, <1>11, <1>14, <1>15

\* Otherwise what is left of it stays.
LEMMA RedeemPartAccounts ==
    ASSUME NEW s, Sound(s), NEW b \in Borrowers, active(s, b),
           NEW d \in Int, NEW g \in Int, NEW c \in IntBundles, NEW u \in IntBundles,
           Accounts(s, d, g, c, u), NEW drawn \in Bundles, NEW rest \in Bundles,
           \A t \in Tokens : drawn[t] + rest[t] = s.troves[b].colls[t],
           NEW newDebt \in Nat, newDebt >= GasCompensation + MinNetDebt,
           NEW d2 \in Int, d2 = d + s.troves[b].debt - newDebt,
           NEW q, q = SetCollAndStake([s EXCEPT !.troves[b].debt = newDebt], b, s.troves[b].tokens, rest)
    PROVE  Sound(q) /\ OnlyTrove(s, q, b) /\ Accounts(q, d2, g, Plus(c, drawn), u)
<1>1. s \in Books
  BY DEF Sound
<1>2. PICK debt \in Nat, colls \in Bundles, tokens \in SUBSET Tokens :
        debt = s.troves[b].debt /\ colls = s.troves[b].colls /\ tokens = s.troves[b].tokens
  BY <1>1, BookParts
<1>3. PICK R : R = TroveWith(s, b, "active", newDebt, colls)
  OBVIOUS
<1>4. PICK m : m = WithTrove(s, b, R)
  OBVIOUS
<1>5. m = [s EXCEPT !.troves[b].debt = newDebt]
  <2>1. PICK Q \in TroveRecords : Q = s.troves[b]
    BY <1>1, BookParts
  <2>2. Q.status = "active" /\ Q.colls = colls
    BY <1>2, <2>1 DEF active
  <2>3. R = [Q EXCEPT !.debt = newDebt]
    BY <1>3, <2>1, <2>2 DEF TroveWith, TroveRecords
  <2>4. s.troves \in [Borrowers -> TroveRecords]
    BY <1>1, BookParts
  <2> QED
    BY <1>1, <1>4, <2>1, <2>3, <2>4 DEF WithTrove, Books
<1>6. /\ Sound(m) /\ OnlyTrove(s, m, b) /\ m.pools = s.pools /\ m.star = s.star
      /\ m.troves[b].status = "active" /\ m.troves[b].debt = newDebt
  BY <1>3, <1>4, TroveActivated
<1>7. /\ Sound(q) /\ OnlyTrove(m, q, b) /\ q.pools = m.pools /\ q.star = m.star
      /\ q.troves[b].status = m.troves[b].status /\ q.troves[b].debt = m.troves[b].debt
      /\ q.troves[b].colls = rest
  <2>1. q = SetCollAndStake(m, b, tokens, rest)
    BY <1>2, <1>5
  <2> QED
    BY <1>6, <2>1, SetCollAndStakeEffect
<1>8. OnlyTrove(s, q, b) /\ active(q, b)
  BY <1>6, <1>7 DEF OnlyTrove, active
<1>9. PICK c2 \in IntBundles : c2 = Plus(c, drawn)
  BY BundleOps
<1>10. \A t \in Tokens : c2[t] = c[t] + s.troves[b].colls[t] - q.troves[b].colls[t]
  <2> TAKE t \in Tokens
  <2>1. c2[t] = c[t] + drawn[t] /\ drawn[t] + rest[t] = colls[t]
    BY <1>2, <1>9, BundleOps
  <2>2. c[t] \in Int /\ drawn[t] \in Int /\ rest[t] \in Int /\ colls[t] \in Int
    BY DEF IntBundles, Bundles
  <2> QED
    BY <1>2, <1>7, <2>1, <2>2
<1>11. /\ q.pools = s.pools /\ q.star = s.star
       /\ d2 = d + s.troves[b].debt - q.troves[b].debt
       /\ g = IF active(s, b) THEN g ELSE g - GasCompensation
  BY <1>6, <1>7
<1>12. Accounts(q, d2, g, c2, u)
  <2>1. Sound(q) /\ OnlyTrove(s, q, b) /\ active(q, b)
    BY <1>7, <1>8
  <2>2. q.pools = s.pools /\ q.star = s.star
    BY <1>11
  <2>3. PICK g2 \in Int : g2 = g
    OBVIOUS
  <2>4. g2 = IF active(s, b) THEN g ELSE g - GasCompensation
    BY <2>3
  <2>5. d2 = d + s.troves[b].debt - q.troves[b].debt
    BY <1>11
  <2>6. c2 \in IntBundles
    BY <1>9
  <2>7. TroveMoved(s, q, b, d, g, c, d2, g2, c2)
    BY <2>4, <2>5, <1>10 DEF TroveMoved
  <2>8. Accounts(q, d2, g2, c2, u)
    BY <2>1, <2>2, <2>3, <2>6, <2>7, TroveAccounts
  <2> QED
    BY <2>3, <2>8
<1> QED
  BY <1>7, <1>8, <1>9, <1>12

\* After a redemption from a trove: its debt has fallen by the lot and its
\* collateral by what is drawn, both still to leave the pools.
LEMMA AfterRedemptionAccounts ==
    ASSUME NEW s, Sound(s), NEW b \in Borrowers, active(s, b),
           NEW d \in Int, NEW g \in Int, NEW c \in IntBundles, NEW u \in IntBundles,
           Accounts(s, d, g, c, u), NEW drawn \in Bundles, NEW rest \in Bundles,
           \A t \in Tokens : drawn[t] + rest[t] = s.troves[b].colls[t],
           NEW newDebt \in Nat,
           newDebt = GasCompensation \/ newDebt >= GasCompensation + MinNetDebt,
           NEW d2 \in Int, d2 = d + s.troves[b].debt - newDebt,
           NEW q, q = AfterRedemption(s, b, newDebt, rest)
    PROVE  Sound(q) /\ OnlyTrove(s, q, b) /\ Accounts(q, d2, g, Plus(c, drawn), u)
<1>1. CASE newDebt = GasCompensation
  <2>1. q = RedeemCloseTrove(s, b, rest)
    BY <1>1 DEF AfterRedemption
  <2>2. d2 = d + s.troves[b].debt - GasCompensation
    BY <1>1
  <2> QED
    BY <2>1, <2>2, RedeemCloseAccounts
<1>2. CASE newDebt # GasCompensation
  <2>1. q = SetCollAndStake([s EXCEPT !.troves[b].debt = newDebt], b, s.troves[b].tokens, rest)
    BY <1>2 DEF AfterRedemption
  <2>2. newDebt >= GasCompensation + MinNetDebt
    BY <1>2
  <2> QED
    BY <2>1, <2>2, RedeemPartAccounts
<1> QED
  BY <1>1, <1>2

-----------------------------------------------------------------------------
(* The loop of a redemption.                                               *)

RedeemRecords ==
    [books : Books, ok : BOOLEAN, stopped : BOOLEAN, remaining : Nat,
     redeemed : Nat, drawn : Bundles]

\* In the middle of the loop: the books are sound, and the pools agree with the
\* troves but for the debt redeemed and the collateral drawn so far.
RedeemInv(run) ==
    /\ run \in RedeemRecords
    /\ Sound(run.books)
    /\ Accounts(run.books, run.redeemed, 0, run.drawn, NoColl)

\* What is drawn is a bundle.
LEMMA DrawnBundle ==
    ASSUME NEW colls \in Bundles, NEW lot \in Nat, NEW p \in Bundles, price = p, USD(colls) # 0
    PROVE  Drawn(colls, lot) \in Bundles
<1>1. PICK v \in Nat : v = USD(colls)
  BY Values
<1>2. v # 0
  BY <1>1
<1>3. \A t \in Tokens : (lot * colls[t]) \div v \in Nat
  <2> TAKE t \in Tokens
  <2>1. colls[t] \in Nat
    BY DEF Bundles
  <2>2. lot * colls[t] \in Nat
    BY <2>1, NatProduct
  <2> QED
    BY <1>2, <2>2, QuotientNat
<1> QED
  BY <1>1, <1>3 DEF Drawn, Bundles

\* What a bundle leaves of a larger one.
LEMMA RestBundle ==
    ASSUME NEW colls \in Bundles, NEW drawn \in Bundles,
           \A t \in Tokens : drawn[t] <= colls[t]
    PROVE  /\ Minus(colls, drawn) \in Bundles
           /\ \A t \in Tokens : drawn[t] + Minus(colls, drawn)[t] = colls[t]
<1>1. \A t \in Tokens : colls[t] \in Nat /\ drawn[t] \in Nat
  BY DEF Bundles
<1>2. \A t \in Tokens : colls[t] - drawn[t] \in Nat /\ drawn[t] + (colls[t] - drawn[t]) = colls[t]
  BY <1>1
<1> QED
  BY <1>2 DEF Minus, Bundles

\* The lot of a trove leaves at least the gas compensation.
LEMMA LotParts ==
    ASSUME NEW s, Sound(s), NEW b \in Borrowers, active(s, b), NEW remaining \in Nat
    PROVE  /\ Min({remaining, s.troves[b].debt - GasCompensation}) \in Nat
           /\ Min({remaining, s.troves[b].debt - GasCompensation}) <= remaining
           /\ s.troves[b].debt - Min({remaining, s.troves[b].debt - GasCompensation}) \in Nat
           /\ s.troves[b].debt - Min({remaining, s.troves[b].debt - GasCompensation}) >= GasCompensation
<1>1. PICK debt \in Nat : debt = s.troves[b].debt
  BY BookParts DEF Sound
<1>2. debt >= GasCompensation + MinNetDebt
  BY <1>1 DEF Sound, Indebted
<1>3. GasCompensation \in Nat /\ MinNetDebt \in Nat
  BY Constants
<1>4. debt - GasCompensation \in Nat
  BY <1>2, <1>3
<1>5. PICK lot : lot = Min({remaining, debt - GasCompensation})
  OBVIOUS
<1>6. lot \in {remaining, debt - GasCompensation} /\ lot <= remaining /\ lot <= debt - GasCompensation
  <2>1. PICK x \in Int, y \in Int : x = remaining /\ y = debt - GasCompensation
    BY <1>4
  <2>2. Min({x, y}) \in {x, y} /\ Min({x, y}) <= x /\ Min({x, y}) <= y
    BY MinOfTwo
  <2> QED
    BY <1>5, <2>1, <2>2
<1>7. lot \in Nat /\ debt - lot \in Nat /\ debt - lot >= GasCompensation
  BY <1>3, <1>4, <1>6
<1> QED
  BY <1>1, <1>5, <1>6, <1>7

\* A trove is redeemed from: the debt and the collateral it loses are in the
\* totals of the run.
LEMMA LotKeeps ==
    ASSUME NEW run, RedeemInv(run), NEW s, Sound(s), NEW b \in Borrowers, active(s, b),
           Accounts(s, run.redeemed, 0, run.drawn, NoColl), OnlyTrove(run.books, s, b),
           NEW hint \in BOOLEAN, NEW p \in Bundles, price = p,
           NEW r, r = RedeemLot(run, s, b, hint)
    PROVE  RedeemInv(r) /\ OnlyTrove(run.books, r.books, b)
<1>1. /\ run \in RedeemRecords /\ Sound(run.books)
      /\ Accounts(run.books, run.redeemed, 0, run.drawn, NoColl)
  BY DEF RedeemInv
<1>2. /\ run.remaining \in Nat /\ run.redeemed \in Nat /\ run.drawn \in Bundles
      /\ run.ok \in BOOLEAN /\ run.stopped \in BOOLEAN
  BY <1>1 DEF RedeemRecords
<1>3. PICK debt \in Nat, colls \in Bundles : debt = s.troves[b].debt /\ colls = s.troves[b].colls
  BY BookParts DEF Sound
<1>4. PICK lot \in Nat, newDebt \in Nat :
        /\ lot = Min({run.remaining, debt - GasCompensation})
        /\ lot <= run.remaining /\ newDebt = debt - lot /\ newDebt >= GasCompensation
  BY <1>2, <1>3, LotParts
<1>5. PICK drawn : drawn = Drawn(colls, lot)
  OBVIOUS
<1>6. PICK cancelled \in BOOLEAN :
        cancelled = (newDebt # GasCompensation /\ ~ PartialAllowed(newDebt, hint))
  OBVIOUS
<1>7. OnlyTrove(run.books, run.books, b)
  BY DEF OnlyTrove
<1>8. CASE USD(colls) = 0 \/ \E t \in Tokens : drawn[t] > colls[t]
  <2>1. r = [run EXCEPT !.ok = FALSE]
    BY <1>3, <1>4, <1>5, <1>8 DEF RedeemLot
  <2>2. /\ r \in RedeemRecords /\ r.books = run.books /\ r.redeemed = run.redeemed
        /\ r.drawn = run.drawn
    BY <1>1, <2>1 DEF RedeemRecords
  <2> QED
    BY <1>1, <1>7, <2>2 DEF RedeemInv
<1>9. CASE USD(colls) # 0 /\ ~ (\E t \in Tokens : drawn[t] > colls[t]) /\ cancelled
  <2>1. r = [run EXCEPT !.books = s, !.stopped = TRUE]
    BY <1>3, <1>4, <1>5, <1>6, <1>9 DEF RedeemLot
  <2>2. /\ r \in RedeemRecords /\ r.books = s /\ r.redeemed = run.redeemed
        /\ r.drawn = run.drawn
    BY <1>1, <2>1 DEF RedeemRecords, Sound
  <2> QED
    BY <2>2 DEF RedeemInv
<1>10. CASE USD(colls) # 0 /\ ~ (\E t \in Tokens : drawn[t] > colls[t]) /\ ~ cancelled
  <2>1. drawn \in Bundles
    BY <1>5, <1>10, DrawnBundle
  <2>2. \A t \in Tokens : drawn[t] <= colls[t]
    <3> TAKE t \in Tokens
    <3>1. drawn[t] \in Nat /\ colls[t] \in Nat /\ ~ (drawn[t] > colls[t])
      BY <1>10, <2>1 DEF Bundles
    <3> QED
      BY <3>1
  <2>3. PICK rest \in Bundles : /\ rest = Minus(colls, drawn)
                                /\ \A t \in Tokens : drawn[t] + rest[t] = colls[t]
    BY <2>1, <2>2, RestBundle
  <2>4. newDebt = GasCompensation \/ newDebt >= GasCompensation + MinNetDebt
    <3>1. newDebt = GasCompensation \/ newDebt - GasCompensation >= MinNetDebt
      BY <1>6, <1>10 DEF PartialAllowed
    <3> QED
      BY <3>1, Constants
  <2>5. PICK q : q = AfterRedemption(s, b, newDebt, rest)
    OBVIOUS
  <2>6. PICK d \in Int, d2 \in Int, c \in IntBundles, u \in IntBundles, g \in Int :
          /\ d = run.redeemed /\ d2 = run.redeemed + lot /\ c = run.drawn /\ u = NoColl /\ g = 0
    BY <1>2, BundleOps
  <2>7. d2 = d + s.troves[b].debt - newDebt
    BY <1>2, <1>3, <1>4, <2>6
  <2>8. Accounts(s, d, g, c, u)
    BY <2>6
  <2>9. \A t \in Tokens : drawn[t] + rest[t] = s.troves[b].colls[t]
    BY <1>3, <2>3
  <2>10. Sound(q) /\ OnlyTrove(s, q, b) /\ Accounts(q, d2, g, Plus(c, drawn), u)
    BY <2>1, <2>4, <2>5, <2>7, <2>8, <2>9, AfterRedemptionAccounts
  <2>11. PICK k \in BOOLEAN :
          k = (/\ run.ok
               /\ newDebt = GasCompensation => CanClose(s)
               /\ newDebt # GasCompensation => \A t \in s.troves[b].tokens : CanStake(s, t))
    OBVIOUS
  <2>12. r = [run EXCEPT !.books = q, !.ok = k, !.remaining = run.remaining - lot,
                         !.redeemed = run.redeemed + lot, !.drawn = Plus(run.drawn, drawn)]
    BY <1>3, <1>4, <1>5, <1>6, <1>10, <2>3, <2>5, <2>11 DEF RedeemLot
  <2>13. Plus(run.drawn, drawn) \in Bundles /\ run.remaining - lot \in Nat /\ run.redeemed + lot \in Nat
    BY <1>2, <1>4, <2>1, BundleOps
  <2>14. /\ r \in RedeemRecords /\ r.books = q /\ r.redeemed = run.redeemed + lot
         /\ r.drawn = Plus(run.drawn, drawn)
    <3>1. q \in Books
      BY <2>10 DEF Sound
    <3> QED
      BY <1>1, <2>12, <2>13, <3>1 DEF RedeemRecords
  <2>15. RedeemInv(r)
    BY <2>6, <2>10, <2>14 DEF RedeemInv
  <2>16. OnlyTrove(run.books, q, b)
    BY <2>10 DEF OnlyTrove
  <2> QED
    BY <2>14, <2>15, <2>16
<1> QED
  BY <1>8, <1>9, <1>10

\* A turn of the loop keeps the books in order, and touches one trove only.
LEMMA RedeemTurnKeeps ==
    ASSUME NEW run, RedeemInv(run), NEW b \in Borrowers, active(run.books, b),
           NEW hint \in BOOLEAN, NEW p \in Bundles, price = p,
           NEW r, r = RedeemTurn(hint, run, b)
    PROVE  RedeemInv(r) /\ OnlyTrove(run.books, r.books, b)
<1>1. PICK s : s = ApplyPendingRewards(run.books, b)
  OBVIOUS
<1>2. r \in {run, RedeemLot(run, s, b, hint)}
  BY <1>1 DEF RedeemTurn, RedeemFromTrove
<1>3. CASE r = run
  BY <1>3 DEF OnlyTrove
<1>4. CASE r = RedeemLot(run, s, b, hint)
  <2>1. PICK m : m = run.books
    OBVIOUS
  <2>2. PICK d \in Int, c \in IntBundles, u \in IntBundles, g \in Int :
          d = run.redeemed /\ c = run.drawn /\ u = NoColl /\ g = 0
    BY BundleOps DEF RedeemInv, RedeemRecords
  <2>3. Sound(m) /\ Accounts(m, d, g, c, u)
    BY <2>1, <2>2 DEF RedeemInv
  <2>4. s = ApplyPendingRewards(m, b)
    BY <1>1, <2>1
  <2>5. /\ Sound(s) /\ OnlyTrove(m, s, b) /\ s.troves[b].status = m.troves[b].status
        /\ Accounts(s, d, g, c, u)
    BY <2>3, <2>4, ApplyPendingEffect
  <2>6. active(s, b)
    BY <2>1, <2>5 DEF active
  <2>7. Accounts(s, run.redeemed, 0, run.drawn, NoColl) /\ OnlyTrove(run.books, s, b)
    BY <2>1, <2>2, <2>5
  <2> QED
    BY <1>4, <2>5, <2>6, <2>7, LotKeeps
<1> QED
  BY <1>2, <1>3, <1>4

RedeemStep(p, r, b) == RedeemTurn(p[1], r, b)

RedeemFold == INSTANCE FoldFacts WITH Op <- RedeemStep

\* The loop from any start.
TurnsFrom(p, start, walk) == FoldLeft(LAMBDA run, b : RedeemStep(p, run, b), start, walk)

RedeemIter(p, base, seq, D, it) ==
    it = [s \in SUBSET D |->
            IF s = {} THEN base
            ELSE RedeemStep(p, it[s \ {CHOOSE x \in s : \A y \in s : x >= y}],
                            seq[CHOOSE x \in s : \A y \in s : x >= y])]

\* The fold of a redemption exists.
LEMMA RedeemItersExist ==
    \A p, base, seq, D : \A n \in Nat : D = 1..n => \E it : RedeemIter(p, base, seq, D, it)
BY RedeemFold!FoldsExist DEF RedeemIter

\* It goes through the troves one by one.
LEMMA RedeemIterSteps ==
    \A p, base, seq, it, D : \A n \in Nat :
      D = 1..n /\ RedeemIter(p, base, seq, D, it)
      => \E f : /\ f[0] = base
                /\ \A k \in 1..n : f[k] = RedeemStep(p, f[k - 1], seq[k])
                /\ f[n] = it[D]
BY RedeemFold!FoldSteps DEF RedeemIter

\* The states of the loop of a redemption, turn by turn.
LEMMA RedeemRun ==
    ASSUME NEW s, NEW walk \in Seq(Borrowers), NEW amount, NEW hint
    PROVE  \E f :
              /\ f[0] = [books |-> s, ok |-> TRUE, stopped |-> FALSE, remaining |-> amount,
                         redeemed |-> 0, drawn |-> NoColl]
              /\ \A k \in 1..Len(walk) : f[k] = RedeemTurn(hint, f[k - 1], walk[k])
              /\ f[Len(walk)] = RedemptionRun(s, walk, amount, hint)
<1>1. PICK n \in Nat : n = Len(walk) /\ DOMAIN walk = 1..n
  BY LenProperties
<1>2. PICK p : p = <<hint, 0>>
  OBVIOUS
<1>3. p[1] = hint
  BY <1>2
<1>4. PICK start : start = [books |-> s, ok |-> TRUE, stopped |-> FALSE, remaining |-> amount,
                            redeemed |-> 0, drawn |-> NoColl]
  OBVIOUS
<1>5. \E it : RedeemIter(p, start, walk, DOMAIN walk, it)
  BY <1>1, RedeemItersExist
<1>6. \E g : /\ RedeemIter(p, start, walk, DOMAIN walk, g)
             /\ RedemptionRun(s, walk, amount, p[1]) = g[DOMAIN walk]
  <2>1. RedemptionRun(s, walk, amount, p[1]) = TurnsFrom(p, start, walk)
    BY <1>4 DEF RedemptionRun, TurnsFrom, RedeemStep
  <2>2. \E g : /\ RedeemIter(p, start, walk, DOMAIN walk, g)
               /\ TurnsFrom(p, start, walk) = g[DOMAIN walk]
    BY <1>5 DEF TurnsFrom, RedeemIter, FoldLeft, MapThenFoldSet, Max
  <2> QED
    BY <2>1, <2>2
<1>7. PICK g : /\ RedeemIter(p, start, walk, DOMAIN walk, g)
               /\ RedemptionRun(s, walk, amount, hint) = g[DOMAIN walk]
  BY <1>3, <1>6
<1>8. PICK f : /\ f[0] = start
               /\ \A k \in 1..n : f[k] = RedeemStep(p, f[k - 1], walk[k])
               /\ f[n] = g[DOMAIN walk]
  <2>1. PICK W : W = 1..n /\ W = DOMAIN walk
    BY <1>1
  <2>2. W = 1..n /\ RedeemIter(p, start, walk, W, g)
    BY <1>7, <2>1
  <2>3. \E h : /\ h[0] = start
               /\ \A k \in 1..n : h[k] = RedeemStep(p, h[k - 1], walk[k])
               /\ h[n] = g[W]
    BY <2>2, RedeemIterSteps
  <2> QED
    BY <2>1, <2>3
<1>9. \A k \in 1..n : f[k] = RedeemTurn(hint, f[k - 1], walk[k])
  BY <1>3, <1>8 DEF RedeemStep
<1> QED
  BY <1>1, <1>4, <1>7, <1>8, <1>9

\* A redemption from a list of different active troves keeps the books in order.
LEMMA RedemptionKeeps ==
    ASSUME NEW s, Sound(s), Accounts(s, 0, 0, NoColl, NoColl),
           NEW walk \in Seq(Borrowers), IsInjective(walk),
           \A i \in DOMAIN walk : active(s, walk[i]),
           NEW amount \in Nat, NEW hint \in BOOLEAN, NEW p \in Bundles, price = p
    PROVE  RedeemInv(RedemptionRun(s, walk, amount, hint))
<1>1. PICK n \in Nat : n = Len(walk) /\ DOMAIN walk = 1..n /\ walk \in [1..n -> Borrowers]
  BY LenProperties
<1>2. PICK f : /\ f[0] = [books |-> s, ok |-> TRUE, stopped |-> FALSE, remaining |-> amount,
                         redeemed |-> 0, drawn |-> NoColl]
               /\ \A k \in 1..n : f[k] = RedeemTurn(hint, f[k - 1], walk[k])
               /\ f[n] = RedemptionRun(s, walk, amount, hint)
  BY <1>1, RedeemRun
<1> DEFINE Later(k) == \A i \in 1..n : i > k => active(f[k].books, walk[i])
           G == {k \in 0..n : RedeemInv(f[k]) /\ Later(k)}
<1>3. 0 \in G
  <2>1. PICK start : start = f[0]
    OBVIOUS
  <2>2. start \in RedeemRecords /\ start.books = s /\ start.redeemed = 0 /\ start.drawn = NoColl
    BY <1>2, <2>1, BundleOps DEF RedeemRecords, Sound
  <2>3. RedeemInv(start)
    BY <2>2 DEF RedeemInv
  <2>4. Later(0)
    BY <1>1, <2>1, <2>2
  <2> QED
    BY <1>1, <2>1, <2>3, <2>4
<1>4. ASSUME NEW k \in 1..n, k - 1 \in G PROVE k \in G
  <2>1. PICK run, r : run = f[k - 1] /\ r = f[k]
    OBVIOUS
  <2>2. RedeemInv(run) /\ Later(k - 1)
    BY <1>4, <2>1
  <2>3. PICK b \in Borrowers : b = walk[k]
    BY <1>1
  <2>4. active(run.books, b)
    <3>1. k > k - 1
      OBVIOUS
    <3> QED
      BY <2>1, <2>2, <2>3, <3>1
  <2>5. r = RedeemTurn(hint, run, b)
    BY <1>2, <2>1, <2>3
  <2>6. RedeemInv(r) /\ OnlyTrove(run.books, r.books, b)
    <3> HIDE DEF G, Later
    <3> QED
      BY <2>2, <2>4, <2>5, RedeemTurnKeeps
  <2>7. Later(k)
    <3> SUFFICES ASSUME NEW i \in 1..n, i > k
                 PROVE  active(f[k].books, walk[i])
      OBVIOUS
    <3>1. walk[i] # b /\ walk[i] \in Borrowers
      <4>1. i # k /\ i \in DOMAIN walk /\ k \in DOMAIN walk
        BY <1>1
      <4>2. walk[i] # walk[k]
        BY <4>1 DEF IsInjective
      <4> QED
        BY <1>1, <2>3, <4>2
    <3>2. i > k - 1
      OBVIOUS
    <3>3. active(run.books, walk[i])
      BY <2>1, <2>2, <3>2
    <3> QED
      BY <2>1, <2>6, <3>1, <3>3 DEF OnlyTrove, active
  <2> QED
    BY <2>1, <2>6, <2>7
<1>5. n \in G
  <2> HIDE DEF G
  <2> QED
    BY <1>3, <1>4, Reaches
<1> QED
  BY <1>2, <1>5

\* What is redeemed is paid out: nothing is on its way any more.
LEMMA PaidOut ==
    ASSUME NEW run, RedeemInv(run),
           NEW q, q = PayOut(run.books, run.redeemed, run.drawn)
    PROVE  Sound(q) /\ Accounts(q, 0, 0, NoColl, NoColl)
<1>1. PICK s : s = run.books
  OBVIOUS
<1>2. PICK d \in Int, colls \in Bundles : d = run.redeemed /\ colls = run.drawn
  BY DEF RedeemInv, RedeemRecords
<1>3. PICK c \in IntBundles, u \in IntBundles, g \in Int, z \in IntBundles :
        c = colls /\ u = NoColl /\ g = 0 /\ z = Minus(c, colls)
  BY BundleOps
<1>4. Sound(s) /\ Accounts(s, d, g, c, u)
  BY <1>1, <1>2, <1>3 DEF RedeemInv
<1>5. q = PayOut(s, d, colls)
  BY <1>1, <1>2
<1>6. Sound(q) /\ Accounts(q, d - d, g, Minus(c, colls), u)
  BY <1>4, <1>5, PayOutAccounts
<1>7. d - d = 0
  OBVIOUS
<1>8. \A t \in Tokens : u[t] <= z[t] /\ u[t] = u[t]
  <2> TAKE t \in Tokens
  <2>1. z[t] = c[t] - colls[t] /\ c[t] = colls[t] /\ colls[t] \in Nat /\ u[t] = 0
    BY <1>3, BundleOps DEF Bundles
  <2> QED
    BY <2>1
<1>9. Accounts(q, 0, g, z, u)
  BY <1>3, <1>6, <1>7
<1>10. Accounts(q, 0, g, u, u)
  <2>1. q \in Books
    BY <1>6 DEF Sound
  <2> QED
    BY <1>8, <1>9, <2>1, AccountsSame
<1> QED
  BY <1>3, <1>6, <1>10

-----------------------------------------------------------------------------
(* Between transactions nothing is on its way.                             *)

InOrder(s) == Sound(s) /\ Accounts(s, 0, 0, NoColl, NoColl)

\* Accounts are of the amounts, and anything may still be on its way that is nothing.
LEMMA Settles ==
    ASSUME NEW s, Sound(s), NEW d, d = 0, NEW g, g = 0, NEW c \in IntBundles, NEW u \in IntBundles,
           Accounts(s, d, g, c, u), \A t \in Tokens : c[t] >= 0 /\ u[t] = 0
    PROVE  InOrder(s)
<1>1. PICK z \in IntBundles : z = NoColl
  BY BundleOps
<1>2. \A t \in Tokens : z[t] <= c[t] /\ z[t] = u[t]
  <2> TAKE t \in Tokens
  <2>1. z[t] = 0 /\ c[t] \in Int
    BY <1>1, BundleOps DEF IntBundles
  <2> QED
    BY <2>1
<1>3. s \in Books
  BY DEF Sound
<1>4. Accounts(s, d, g, z, z)
  BY <1>2, <1>3, AccountsSame
<1> QED
  BY <1>1, <1>4 DEF InOrder

\* Books in order, with the amounts of nothing given names.
LEMMA Nothing ==
    ASSUME NEW s, InOrder(s)
    PROVE  /\ Sound(s) /\ s \in Books
           /\ \E d \in Int, g \in Int, c \in IntBundles, u \in IntBundles :
                 d = 0 /\ g = 0 /\ c = NoColl /\ u = NoColl /\ Accounts(s, d, g, c, u)
BY BundleOps DEF InOrder, Sound

\* Books are committed as they are.
LEMMA Committed ==
    ASSUME NEW q, q \in Books, Commit(q)
    PROVE  books' = q /\ NoUnderflow(q)
BY DEF Commit, books, Books

-----------------------------------------------------------------------------
(* Redemption of one collateral of one trove.                              *)

\* The smallest of three numbers.
LEMMA MinOfThree ==
    ASSUME NEW a \in Int, NEW b \in Int, NEW c \in Int
    PROVE  /\ Min({a, b, c}) \in {a, b, c}
           /\ Min({a, b, c}) <= a /\ Min({a, b, c}) <= b /\ Min({a, b, c}) <= c
<1>1. \E x \in {a, b, c} : \A y \in {a, b, c} : x <= y
  <2>1. CASE a <= b /\ a <= c
    BY <2>1
  <2>2. CASE b <= a /\ b <= c
    BY <2>2
  <2>3. CASE c <= a /\ c <= b
    BY <2>3
  <2> QED
    BY <2>1, <2>2, <2>3
<1>2. Min({a, b, c}) \in {a, b, c} /\ \A y \in {a, b, c} : Min({a, b, c}) <= y
  BY <1>1 DEF Min
<1> QED
  BY <1>2

\* A bundle of one token only.
LEMMA OnlyBundle ==
    ASSUME NEW t \in Tokens, NEW amount \in Nat
    PROVE  /\ Only(t, amount) \in Bundles /\ Only(t, amount)[t] = amount
           /\ \A x \in Tokens : x # t => Only(t, amount)[x] = 0
BY DEF Only, NoColl, Bundles

\* What one collateral of a trove gives for a lot that is worth no more.
LEMMA SingleDrawn ==
    ASSUME NEW colls \in Bundles, NEW t \in Tokens, NEW lot \in Nat, NEW value \in Nat \ {0},
           lot <= value, NEW drawn, drawn = Only(t, (lot * colls[t]) \div value)
    PROVE  drawn \in Bundles /\ \A x \in Tokens : drawn[x] <= colls[x]
<1>1. \A x \in Tokens : colls[x] \in Nat
  BY DEF Bundles
<1>2. PICK k \in Nat : k = colls[t]
  BY <1>1
<1>3. lot * k \in Nat /\ lot * k <= k * value
  <2>1. k * lot <= k * value
    BY TimesMonotone
  <2>2. k * lot = lot * k /\ k * lot \in Nat
    BY NatProduct
  <2> QED
    BY <2>1, <2>2
<1>4. PICK m \in Nat : m = (lot * k) \div value
  BY <1>3, QuotientNat
<1>5. m <= k
  BY <1>3, <1>4, QuotientAtMost
<1>6. drawn = Only(t, m)
  BY <1>2, <1>4
<1>7. drawn \in Bundles /\ drawn[t] = m /\ \A x \in Tokens : x # t => drawn[x] = 0
  BY <1>6, OnlyBundle
<1>8. \A x \in Tokens : drawn[x] <= colls[x]
  <2> TAKE x \in Tokens
  <2>1. CASE x = t
    BY <1>2, <1>5, <1>7, <2>1
  <2>2. CASE x # t
    BY <1>1, <1>7, <2>2
  <2> QED
    BY <2>1, <2>2
<1> QED
  BY <1>7, <1>8

\* The result of a redemption of one collateral is in order.
LEMMA RedeemTokenKeeps ==
    ASSUME NEW s, InOrder(s), NEW b \in Borrowers, active(s, b), NEW tok \in Tokens,
           NEW amount \in Nat, NEW hint \in BOOLEAN, NEW p \in Bundles, price = p,
           RedeemToken(s, b, tok, amount, hint)
    PROVE  \E q : InOrder(q) /\ Commit(q)
<1>1. Sound(s) /\ s \in Books
  BY DEF InOrder, Sound
<1>2. PICK debt \in Nat, colls \in Bundles : debt = s.troves[b].debt /\ colls = s.troves[b].colls
  BY <1>1, BookParts
<1>3. debt >= GasCompensation + MinNetDebt
  BY <1>1, <1>2 DEF Sound, Indebted
<1>4. GasCompensation \in Nat /\ MinNetDebt \in Nat
  BY Constants
<1>5. PICK value \in Nat \ {0} : value = colls[tok] * p[tok]
  <2>1. colls[tok] \in Nat /\ p[tok] \in Nat
    BY DEF Bundles
  <2>2. colls[tok] * p[tok] \in Nat
    BY <2>1, NatProduct
  <2>3. s.troves[b].colls[tok] * price[tok] # 0
    BY DEF RedeemToken
  <2> QED
    BY <1>2, <2>2, <2>3
<1>6. PICK most \in Nat : most = debt - GasCompensation
  BY <1>3, <1>4
<1>7. PICK lot : lot = Min({amount, most, value})
  OBVIOUS
<1>8. lot \in Nat /\ lot <= most /\ lot <= value
  <2>1. amount \in Int /\ most \in Int /\ value \in Int
    OBVIOUS
  <2>2. /\ Min({amount, most, value}) \in {amount, most, value}
        /\ Min({amount, most, value}) <= most /\ Min({amount, most, value}) <= value
    BY <2>1, MinOfThree
  <2>3. lot \in {amount, most, value} /\ lot <= most /\ lot <= value
    BY <1>7, <2>2
  <2> QED
    BY <2>3
<1>9. PICK newDebt \in Nat : newDebt = debt - lot
  BY <1>4, <1>6, <1>8
<1>10. PICK drawn : drawn = Only(tok, (lot * colls[tok]) \div value)
  OBVIOUS
<1>11. drawn \in Bundles /\ \A t \in Tokens : drawn[t] <= colls[t]
  BY <1>8, <1>10, SingleDrawn
<1>12. PICK rest \in Bundles : /\ rest = Minus(colls, drawn)
                               /\ \A t \in Tokens : drawn[t] + rest[t] = colls[t]
  BY <1>11, RestBundle
<1>13. PICK m : m = AfterRedemption(s, b, newDebt, rest)
  OBVIOUS
<1>14. PICK q : q = PayOut(m, lot, drawn)
  OBVIOUS
<1>15. /\ newDebt # GasCompensation => PartialAllowed(newDebt, hint)
       /\ Commit(q)
  BY <1>2, <1>5, <1>6, <1>7, <1>9, <1>10, <1>12, <1>13, <1>14 DEF RedeemToken
<1>16. newDebt = GasCompensation \/ newDebt >= GasCompensation + MinNetDebt
  <2>1. newDebt # GasCompensation => newDebt - GasCompensation >= MinNetDebt
    BY <1>15 DEF PartialAllowed
  <2> QED
    BY <1>4, <2>1
<1>17. PICK d \in Int, g \in Int, c \in IntBundles, u \in IntBundles :
         d = 0 /\ g = 0 /\ c = NoColl /\ u = NoColl /\ Accounts(s, d, g, c, u)
  BY Nothing
<1>18. PICK d2 \in Int : d2 = d + s.troves[b].debt - newDebt /\ d2 = lot
  BY <1>2, <1>8, <1>9, <1>17
<1>19. \A t \in Tokens : drawn[t] + rest[t] = s.troves[b].colls[t]
  BY <1>2, <1>12
<1>20. Sound(m) /\ Accounts(m, d2, g, Plus(c, drawn), u)
  <2>1. d2 = d + s.troves[b].debt - newDebt
    BY <1>18
  <2>2. Accounts(s, d, g, c, u)
    BY <1>17
  <2> QED
    BY <1>1, <1>11, <1>13, <1>16, <1>19, <2>1, <2>2, AfterRedemptionAccounts
<1>21. PICK c2 \in IntBundles, c3 \in IntBundles : c2 = Plus(c, drawn) /\ c3 = Minus(c2, drawn)
  BY <1>11, BundleOps
<1>22. Sound(q) /\ Accounts(q, d2 - lot, g, c3, u)
  <2>1. Accounts(m, d2, g, c2, u)
    BY <1>20, <1>21
  <2>2. lot \in Int
    BY <1>8
  <2>3. Sound(q) /\ Accounts(q, d2 - lot, g, Minus(c2, drawn), u)
    BY <1>11, <1>14, <1>20, <2>1, <2>2, PayOutAccounts
  <2> QED
    BY <1>21, <2>3
<1>23. d2 - lot = 0
  BY <1>8, <1>18
<1>24. \A t \in Tokens : c3[t] >= 0 /\ u[t] = 0
  <2> TAKE t \in Tokens
  <2>1. c3[t] = c2[t] - drawn[t] /\ c2[t] = c[t] + drawn[t] /\ c[t] = 0 /\ u[t] = 0
    BY <1>17, <1>21, BundleOps
  <2>2. drawn[t] \in Nat
    BY <1>11 DEF Bundles
  <2> QED
    BY <2>1, <2>2
<1>25. InOrder(q)
  BY <1>17, <1>22, <1>23, <1>24, Settles
<1> QED
  BY <1>15, <1>25

-----------------------------------------------------------------------------
(* Surplus collateral is claimed.                                          *)

\* The books after an account is paid.
ClaimedFrom(s, b, due) ==
    [s EXCEPT !.pools.surplusOf[b] = NoColl, !.pools.surplusColl = Minus(@, due)]

\* What is owed to one account leaves with it.
LEMMA ClaimKeeps ==
    ASSUME NEW s, InOrder(s), NEW b \in Borrowers, NEW due, due = s.pools.surplusOf[b],
           NEW r, r = ClaimedFrom(s, b, due)
    PROVE  InOrder(r)
<1>1. Sound(s) /\ s \in Books
  BY DEF InOrder, Sound
<1>2. PICK k \in Bundles : k = NoColl
  BY BundleOps
<1>3. due \in Bundles /\ s.pools.surplusColl \in IntBundles
  BY <1>1, BookParts
<1>4. PICK su \in IntBundles : su = Minus(s.pools.surplusColl, due)
  BY <1>3, BundleOps
<1>5. PICK K : K = [s.pools.surplusOf EXCEPT ![b] = k]
  OBVIOUS
<1>6. K \in [Borrowers -> Bundles] /\ K[b] = k /\ \A x \in Borrowers : x # b => K[x] = s.pools.surplusOf[x]
  <2>1. s.pools.surplusOf \in [Borrowers -> Bundles]
    BY <1>1, BookParts DEF PoolRecords
  <2> QED
    BY <1>5, <2>1
<1>7. PICK P : P = [s.pools EXCEPT !.surplusOf = K, !.surplusColl = su]
  OBVIOUS
<1>8. /\ P \in PoolRecords /\ P.surplusOf = K /\ P.surplusColl = su
      /\ P.activeDebt = s.pools.activeDebt /\ P.defaultDebt = s.pools.defaultDebt
      /\ P.activeColl = s.pools.activeColl
  <2>1. s.pools \in PoolRecords
    BY <1>1, BookParts
  <2> QED
    BY <1>6, <1>7, <2>1 DEF PoolRecords
<1>9. r = WithPools(s, P, s.star)
  BY <1>1, <1>2, <1>4, <1>5, <1>7 DEF ClaimedFrom, WithPools, Books, PoolRecords
<1>10. r \in Books /\ r.troves = s.troves /\ r.terms = s.terms /\ r.pools = P /\ r.star = s.star
  <2>1. PICK S \in StarRecords : S = s.star
    BY <1>1, BookParts
  <2>2. r = WithPools(s, P, S)
    BY <1>9, <2>1
  <2>3. P \in PoolRecords
    BY <1>8
  <2>4. r \in Books /\ r.troves = s.troves /\ r.terms = s.terms /\ r.pools = P /\ r.star = S
    BY <1>1, <2>2, <2>3, PoolsReplaced
  <2> QED
    BY <2>1, <2>4
<1>11. \A t \in Tokens : SurplusSum(r, t) = SurplusSum(s, t) - s.pools.surplusOf[b][t] + r.pools.surplusOf[b][t]
  BY <1>1, <1>6, <1>8, <1>10, OneSurplus
<1>12. PICK d \in Int, g \in Int, c \in IntBundles, u \in IntBundles :
         d = 0 /\ g = 0 /\ c = NoColl /\ u = NoColl /\ Accounts(s, d, g, c, u)
  BY Nothing
<1>13. DebtAgrees(s, d) /\ GasAgrees(s, g) /\ CollAgrees(s, c) /\ SurplusAgrees(s, u) /\ Backed(s)
  BY <1>12 DEF Accounts
<1>14. DebtAgrees(r, d) /\ GasAgrees(r, g) /\ CollAgrees(r, c) /\ Backed(r)
  BY <1>8, <1>10, <1>13, SameSums DEF DebtAgrees, GasAgrees, CollAgrees, Backed
<1>15. SurplusAgrees(r, u)
  <2> SUFFICES ASSUME NEW t \in Tokens
               PROVE  r.pools.surplusColl[t] + u[t] = SurplusSum(r, t)
    BY DEF SurplusAgrees
  <2>1. /\ su[t] = s.pools.surplusColl[t] - due[t] /\ k[t] = 0
        /\ r.pools.surplusOf[b][t] = k[t] /\ r.pools.surplusColl[t] = su[t]
    BY <1>2, <1>4, <1>6, <1>8, <1>10, BundleOps
  <2>2. /\ u[t] \in Int /\ due[t] \in Int
        /\ s.pools.surplusColl[t] \in Int /\ SurplusSum(s, t) \in Int
    BY <1>1, <1>3, SumsNat DEF Bundles, IntBundles
  <2> QED
    BY <1>11, <1>13, <2>1, <2>2 DEF SurplusAgrees
<1>16. Sound(r)
  BY <1>1, <1>10, SoundOfTroves
<1>17. Accounts(r, d, g, c, u)
  BY <1>14, <1>15 DEF Accounts
<1> QED
  BY <1>12, <1>16, <1>17 DEF InOrder

-----------------------------------------------------------------------------
(* The borrower's operations.                                              *)

\* The halves of a fee that are minted are not more than the fee.
LEMMA FeeMintedAtMost ==
    ASSUME NEW fee \in Nat
    PROVE  FeeMinted(fee) \in Nat /\ FeeMinted(fee) <= fee
<1>1. PICK k \in Nat : k = fee \div 2
  BY QuotientNat
<1>2. k * 2 <= fee
  BY <1>1, QuotientBounds
<1> QED
  BY <1>1, <1>2 DEF FeeMinted

\* The first step of an adjustment.
DebtChanged(s, b, x) == [s EXCEPT !.troves[b].debt = @ + x]

\* What is paid in and out, token by token.
LEMMA InAndOut ==
    ASSUME NEW c \in IntBundles, NEW i \in IntBundles, NEW o \in IntBundles
    PROVE  \A t \in Tokens : Minus(Plus(c, i), o)[t] = c[t] + i[t] - o[t]
<1> TAKE t \in Tokens
<1>1. PICK m : m = Plus(c, i)
  OBVIOUS
<1>2. m[t] = c[t] + i[t] /\ Minus(m, o)[t] = m[t] - o[t]
  BY <1>1, BundleOps
<1>3. c[t] \in Int /\ i[t] \in Int /\ o[t] \in Int
  BY DEF IntBundles
<1> QED
  BY <1>1, <1>2, <1>3

\* A trove that was not active is entered: what is lent and paid in balances it.
LEMMA OpenKeeps ==
    ASSUME NEW s, InOrder(s), NEW b \in Borrowers, ~ active(s, b), NEW colls \in Bundles,
           NEW debt \in Int, debt >= GasCompensation + MinNetDebt,
           NEW minted \in Int, minted <= debt,
           NEW e, e = EnterTrove(s, b, colls, debt),
           NEW q, q = OpeningPaid(e, colls, debt, minted)
    PROVE  InOrder(q)
<1>0. debt \in Nat
  BY Constants
<1>1. Sound(s) /\ s \in Books
  BY DEF InOrder, Sound
<1>2. PICK old \in Bundles, tokens \in SUBSET Tokens : old = s.troves[b].colls /\ tokens = HeldIn(colls)
  BY <1>1, BookParts DEF HeldIn
<1>3. s.troves[b].debt = 0
  BY <1>1 DEF Sound, Indebted
<1>4. PICK R : R = TroveWith(s, b, "active", debt, old)
  OBVIOUS
<1>5. PICK m : m = WithTrove(s, b, R)
  OBVIOUS
<1>6. m = [s EXCEPT !.troves[b].status = "active", !.troves[b].debt = @ + debt]
  <2>1. PICK Q \in TroveRecords : Q = s.troves[b]
    BY <1>1, BookParts
  <2>2. Q.debt + debt = debt /\ Q.colls = old
    BY <1>0, <1>2, <1>3, <2>1
  <2>3. R = [Q EXCEPT !.status = "active", !.debt = debt]
    BY <1>4, <2>1, <2>2 DEF TroveWith, TroveRecords
  <2>4. s.troves \in [Borrowers -> TroveRecords]
    BY <1>1, BookParts
  <2> QED
    BY <1>1, <1>5, <2>1, <2>2, <2>3, <2>4 DEF WithTrove, Books, TroveRecords
<1>7. /\ Sound(m) /\ OnlyTrove(s, m, b) /\ m.pools = s.pools /\ m.star = s.star
      /\ m.troves[b].status = "active" /\ m.troves[b].debt = debt
  BY <1>0, <1>1, <1>4, <1>5, TroveActivated
<1>8. PICK n : n = SetCollAndStake(m, b, tokens, colls)
  OBVIOUS
<1>9. /\ Sound(n) /\ OnlyTrove(m, n, b) /\ n.pools = m.pools /\ n.star = m.star
      /\ n.troves[b].status = m.troves[b].status /\ n.troves[b].debt = m.troves[b].debt
      /\ n.troves[b].colls = colls
  BY <1>7, <1>8, SetCollAndStakeEffect
<1>10. e = UpdateRewardSnapshots(n, b)
  BY <1>2, <1>6, <1>8 DEF EnterTrove
<1>11. /\ Sound(e) /\ OnlyTrove(n, e, b) /\ e.pools = n.pools /\ e.star = n.star
       /\ e.troves[b].status = n.troves[b].status /\ e.troves[b].debt = n.troves[b].debt
       /\ e.troves[b].colls = n.troves[b].colls
  BY <1>9, <1>10, UpdateRewardSnapshotsEffect
<1>12. OnlyTrove(s, e, b) /\ active(e, b) /\ e.pools = s.pools /\ e.star = s.star
  BY <1>7, <1>9, <1>11 DEF OnlyTrove, active
<1>13. PICK d \in Int, g \in Int, c \in IntBundles, u \in IntBundles :
         d = 0 /\ g = 0 /\ c = NoColl /\ u = NoColl /\ Accounts(s, d, g, c, u)
  BY Nothing
<1>14. PICK d2 \in Int, g2 \in Int, c2 \in IntBundles, c3 \in IntBundles :
         /\ d2 = -debt /\ g2 = -GasCompensation /\ c2 = Minus(old, colls) /\ c3 = Plus(c2, colls)
  <2>1. -debt \in Int /\ -GasCompensation \in Int
    BY Constants
  <2>2. Minus(old, colls) \in IntBundles /\ colls \in IntBundles
    BY BundleOps
  <2>3. Plus(Minus(old, colls), colls) \in IntBundles
    BY <2>2, BundleOps
  <2> QED
    BY <2>1, <2>2, <2>3
<1>15. TroveMoved(s, e, b, d, g, c, d2, g2, c2)
  <2>1. d2 = d + s.troves[b].debt - e.troves[b].debt
    BY <1>3, <1>7, <1>9, <1>11, <1>13, <1>14
  <2>2. g2 = IF active(s, b) THEN g ELSE g - GasCompensation
    BY <1>13, <1>14, Constants
  <2>3. ASSUME NEW t \in Tokens
        PROVE  c2[t] = c[t] + s.troves[b].colls[t] - e.troves[b].colls[t]
    <3>1. c2[t] = old[t] - colls[t] /\ c[t] = 0
      BY <1>13, <1>14, BundleOps
    <3>2. old[t] \in Nat /\ colls[t] \in Nat
      BY DEF Bundles
    <3> QED
      BY <1>2, <1>9, <1>11, <3>1, <3>2
  <2> QED
    BY <2>1, <2>2, <2>3 DEF TroveMoved
<1>16. Accounts(e, d2, g2, c2, u)
  <2>1. Accounts(s, d, g, c, u)
    BY <1>13
  <2> QED
    BY <1>1, <1>11, <1>12, <1>15, <2>1, TroveAccounts
<1>17. Sound(q) /\ Accounts(q, d2 + debt, g2 + GasCompensation, c3, u)
  <2>2. Sound(e)
    BY <1>11
  <2>3. Sound(q) /\ Accounts(q, d2 + debt, g2 + GasCompensation, Plus(c2, colls), u)
    <3>1. d2 \in Int /\ g2 \in Int /\ c2 \in IntBundles
      BY <1>14
    <3> QED
      BY <1>16, <2>2, <3>1, OpeningLent
  <2> QED
    BY <1>14, <2>3
<1>18. d2 + debt = 0 /\ g2 + GasCompensation = 0
  BY <1>14, Constants
<1>19. \A t \in Tokens : c3[t] >= 0 /\ u[t] = 0
  <2> TAKE t \in Tokens
  <2>1. c3[t] = c2[t] + colls[t] /\ c2[t] = old[t] - colls[t] /\ u[t] = 0
    BY <1>13, <1>14, BundleOps
  <2>2. old[t] \in Nat /\ colls[t] \in Nat
    BY DEF Bundles
  <2> QED
    BY <2>1, <2>2
<1> QED
  BY <1>17, <1>18, <1>19, Settles

\* An active trove is adjusted: what is lent and paid in or out balances it.
LEMMA AdjustKeeps ==
    ASSUME NEW s, InOrder(s), NEW b \in Borrowers, active(s, b),
           NEW debt \in Nat, debt = s.troves[b].debt, NEW x \in Int,
           debt + x >= GasCompensation + MinNetDebt, NEW minted \in Int, minted <= x,
           NEW tokens \in SUBSET Tokens, NEW old \in Bundles, old = s.troves[b].colls,
           NEW collsIn \in Bundles, NEW collsOut \in Bundles,
           NEW colls \in Bundles,
           \A t \in Tokens : colls[t] = old[t] + collsIn[t] - collsOut[t],
           NEW n, n = SetCollAndStake(DebtChanged(s, b, x), b, tokens, colls),
           NEW q, q = AdjustmentPaid(n, collsIn, collsOut, x, minted)
    PROVE  InOrder(q)
<1>1. Sound(s) /\ s \in Books
  BY DEF InOrder, Sound
<1>2. PICK newDebt \in Nat : newDebt = debt + x
  BY Constants
<1>3. newDebt >= GasCompensation + MinNetDebt
  BY <1>2
<1>4. PICK R : R = TroveWith(s, b, "active", newDebt, old)
  OBVIOUS
<1>5. PICK m : m = WithTrove(s, b, R)
  OBVIOUS
<1>6. m = DebtChanged(s, b, x)
  <2>1. PICK Q \in TroveRecords : Q = s.troves[b]
    BY <1>1, BookParts
  <2>2. Q.debt + x = newDebt /\ Q.colls = old /\ Q.status = "active"
    BY <1>2, <2>1 DEF active
  <2>3. R = [Q EXCEPT !.debt = newDebt]
    BY <1>4, <2>1, <2>2 DEF TroveWith, TroveRecords
  <2>4. s.troves \in [Borrowers -> TroveRecords]
    BY <1>1, BookParts
  <2> QED
    BY <1>1, <1>5, <2>1, <2>2, <2>3, <2>4 DEF DebtChanged, WithTrove, Books, TroveRecords
<1>7. /\ Sound(m) /\ OnlyTrove(s, m, b) /\ m.pools = s.pools /\ m.star = s.star
      /\ m.troves[b].status = "active" /\ m.troves[b].debt = newDebt
  BY <1>1, <1>3, <1>4, <1>5, TroveActivated
<1>8. /\ Sound(n) /\ OnlyTrove(m, n, b) /\ n.pools = m.pools /\ n.star = m.star
      /\ n.troves[b].status = m.troves[b].status /\ n.troves[b].debt = m.troves[b].debt
      /\ n.troves[b].colls = colls
  <2>1. n = SetCollAndStake(m, b, tokens, colls)
    BY <1>6
  <2> QED
    BY <1>7, <2>1, SetCollAndStakeEffect
<1>9. OnlyTrove(s, n, b) /\ active(n, b) /\ n.pools = s.pools /\ n.star = s.star
  BY <1>7, <1>8 DEF OnlyTrove, active
<1>10. PICK d \in Int, g \in Int, c \in IntBundles, u \in IntBundles :
         d = 0 /\ g = 0 /\ c = NoColl /\ u = NoColl /\ Accounts(s, d, g, c, u)
  BY Nothing
<1>11. PICK d2 \in Int, c2 \in IntBundles, c3 \in IntBundles :
         /\ d2 = -x /\ c2 = Minus(old, colls) /\ c3 = Minus(Plus(c2, collsIn), collsOut)
  <2>1. Minus(old, colls) \in IntBundles /\ collsIn \in IntBundles /\ collsOut \in IntBundles
    BY BundleOps
  <2>2. Plus(Minus(old, colls), collsIn) \in IntBundles
    BY <2>1, BundleOps
  <2>3. Minus(Plus(Minus(old, colls), collsIn), collsOut) \in IntBundles
    BY <2>1, <2>2, BundleOps
  <2> QED
    BY <2>1, <2>3
<1>12. TroveMoved(s, n, b, d, g, c, d2, g, c2)
  <2>1. d2 = d + s.troves[b].debt - n.troves[b].debt
    BY <1>2, <1>7, <1>8, <1>10, <1>11
  <2>2. g = IF active(s, b) THEN g ELSE g - GasCompensation
    OBVIOUS
  <2>3. ASSUME NEW t \in Tokens
        PROVE  c2[t] = c[t] + s.troves[b].colls[t] - n.troves[b].colls[t]
    <3>1. c2[t] = old[t] - colls[t] /\ c[t] = 0
      BY <1>10, <1>11, BundleOps
    <3>2. old[t] \in Nat /\ colls[t] \in Nat
      BY DEF Bundles
    <3> QED
      BY <1>8, <3>1, <3>2
  <2> QED
    BY <2>1, <2>2, <2>3 DEF TroveMoved
<1>13. Accounts(n, d2, g, c2, u)
  <2>1. Accounts(s, d, g, c, u)
    BY <1>10
  <2>2. Sound(n)
    BY <1>8
  <2> QED
    BY <1>1, <1>9, <1>12, <2>1, <2>2, TroveAccounts
<1>14. Sound(q) /\ Accounts(q, d2 + x, g, c3, u)
  <2>1. Sound(n)
    BY <1>8
  <2>2. Sound(q) /\ Accounts(q, d2 + x, g, Minus(Plus(c2, collsIn), collsOut), u)
    <3>1. d2 \in Int /\ c2 \in IntBundles
      BY <1>11
    <3> QED
      BY <1>13, <2>1, <3>1, AdjustmentLent
  <2> QED
    BY <1>11, <2>2
<1>15. d2 + x = 0
  BY <1>11
<1>16. \A t \in Tokens : c3[t] >= 0 /\ u[t] = 0
  <2> TAKE t \in Tokens
  <2>1. c3[t] = c2[t] + collsIn[t] - collsOut[t]
    <3>1. collsIn \in IntBundles /\ collsOut \in IntBundles
      BY BundleOps
    <3>2. Minus(Plus(c2, collsIn), collsOut)[t] = c2[t] + collsIn[t] - collsOut[t]
      BY <3>1, InAndOut
    <3> QED
      BY <1>11, <3>2
  <2>2. c2[t] = old[t] - colls[t] /\ colls[t] = old[t] + collsIn[t] - collsOut[t] /\ u[t] = 0
    <3>1. c2[t] = old[t] - colls[t] /\ u[t] = 0
      BY <1>10, <1>11, BundleOps
    <3>2. colls[t] = old[t] + collsIn[t] - collsOut[t]
      OBVIOUS
    <3> QED
      BY <3>1, <3>2
  <2>3. old[t] \in Nat /\ collsIn[t] \in Nat /\ collsOut[t] \in Nat
    BY DEF Bundles
  <2> QED
    BY <2>1, <2>2, <2>3
<1> QED
  BY <1>10, <1>14, <1>15, <1>16, Settles

\* An active trove is closed by its owner, who pays the debt and takes the collateral.
LEMMA OwnerCloseKeeps ==
    ASSUME NEW s, InOrder(s), NEW b \in Borrowers, active(s, b),
           NEW debt \in Int, debt = s.troves[b].debt,
           NEW colls \in Bundles, colls = s.troves[b].colls,
           NEW k, k = CloseTroveAs(RemoveStake(s, b), b, "closedByOwner"),
           NEW q, q = OwnerPaid(k, debt, colls)
    PROVE  InOrder(q)
<1>1. Sound(s) /\ s \in Books
  BY DEF InOrder, Sound
<1>2. PICK d \in Int, g \in Int, c \in IntBundles, u \in IntBundles :
         d = 0 /\ g = 0 /\ c = NoColl /\ u = NoColl /\ Accounts(s, d, g, c, u)
  BY Nothing
<1>3. PICK d1 \in Int, g1 \in Int, c1 \in IntBundles, c2 \in IntBundles :
        /\ d1 = d + debt /\ g1 = g + GasCompensation /\ c1 = Plus(c, colls) /\ c2 = Minus(c1, colls)
  <2>1. d + debt \in Int /\ g + GasCompensation \in Int
    BY Constants
  <2>2. colls \in IntBundles
    BY BundleOps
  <2>3. Plus(c, colls) \in IntBundles
    BY <2>2, BundleOps
  <2>4. Minus(Plus(c, colls), colls) \in IntBundles
    BY <2>2, <2>3, BundleOps
  <2> QED
    BY <2>1, <2>3, <2>4
<1>4. Sound(k) /\ Accounts(k, d1, g1, c1, u)
  <2>1. "closedByOwner" \in Closings
    BY DEF Closings
  <2>2. Accounts(s, d, g, c, u)
    BY <1>2
  <2>3. Sound(k) /\ Accounts(k, d + s.troves[b].debt, g + GasCompensation, Plus(c, s.troves[b].colls), u)
    BY <1>1, <2>1, <2>2, CloseAccounts
  <2> QED
    BY <1>3, <2>3
<1>5. Sound(q) /\ Accounts(q, d1 - debt, g1 - GasCompensation, c2, u)
  <2>2. Sound(q) /\ Accounts(q, d1 - debt, g1 - GasCompensation, Minus(c1, colls), u)
    <3>1. d1 \in Int /\ g1 \in Int /\ c1 \in IntBundles
      BY <1>3
    <3> QED
      BY <1>4, <3>1, OwnerPays
  <2> QED
    BY <1>3, <2>2
<1>6. d1 - debt = 0 /\ g1 - GasCompensation = 0
  BY <1>2, <1>3, Constants
<1>7. \A t \in Tokens : c2[t] >= 0 /\ u[t] = 0
  <2> TAKE t \in Tokens
  <2>1. c2[t] = c1[t] - colls[t] /\ c1[t] = c[t] + colls[t] /\ c[t] = 0 /\ u[t] = 0
    BY <1>2, <1>3, BundleOps
  <2>2. colls[t] \in Nat
    BY DEF Bundles
  <2> QED
    BY <2>1, <2>2
<1> QED
  BY <1>5, <1>6, <1>7, Settles

\* STAR enters or leaves the StabilityPool.
LEMMA StabilityKeeps ==
    ASSUME NEW s, InOrder(s), NEW amount \in Int,
           NEW r, r = [s EXCEPT !.star.stabilityPool = @ + amount]
    PROVE  InOrder(r)
<1>1. PICK d \in Int, g \in Int, c \in IntBundles, u \in IntBundles :
         d = 0 /\ g = 0 /\ c = NoColl /\ u = NoColl /\ Accounts(s, d, g, c, u)
  BY Nothing
<1>2. Sound(s) /\ Accounts(s, d, g, c, u)
  BY <1>1 DEF InOrder
<1>3. Sound(r) /\ Accounts(r, d, g, c, u)
  BY <1>2, StabilityPoolPaid
<1> QED
  BY <1>1, <1>3 DEF InOrder

\* Pending rewards are applied.
LEMMA AppliedKeeps ==
    ASSUME NEW s, InOrder(s), NEW b \in Borrowers, NEW r, r = ApplyPendingRewards(s, b)
    PROVE  InOrder(r) /\ (active(r, b) <=> active(s, b))
<1>1. PICK d \in Int, g \in Int, c \in IntBundles, u \in IntBundles :
         d = 0 /\ g = 0 /\ c = NoColl /\ u = NoColl /\ Accounts(s, d, g, c, u)
  BY Nothing
<1>2. Sound(s) /\ Accounts(s, d, g, c, u)
  BY <1>1 DEF InOrder
<1>3. Sound(r) /\ Accounts(r, d, g, c, u) /\ r.troves[b].status = s.troves[b].status
  BY <1>2, ApplyPendingEffect
<1> QED
  BY <1>1, <1>3 DEF InOrder, active

-----------------------------------------------------------------------------
(* The transactions.                                                       *)

\* A new trove.
LEMMA OpenTroveKeeps ==
    ASSUME NEW s, s = books, InOrder(s), NEW b \in Borrowers, NEW colls \in Bundles,
           NEW amount \in Nat, NEW f \in Nat, NEW v \in Nat, OpenTrove(b, colls, amount, f, v)
    PROVE  \E q : InOrder(q) /\ Commit(q)
<1>1. PICK f1 \in Nat, m1 \in Nat :
        /\ f1 = IF RecoveryMode(s) THEN 0 ELSE f
        /\ m1 = IF RecoveryMode(s) THEN 0 ELSE FeeMinted(f)
        /\ m1 <= f1
  <2>1. FeeMinted(f) \in Nat /\ FeeMinted(f) <= f
    BY FeeMintedAtMost
  <2> QED
    BY <2>1
<1>2. PICK m2 \in Nat : m2 = FeeMinted(v) /\ m2 <= v
  BY FeeMintedAtMost
<1>3. GasCompensation \in Nat /\ MinNetDebt \in Nat
  BY Constants
<1>4. PICK net \in Nat, minted \in Nat : net = amount + (v + f1) /\ minted = m2 + m1 /\ amount + minted <= net
  BY <1>1, <1>2
<1>5. PICK debt \in Int, lent \in Int :
        debt = net + GasCompensation /\ lent = amount + minted + GasCompensation /\ lent <= debt
  BY <1>3, <1>4
<1>6. PICK e : e = EnterTrove(s, b, colls, debt)
  OBVIOUS
<1>7. PICK q : q = OpeningPaid(e, colls, debt, lent)
  OBVIOUS
<1>8. ~ active(s, b) /\ net >= MinNetDebt /\ Commit(q)
  BY <1>1, <1>2, <1>4, <1>5, <1>6, <1>7 DEF OpenTrove, OpeningPaid
<1>9. debt >= GasCompensation + MinNetDebt
  BY <1>3, <1>5, <1>8
<1>10. InOrder(q)
  BY <1>5, <1>6, <1>7, <1>8, <1>9, OpenKeeps
<1> QED
  BY <1>8, <1>10

\* A trove adjusted, after its pending rewards have been applied.
LEMMA AdjustAppliedKeeps ==
    ASSUME NEW s, InOrder(s), NEW b \in Borrowers, active(s, b),
           NEW collsIn \in Bundles, NEW collsOut \in Bundles, NEW change \in Int,
           NEW f \in Nat, NEW v \in Nat,
           AdjustApplied(s, b, collsIn, collsOut, change, f, v)
    PROVE  \E q : InOrder(q) /\ Commit(q)
<1>1. Sound(s) /\ s \in Books
  BY DEF InOrder, Sound
<1>2. PICK debt \in Nat, old \in Bundles, had \in SUBSET Tokens :
        debt = s.troves[b].debt /\ old = s.troves[b].colls /\ had = s.troves[b].tokens
  BY <1>1, BookParts
<1>3. debt >= GasCompensation + MinNetDebt
  BY <1>1, <1>2 DEF Sound, Indebted
<1>4. PICK f1 \in Nat : f1 = IF change > 0 /\ ~ RecoveryMode(books) THEN f ELSE 0
  OBVIOUS
<1>5. PICK f2 \in Nat : f2 = IF collsIn = NoColl THEN 0 ELSE v
  OBVIOUS
<1>6. PICK colls \in IntBundles :
        /\ colls = Minus(Plus(old, collsIn), collsOut)
        /\ \A t \in Tokens : colls[t] = old[t] + collsIn[t] - collsOut[t]
  <2>1. old \in IntBundles /\ collsIn \in IntBundles /\ collsOut \in IntBundles
    BY BundleOps
  <2>2. Plus(old, collsIn) \in IntBundles
    BY <2>1, BundleOps
  <2>3. Minus(Plus(old, collsIn), collsOut) \in IntBundles
    BY <2>1, <2>2, BundleOps
  <2>4. \A t \in Tokens : Minus(Plus(old, collsIn), collsOut)[t] = old[t] + collsIn[t] - collsOut[t]
    BY <2>1, InAndOut
  <2> QED
    BY <2>3, <2>4
<1>7. PICK tokens \in SUBSET Tokens :
        tokens = (had \cup HeldIn(collsIn)) \ {t \in HeldIn(collsOut) : colls[t] = 0}
  BY DEF HeldIn
<1>8. PICK x \in Int, minted \in Int :
        /\ x = (change + f1) + f2
        /\ minted = change + FeeMinted(f1) + FeeMinted(f2)
        /\ minted <= x
  <2>1. /\ FeeMinted(f1) \in Nat /\ FeeMinted(f1) <= f1
        /\ FeeMinted(f2) \in Nat /\ FeeMinted(f2) <= f2
    BY FeeMintedAtMost
  <2> QED
    BY <2>1
<1>9. PICK n : n = SetCollAndStake(DebtChanged(s, b, x), b, tokens, colls)
  OBVIOUS
<1>10. PICK q : q = AdjustmentPaid(n, collsIn, collsOut, x, minted)
  OBVIOUS
<1>11. DebtChanged(s, b, x) = [s EXCEPT !.troves[b].debt = @ + (change + f1) + f2]
  <2>1. PICK Q \in TroveRecords : Q = s.troves[b] /\ Q.debt = debt
    BY <1>1, <1>2, BookParts
  <2>2. debt + x = debt + (change + f1) + f2
    BY <1>8
  <2> QED
    BY <1>2, <2>2 DEF DebtChanged
<1>12. /\ \A t \in Tokens : colls[t] >= 0
       /\ change < 0 => debt + f2 + change >= GasCompensation + MinNetDebt
  BY <1>2, <1>4, <1>5, <1>6 DEF AdjustApplied
<1>13. Commit(q)
  <2>1. colls = Minus(Plus(s.troves[b].colls, collsIn), collsOut)
    BY <1>2, <1>6
  <2>2. tokens = (s.troves[b].tokens \cup HeldIn(collsIn))
                   \ {t \in HeldIn(collsOut) : Minus(Plus(s.troves[b].colls, collsIn), collsOut)[t] = 0}
    BY <1>2, <1>7, <2>1
  <2>3. Commit(Lend([SetCollAndStake([s EXCEPT !.troves[b].debt = @ + (change + f1) + f2], b, tokens, colls)
                        EXCEPT !.pools.activeColl = Minus(Plus(@, collsIn), collsOut)],
                    (change + f1) + f2, change + FeeMinted(f1) + FeeMinted(f2)))
    BY <1>4, <1>5, <2>1, <2>2 DEF AdjustApplied
  <2>4. Commit(Lend([n EXCEPT !.pools.activeColl = Minus(Plus(@, collsIn), collsOut)], x, minted))
    BY <1>8, <1>9, <1>11, <2>3
  <2> QED
    BY <1>10, <2>4 DEF AdjustmentPaid
<1>14. colls \in Bundles
  BY <1>12 DEF Bundles, IntBundles
<1>15. debt + x >= GasCompensation + MinNetDebt
  <2>1. CASE change < 0
    <3>1. f1 = 0
      BY <1>4, <2>1
    <3> QED
      BY <1>8, <1>12, <2>1, <3>1, Constants
  <2>2. CASE ~ (change < 0)
    <3>1. x >= 0
      BY <1>8, <2>2
    <3> QED
      BY <1>3, <3>1, Constants
  <2> QED
    BY <2>1, <2>2
<1>16. InOrder(q)
  <2>1. debt = s.troves[b].debt /\ old = s.troves[b].colls
    BY <1>2
  <2>2. minted <= x
    BY <1>8
  <2>3. \A t \in Tokens : colls[t] = old[t] + collsIn[t] - collsOut[t]
    BY <1>6
  <2> QED
    BY <1>9, <1>10, <1>14, <1>15, <2>1, <2>2, <2>3, AdjustKeeps
<1> QED
  BY <1>13, <1>16

\* A trove adjusted by its owner.
LEMMA AdjustTroveKeeps ==
    ASSUME NEW s, s = books, InOrder(s), NEW b \in Borrowers,
           NEW collsIn \in Bundles, NEW collsOut \in Bundles, NEW change \in Int,
           NEW f \in Nat, NEW v \in Nat,
           AdjustTrove(b, collsIn, collsOut, change, f, v)
    PROVE  \E q : InOrder(q) /\ Commit(q)
<1>1. PICK r : r = ApplyPendingRewards(s, b)
  OBVIOUS
<1>2. active(s, b) /\ AdjustApplied(r, b, collsIn, collsOut, change, f, v)
  BY <1>1 DEF AdjustTrove
<1>3. InOrder(r) /\ active(r, b)
  BY <1>1, <1>2, AppliedKeeps
<1> QED
  BY <1>2, <1>3, AdjustAppliedKeeps

\* A trove closed by its owner.
LEMMA CloseTroveKeeps ==
    ASSUME NEW s, s = books, InOrder(s), NEW b \in Borrowers, CloseTrove(b)
    PROVE  \E q : InOrder(q) /\ Commit(q)
<1>1. PICK r : r = ApplyPendingRewards(s, b)
  OBVIOUS
<1>2. active(s, b) /\ CloseApplied(r, b)
  BY <1>1 DEF CloseTrove
<1>3. InOrder(r) /\ active(r, b)
  BY <1>1, <1>2, AppliedKeeps
<1>4. PICK debt \in Int, colls \in Bundles : debt = r.troves[b].debt /\ colls = r.troves[b].colls
  BY <1>3, BookParts DEF InOrder, Sound
<1>5. PICK k : k = CloseTroveAs(RemoveStake(r, b), b, "closedByOwner")
  OBVIOUS
<1>6. PICK q : q = OwnerPaid(k, debt, colls)
  OBVIOUS
<1>7. Commit(q)
  BY <1>2, <1>4, <1>5, <1>6 DEF CloseApplied, OwnerPaid
<1>8. InOrder(q)
  BY <1>3, <1>4, <1>5, <1>6, OwnerCloseKeeps
<1> QED
  BY <1>7, <1>8

\* A surplus claimed.
LEMMA ClaimCollateralKeeps ==
    ASSUME NEW s, s = books, InOrder(s), NEW b \in Borrowers, ClaimCollateral(b)
    PROVE  \E q : InOrder(q) /\ Commit(q)
<1>1. s.pools = pools
  BY DEF books
<1>2. PICK due : due = s.pools.surplusOf[b]
  OBVIOUS
<1>3. PICK q : q = ClaimedFrom(s, b, due)
  OBVIOUS
<1>4. Commit(q)
  BY <1>1, <1>2, <1>3 DEF ClaimCollateral, ClaimedFrom
<1>5. InOrder(q)
  BY <1>2, <1>3, ClaimKeeps
<1> QED
  BY <1>4, <1>5

\* STAR put into the StabilityPool.
LEMMA ProvideKeeps ==
    ASSUME NEW s, s = books, InOrder(s), NEW amount \in Nat, ProvideToSP(amount)
    PROVE  \E q : InOrder(q) /\ Commit(q)
<1>1. PICK q : q = [s EXCEPT !.star.stabilityPool = @ + amount]
  OBVIOUS
<1>2. Commit(q)
  BY <1>1 DEF ProvideToSP
<1>3. PICK x \in Int : x = amount
  OBVIOUS
<1>4. q = [s EXCEPT !.star.stabilityPool = @ + x]
  BY <1>1, <1>3
<1>5. InOrder(q)
  BY <1>4, StabilityKeeps
<1> QED
  BY <1>2, <1>5

\* STAR taken out of it.
LEMMA WithdrawKeeps ==
    ASSUME NEW s, s = books, InOrder(s), NEW amount \in Nat, NEW b \in Borrowers,
           WithdrawFromSP(amount, b)
    PROVE  \E q : InOrder(q) /\ Commit(q)
<1>1. PICK q : q = [s EXCEPT !.star.stabilityPool = @ - amount]
  OBVIOUS
<1>2. Commit(q)
  BY <1>1 DEF WithdrawFromSP
<1>3. PICK x \in Int : x = -amount
  OBVIOUS
<1>4. s.star.stabilityPool \in Int
  BY BookParts DEF InOrder, Sound
<1>5. s.star.stabilityPool - amount = s.star.stabilityPool + x
  BY <1>3, <1>4
<1>6. q = [s EXCEPT !.star.stabilityPool = @ + x]
  BY <1>1, <1>5
<1>7. InOrder(q)
  BY <1>6, StabilityKeeps
<1> QED
  BY <1>2, <1>7

\* A batch of troves liquidated.
LEMMA BatchKeeps ==
    ASSUME NEW s, s = books, InOrder(s), s.star.stabilityPool \in Nat,
           NEW borrowers \in Seq(Borrowers), NEW p \in Bundles, price = p,
           BatchLiquidateTroves(borrowers)
    PROVE  \E q : InOrder(q) /\ Commit(q)
<1>1. PICK run : run = LiquidationRun(s, borrowers)
  OBVIOUS
<1>2. PICK r : r = SettleTotals(run)
  OBVIOUS
<1>3. r.ok /\ Commit(r.books)
  BY <1>1, <1>2 DEF BatchLiquidateTroves, CommitIfOk, BatchResult
<1>4. \A t \in Tokens : r.books.pools.activeColl[t] >= 0 /\ r.books.pools.defaultColl[t] >= 0
  BY <1>3 DEF Commit, NoUnderflow
<1>5. RunInv(run)
  BY <1>1, RunKeeps DEF InOrder
<1>6. Sound(r.books) /\ Accounts(r.books, 0, 0, NoColl, NoColl)
  BY <1>2, <1>3, <1>4, <1>5, Settled
<1> QED
  BY <1>3, <1>6 DEF InOrder

\* STAR redeemed along a list of troves.
LEMMA RedeemCollateralKeeps ==
    ASSUME NEW s, s = books, InOrder(s), NEW walk \in Seq(Borrowers), IsInjective(walk),
           NEW amount \in Nat, NEW hint \in BOOLEAN, NEW p \in Bundles, price = p,
           RedeemCollateral(walk, amount, hint)
    PROVE  \E q : InOrder(q) /\ Commit(q)
<1>1. PICK run : run = RedemptionRun(s, walk, amount, hint)
  OBVIOUS
<1>2. PICK q : q = PayOut(run.books, run.redeemed, run.drawn)
  OBVIOUS
<1>3. (\A i \in DOMAIN walk : active(s, walk[i])) /\ Commit(q)
  BY <1>1, <1>2 DEF RedeemCollateral, CommitRedemption
<1>4. RedeemInv(run)
  BY <1>1, <1>3, RedemptionKeeps DEF InOrder
<1>5. InOrder(q)
  BY <1>2, <1>4, PaidOut DEF InOrder
<1> QED
  BY <1>3, <1>5

\* STAR redeemed for one collateral of one trove.
LEMMA RedeemSingleKeeps ==
    ASSUME NEW s, s = books, InOrder(s), NEW b \in Borrowers, NEW tok \in Tokens,
           NEW amount \in Nat, NEW hint \in BOOLEAN, NEW p \in Bundles, price = p,
           RedeemCollateralSingle(b, tok, amount, hint)
    PROVE  \E q : InOrder(q) /\ Commit(q)
<1>1. PICK r : r = ApplyPendingRewards(s, b)
  OBVIOUS
<1>2. active(s, b) /\ RedeemToken(r, b, tok, amount, hint)
  BY <1>1 DEF RedeemCollateralSingle
<1>3. InOrder(r) /\ active(r, b)
  BY <1>1, <1>2, AppliedKeeps
<1> QED
  BY <1>2, <1>3, RedeemTokenKeeps

-----------------------------------------------------------------------------
(* The invariant of the ledger.                                            *)

LedgerInv ==
    /\ InOrder(books)
    /\ NoUnderflow(books)
    /\ price \in Prices
    /\ steps \in 0..MaxSteps

\* A sum of zeros.
LEMMA BorrowerSumZero ==
    ASSUME NEW f \in [Borrowers -> Nat], \A b \in Borrowers : f[b] = 0
    PROVE  SumFunction(f) = 0
<1>1. IsFiniteSet(Borrowers) /\ DOMAIN f = Borrowers /\ Borrowers \in SUBSET Borrowers
  BY BorrowersFinite
<1>2. \A b \in Borrowers : f[b] \in Int /\ f[b] = 0 * f[b]
  OBVIOUS
<1>3. SumFunctionOnSet(f, Borrowers) = 0 * SumFunctionOnSet(f, Borrowers)
  <2>1. 0 \in Int
    OBVIOUS
  <2> QED
    BY <1>1, <1>2, <2>1, SumTimes
<1>4. SumFunctionOnSet(f, Borrowers) \in Int
  BY <1>1, <1>2, SumInt
<1> QED
  BY <1>1, <1>3, <1>4 DEF SumFunction

\* Empty books are in order.
LEMMA EmptyBooks ==
    ASSUME NEW s \in Books, s.troves = [b \in Borrowers |-> NoTrove],
           s.terms = [t \in Tokens |-> NoTerms],
           s.pools.activeColl = NoColl, s.pools.surplusColl = NoColl,
           s.pools.surplusOf = [b \in Borrowers |-> NoColl],
           s.pools.activeDebt = 0, s.pools.defaultDebt = 0,
           s.star.supply = InitialSupply, s.star.gasPool = 0
    PROVE  InOrder(s)
<1>1. \A t \in Tokens : NoColl[t] = 0
  BY BundleOps
<1>2. \A b \in Borrowers :
         /\ ~ active(s, b) /\ s.troves[b].debt = 0 /\ s.troves[b].colls = NoColl
         /\ s.troves[b].stakes = NoColl /\ s.troves[b].CollRewards = NoColl
         /\ s.troves[b].STARDebts = NoColl /\ s.pools.surplusOf[b] = NoColl
  BY DEF NoTrove, active
<1>3. \A t \in Tokens : s.terms[t].totalStakes = 0 /\ s.terms[t].L_Coll = 0 /\ s.terms[t].L_STARDebt = 0
  BY DEF NoTerms
<1>4. DebtSum(s) = 0
  <2>1. PICK f : f = [b \in Borrowers |-> s.troves[b].debt]
    OBVIOUS
  <2>2. f \in [Borrowers -> Nat] /\ \A b \in Borrowers : f[b] = 0
    BY <1>2, <2>1
  <2> QED
    BY <2>1, <2>2, BorrowerSumZero DEF DebtSum
<1>5. ASSUME NEW t \in Tokens
      PROVE  CollSum(s, t) = 0 /\ StakeSum(s, t) = 0 /\ SurplusSum(s, t) = 0
  <2>1. PICK f, g, h : /\ f = [b \in Borrowers |-> s.troves[b].colls[t]]
                       /\ g = [b \in Borrowers |-> s.troves[b].stakes[t]]
                       /\ h = [b \in Borrowers |-> s.pools.surplusOf[b][t]]
    OBVIOUS
  <2>2. /\ f \in [Borrowers -> Nat] /\ \A b \in Borrowers : f[b] = 0
        /\ g \in [Borrowers -> Nat] /\ \A b \in Borrowers : g[b] = 0
        /\ h \in [Borrowers -> Nat] /\ \A b \in Borrowers : h[b] = 0
    BY <1>1, <1>2, <2>1
  <2> QED
    BY <2>1, <2>2, BorrowerSumZero DEF CollSum, StakeSum, SurplusSum
<1>6. OwnersCount(s) = 0
  <2>1. {b \in Borrowers : active(s, b)} = {}
    BY <1>2
  <2> QED
    BY <2>1, FS_EmptySet DEF OwnersCount
<1>7. Staked(s)
  BY <1>3, <1>5 DEF Staked
<1>8. SnapshotsBehind(s)
  BY <1>1, <1>2, <1>3 DEF SnapshotsBehind
<1>9. Indebted(s)
  BY <1>2 DEF Indebted
<1>10. DebtAgrees(s, 0)
  BY <1>4 DEF DebtAgrees
<1>11. GasAgrees(s, 0)
  BY <1>6, Constants DEF GasAgrees
<1>12. CollAgrees(s, NoColl)
  BY <1>1, <1>5 DEF CollAgrees
<1>13. SurplusAgrees(s, NoColl)
  BY <1>1, <1>5 DEF SurplusAgrees
<1>14. Backed(s)
  BY Constants DEF Backed
<1> QED
  BY <1>7, <1>8, <1>9, <1>10, <1>11, <1>12, <1>13, <1>14 DEF InOrder, Sound, Accounts

\* The invariant holds at the start.
LEMMA LedgerInit_Inv == Init => LedgerInv
<1> SUFFICES ASSUME Init PROVE LedgerInv
  OBVIOUS
<1>1. PICK s : s = books
  OBVIOUS
<1>2. NoColl \in Bundles /\ NoColl \in IntBundles /\ \A t \in Tokens : NoColl[t] = 0
  BY BundleOps
<1>3. NoTrove \in TroveRecords /\ NoTrove.debt = 0 /\ NoTrove.colls = NoColl
  BY <1>2 DEF NoTrove, TroveRecords
<1>4. NoTerms \in TermRecords /\ NoTerms.totalStakes = 0
  BY DEF NoTerms, TermRecords
<1>5. InitialSupply \in Nat
  BY Constants
<1>6. /\ s.troves = [b \in Borrowers |-> NoTrove] /\ s.terms = [t \in Tokens |-> NoTerms]
      /\ s.pools = [activeColl |-> NoColl, activeDebt |-> 0,
                    defaultColl |-> NoColl, defaultDebt |-> 0,
                    stabilityColl |-> NoColl, surplusColl |-> NoColl,
                    surplusOf |-> [b \in Borrowers |-> NoColl]]
      /\ s.star = [supply |-> InitialSupply, gasPool |-> 0, stabilityPool |-> 0]
      /\ s = [troves |-> s.troves, terms |-> s.terms, pools |-> s.pools, star |-> s.star]
  BY <1>1 DEF Init, BooksInit, books
<1>7. s \in Books
  <2>1. s.pools \in PoolRecords
    BY <1>2, <1>6 DEF PoolRecords
  <2>2. s.star \in StarRecords
    BY <1>5, <1>6 DEF StarRecords
  <2>3. s.troves \in [Borrowers -> TroveRecords] /\ s.terms \in [Tokens -> TermRecords]
    BY <1>3, <1>4, <1>6
  <2> QED
    BY <1>6, <2>1, <2>2, <2>3 DEF Books
<1>8. InOrder(s)
  BY <1>6, <1>7, EmptyBooks
<1>9. NoUnderflow(s)
  BY <1>2, <1>3, <1>4, <1>5, <1>6 DEF NoUnderflow, circulating
<1>10. price \in Prices /\ steps \in 0..MaxSteps
  BY InputsAssumption DEF Init
<1> QED
  BY <1>1, <1>8, <1>9, <1>10 DEF LedgerInv

\* Whatever a transaction commits.
LEMMA CommittedInOrder ==
    ASSUME \E q : InOrder(q) /\ Commit(q)
    PROVE  InOrder(books') /\ NoUnderflow(books')
<1>1. PICK q : InOrder(q) /\ Commit(q)
  OBVIOUS
<1>2. books' = q /\ NoUnderflow(q)
  BY <1>1, Committed DEF InOrder, Sound
<1> QED
  BY <1>1, <1>2

\* A transaction of a borrower keeps the books in order.
LEMMA BorrowKeeps ==
    ASSUME InOrder(books), Borrow
    PROVE  InOrder(books)' /\ NoUnderflow(books)' /\ price' = price
<1>1. PICK s : s = books
  OBVIOUS
<1>2. InOrder(s)
  BY <1>1
<1>3. PICK b \in Borrowers :
       \/ \E o \in Openings, f \in BorrowingFees, v \in VariableFees :
             OpenTrove(b, o.colls, o.amount, f, v)
       \/ \E a \in Adjustments, f \in BorrowingFees, v \in VariableFees :
             AdjustTrove(b, a.collsIn, a.collsOut, a.change, f, v)
       \/ CloseTrove(b)
       \/ ClaimCollateral(b)
  BY DEF Borrow
<1>4. BorrowingFees \subseteq Nat /\ VariableFees \subseteq Nat
  BY InputsAssumption
<1>5. CASE \E o \in Openings, f \in BorrowingFees, v \in VariableFees :
             OpenTrove(b, o.colls, o.amount, f, v)
  <2>1. PICK o \in Openings, f \in BorrowingFees, v \in VariableFees :
             OpenTrove(b, o.colls, o.amount, f, v)
    BY <1>5
  <2>2. PICK colls \in Bundles, amount \in Nat : colls = o.colls /\ amount = o.amount
    BY InputsAssumption
  <2>3. OpenTrove(b, colls, amount, f, v) /\ f \in Nat /\ v \in Nat
    BY <1>4, <2>1, <2>2
  <2>4. \E q : InOrder(q) /\ Commit(q)
    BY <1>1, <1>2, <2>3, OpenTroveKeeps
  <2>5. price' = price
    BY <2>3 DEF OpenTrove
  <2> QED
    BY <2>4, <2>5, CommittedInOrder
<1>6. CASE \E a \in Adjustments, f \in BorrowingFees, v \in VariableFees :
             AdjustTrove(b, a.collsIn, a.collsOut, a.change, f, v)
  <2>1. PICK a \in Adjustments, f \in BorrowingFees, v \in VariableFees :
             AdjustTrove(b, a.collsIn, a.collsOut, a.change, f, v)
    BY <1>6
  <2>2. PICK in \in Bundles, out \in Bundles, change \in Int :
          in = a.collsIn /\ out = a.collsOut /\ change = a.change
    BY InputsAssumption
  <2>3. AdjustTrove(b, in, out, change, f, v) /\ f \in Nat /\ v \in Nat
    BY <1>4, <2>1, <2>2
  <2>4. \E q : InOrder(q) /\ Commit(q)
    BY <1>1, <1>2, <2>3, AdjustTroveKeeps
  <2>5. price' = price
    BY <2>3 DEF AdjustTrove
  <2> QED
    BY <2>4, <2>5, CommittedInOrder
<1>7. CASE CloseTrove(b)
  <2>1. \E q : InOrder(q) /\ Commit(q)
    BY <1>1, <1>2, <1>7, CloseTroveKeeps
  <2>2. price' = price
    BY <1>7 DEF CloseTrove
  <2> QED
    BY <2>1, <2>2, CommittedInOrder
<1>8. CASE ClaimCollateral(b)
  <2>1. \E q : InOrder(q) /\ Commit(q)
    BY <1>1, <1>2, <1>8, ClaimCollateralKeeps
  <2>2. price' = price
    BY <1>8 DEF ClaimCollateral
  <2> QED
    BY <2>1, <2>2, CommittedInOrder
<1> QED
  BY <1>3, <1>5, <1>6, <1>7, <1>8

\* So does a liquidation.
LEMMA LiquidateKeeps ==
    ASSUME LedgerInv, Liquidate
    PROVE  InOrder(books)' /\ NoUnderflow(books)' /\ price' = price
<1>1. PICK s : s = books
  OBVIOUS
<1>2. InOrder(s) /\ NoUnderflow(s)
  BY <1>1 DEF LedgerInv
<1>3. PICK p \in Bundles : price = p
  BY InputsAssumption DEF LedgerInv
<1>4. s.star.stabilityPool \in Nat
  BY <1>2, BookParts DEF NoUnderflow, InOrder, Sound
<1>5. PICK batch \in Batches : BatchLiquidateTroves(batch)
  BY DEF Liquidate
<1>6. batch \in Seq(Borrowers)
  BY InputsAssumption DEF Batches
<1>7. \E q : InOrder(q) /\ Commit(q)
  BY <1>1, <1>2, <1>3, <1>4, <1>5, <1>6, BatchKeeps
<1>8. price' = price
  BY <1>5 DEF BatchLiquidateTroves
<1> QED
  BY <1>7, <1>8, CommittedInOrder

\* So does a redemption.
LEMMA RedeemKeeps ==
    ASSUME LedgerInv, Redeem
    PROVE  InOrder(books)' /\ NoUnderflow(books)' /\ price' = price
<1>1. PICK s : s = books
  OBVIOUS
<1>2. InOrder(s)
  BY <1>1 DEF LedgerInv
<1>3. PICK p \in Bundles : price = p
  BY InputsAssumption DEF LedgerInv
<1>4. PICK amount \in RedeemAmounts, hint \in BOOLEAN :
       \/ \E walk \in Walks : RedeemCollateral(walk, amount, hint)
       \/ \E b \in Borrowers, t \in Tokens : RedeemCollateralSingle(b, t, amount, hint)
  BY DEF Redeem
<1>5. amount \in Nat
  BY InputsAssumption
<1>6. CASE \E walk \in Walks : RedeemCollateral(walk, amount, hint)
  <2>1. PICK walk \in Walks : RedeemCollateral(walk, amount, hint)
    BY <1>6
  <2>2. walk \in Seq(Borrowers) /\ IsInjective(walk)
    BY InputsAssumption DEF Walks, Batches
  <2>3. \E q : InOrder(q) /\ Commit(q)
    BY <1>1, <1>2, <1>3, <1>5, <2>1, <2>2, RedeemCollateralKeeps
  <2>4. price' = price
    BY <2>1 DEF RedeemCollateral
  <2> QED
    BY <2>3, <2>4, CommittedInOrder
<1>7. CASE \E b \in Borrowers, t \in Tokens : RedeemCollateralSingle(b, t, amount, hint)
  <2>1. PICK b \in Borrowers, t \in Tokens : RedeemCollateralSingle(b, t, amount, hint)
    BY <1>7
  <2>2. \E q : InOrder(q) /\ Commit(q)
    BY <1>1, <1>2, <1>3, <1>5, <2>1, RedeemSingleKeeps
  <2>3. price' = price
    BY <2>1 DEF RedeemCollateralSingle
  <2> QED
    BY <2>2, <2>3, CommittedInOrder
<1> QED
  BY <1>4, <1>6, <1>7

\* So do the StabilityPool's deposits and withdrawals.
LEMMA UseStabilityPoolKeeps ==
    ASSUME InOrder(books), UseStabilityPool
    PROVE  InOrder(books)' /\ NoUnderflow(books)' /\ price' = price
<1>1. PICK s : s = books
  OBVIOUS
<1>2. InOrder(s)
  BY <1>1
<1>3. PICK amount \in DepositAmounts :
       \/ ProvideToSP(amount)
       \/ \E b \in Borrowers : WithdrawFromSP(amount, b)
  BY DEF UseStabilityPool
<1>4. amount \in Nat
  BY InputsAssumption
<1>5. CASE ProvideToSP(amount)
  <2>1. \E q : InOrder(q) /\ Commit(q)
    BY <1>1, <1>2, <1>4, <1>5, ProvideKeeps
  <2>2. price' = price
    BY <1>5 DEF ProvideToSP
  <2> QED
    BY <2>1, <2>2, CommittedInOrder
<1>6. CASE \E b \in Borrowers : WithdrawFromSP(amount, b)
  <2>1. PICK b \in Borrowers : WithdrawFromSP(amount, b)
    BY <1>6
  <2>2. \E q : InOrder(q) /\ Commit(q)
    BY <1>1, <1>2, <1>4, <2>1, WithdrawKeeps
  <2>3. price' = price
    BY <2>1 DEF WithdrawFromSP
  <2> QED
    BY <2>2, <2>3, CommittedInOrder
<1> QED
  BY <1>3, <1>5, <1>6

\* Every step keeps the invariant.
LEMMA LedgerNext_Inv == LedgerInv /\ [Next]_vars => LedgerInv'
<1> SUFFICES ASSUME LedgerInv, [Next]_vars PROVE LedgerInv'
  OBVIOUS
<1>1. InOrder(books) /\ NoUnderflow(books) /\ price \in Prices /\ steps \in 0..MaxSteps
  BY DEF LedgerInv
<1>2. CASE UNCHANGED vars
  BY <1>1, <1>2 DEF LedgerInv, vars, books
<1>3. CASE Next
  <2>1. steps' \in 0..MaxSteps
    BY <1>1, <1>3, InputsAssumption DEF Next
  <2>2. CASE Borrow \/ Liquidate \/ Redeem \/ UseStabilityPool
    <3>1. InOrder(books)' /\ NoUnderflow(books)' /\ price' = price
      BY <1>1, <2>2, BorrowKeeps, LiquidateKeeps, RedeemKeeps, UseStabilityPoolKeeps
    <3> QED
      BY <1>1, <2>1, <3>1 DEF LedgerInv
  <2>3. CASE \E p \in Prices : ChangePrice(p)
    <3>1. books' = books /\ price' \in Prices
      BY <2>3 DEF ChangePrice, books
    <3>2. InOrder(books)' /\ NoUnderflow(books)'
      BY <1>1, <3>1
    <3> QED
      BY <2>1, <3>1, <3>2 DEF LedgerInv
  <2> QED
    BY <1>3, <2>2, <2>3 DEF Next
<1> QED
  BY <1>2, <1>3

\* The invariant holds of every behaviour.
THEOREM LedgerInvariant == Spec => []LedgerInv
BY LedgerInit_Inv, LedgerNext_Inv, PTL DEF Spec

\* The invariant says of the books what the runs check of them.
LEMMA LedgerSays ==
    ASSUME LedgerInv
    PROVE  TypeOK /\ ActivePoolAgrees /\ SupplyBacked /\ ReservesExact
<1>1. PICK s : s = books
  OBVIOUS
<1>2. /\ s.troves = troves /\ s.terms = terms /\ s.pools = pools /\ s.star = star
  BY <1>1 DEF books
<1>3. /\ Sound(s) /\ s \in Books /\ Accounts(s, 0, 0, NoColl, NoColl) /\ NoUnderflow(s)
      /\ price \in Prices /\ steps \in 0..MaxSteps
  BY <1>1 DEF LedgerInv, InOrder, Sound
<1>4. \A t \in Tokens : NoColl[t] = 0
  BY BundleOps
<1>5. TypeOK
  <2>1. troves \in [Borrowers -> TroveRecords] /\ terms \in [Tokens -> TermRecords]
    BY <1>2, <1>3, BookParts
  <2>2. pools.activeColl \in Bundles /\ pools.defaultColl \in Bundles /\ pools.surplusColl \in Bundles
    <3>1. /\ pools.activeColl \in IntBundles /\ pools.defaultColl \in IntBundles
          /\ pools.surplusColl \in IntBundles
      BY <1>2, <1>3, BookParts
    <3>2. \A t \in Tokens : /\ pools.activeColl[t] >= 0 /\ pools.defaultColl[t] >= 0
                            /\ pools.surplusColl[t] >= 0
      BY <1>2, <1>3 DEF NoUnderflow
    <3> QED
      BY <3>1, <3>2 DEF IntBundles, Bundles
  <2>3. pools.activeDebt \in Nat /\ pools.defaultDebt \in Nat
    BY <1>2, <1>3, BookParts DEF NoUnderflow
  <2>4. star.supply \in Nat /\ star.gasPool \in Nat /\ star.stabilityPool \in Nat
    BY <1>2, <1>3, BookParts DEF NoUnderflow, circulating
  <2>5. pools \in PoolRecords /\ star \in StarRecords
    BY <1>2, <1>3, BookParts
  <2>6. pools \in [activeColl : Bundles, activeDebt : Nat, defaultColl : Bundles,
                  defaultDebt : Nat, stabilityColl : Bundles, surplusColl : Bundles,
                  surplusOf : [Borrowers -> Bundles]]
    BY <2>2, <2>3, <2>5 DEF PoolRecords
  <2>7. star \in [supply : Nat, gasPool : Nat, stabilityPool : Nat]
    BY <2>4, <2>5 DEF StarRecords
  <2> QED
    BY <1>3, <2>1, <2>6, <2>7 DEF TypeOK, TroveRecords, TermRecords
<1>6. ActivePoolAgrees
  <2>1. pools.activeDebt = SumFunction([b \in Borrowers |-> troves[b].debt])
    <3>1. DebtSum(s) \in Int
      BY <1>3, SumsNat
    <3> QED
      BY <1>2, <1>3, <3>1 DEF Accounts, DebtAgrees, DebtSum
  <2>2. ActiveDebtExact
    BY <2>1 DEF ActiveDebtExact, SumOver
  <2>3. ASSUME NEW t \in Tokens
        PROVE  pools.activeColl[t] >= SumFunction([b \in Borrowers |-> troves[b].colls[t]])
    <3>1. CollSum(s, t) \in Int
      BY <1>3, SumsNat
    <3>2. pools.activeColl[t] >= CollSum(s, t) + NoColl[t]
      BY <1>2, <1>3 DEF Accounts, CollAgrees
    <3>3. pools.activeColl[t] >= CollSum(s, t)
      BY <1>4, <3>1, <3>2
    <3> QED
      BY <1>2, <3>3 DEF CollSum
  <2>4. ActiveCollCovers
    BY <2>3 DEF ActiveCollCovers, SumOver
  <2> QED
    BY <2>2, <2>4 DEF ActivePoolAgrees
<1>7. SupplyBacked
  <2>1. s.star.supply <= InitialSupply + s.pools.activeDebt + s.pools.defaultDebt
    BY <1>3 DEF Accounts, Backed
  <2>2. s.pools.activeDebt \in Int /\ s.pools.defaultDebt \in Int /\ InitialSupply \in Int
    BY <1>3, BookParts, Constants
  <2>3. s.star.supply <= InitialSupply + (s.pools.activeDebt + s.pools.defaultDebt)
    BY <2>1, <2>2
  <2> QED
    BY <1>1, <1>2, <2>3 DEF SupplyBacked, SystemDebt
<1>8. GasReserveExact
  <2>1. s.star.gasPool = GasCompensation * OwnersCount(s) + 0
    BY <1>3 DEF Accounts, GasAgrees
  <2>2. OwnersCount(s) \in Nat
    <3>1. IsFiniteSet(Borrowers) /\ {b \in Borrowers : active(s, b)} \subseteq Borrowers
      BY BorrowersFinite
    <3> QED
      BY <3>1, FS_Subset, FS_CardinalityType DEF OwnersCount
  <2>3. GasCompensation * OwnersCount(s) \in Nat
    BY <2>2, Constants, NatProduct
  <2>4. s.star.gasPool = GasCompensation * OwnersCount(s)
    BY <2>1, <2>3
  <2> QED
    BY <1>1, <1>2, <2>4 DEF GasReserveExact
<1>9. SurplusExact
  <2>1. ASSUME NEW t \in Tokens
        PROVE  pools.surplusColl[t] = SumFunction([b \in Borrowers |-> pools.surplusOf[b][t]])
    <3>1. SurplusSum(s, t) \in Int /\ s.pools.surplusColl[t] \in Int
      BY <1>3, SumsNat, BookParts DEF IntBundles
    <3>2. s.pools.surplusColl[t] + NoColl[t] = SurplusSum(s, t)
      BY <1>3 DEF Accounts, SurplusAgrees
    <3>3. s.pools.surplusColl[t] = SurplusSum(s, t)
      BY <1>4, <3>1, <3>2
    <3> QED
      BY <1>2, <3>3 DEF SurplusSum
  <2> QED
    BY <2>1 DEF SurplusExact, SumOver
<1> QED
  BY <1>5, <1>6, <1>7, <1>8, <1>9 DEF ReservesExact

-----------------------------------------------------------------------------
(* What the invariant says of the system.                                  *)

\* TypeOK: through every rounding, offset, redistribution, redemption and
\* settlement no pool, trove or term takes an amount it does not hold.
THEOREM LedgerTyped == Spec => []TypeOK
<1>1. LedgerInv => TypeOK
  BY LedgerSays
<1> QED
  BY <1>1, LedgerInvariant, PTL

\* ActivePoolAgrees: the ActivePool's debt is the sum of what the troves record
\* and its collateral covers them, by whichever path a trove was changed.
THEOREM ActivePoolAlwaysAgrees == Spec => []ActivePoolAgrees
<1>1. LedgerInv => ActivePoolAgrees
  BY LedgerSays
<1> QED
  BY <1>1, LedgerInvariant, PTL

\* SupplyBacked: no STAR beyond the initial mint is without a debt behind it.
THEOREM SupplyAlwaysBacked == Spec => []SupplyBacked
<1>1. LedgerInv => SupplyBacked
  BY LedgerSays
<1> QED
  BY <1>1, LedgerInvariant, PTL

\* ReservesExact: the GasPool holds one compensation for each active trove, and
\* the CollSurplusPool what its accounts are owed.
THEOREM ReservesAlwaysExact == Spec => []ReservesExact
<1>1. LedgerInv => ReservesExact
  BY LedgerSays
<1> QED
  BY <1>1, LedgerInvariant, PTL

\* StakesAddUp: the total that a redistribution divides by is the sum of the
\* stakes that share in it.
THEOREM StakesAlwaysAddUp == Spec => []StakesAddUp
<1>1. LedgerInv => StakesAddUp
  <2>1. LedgerInv => Staked(books) /\ books.troves = troves /\ books.terms = terms
    BY DEF LedgerInv, InOrder, Sound, books
  <2> QED
    BY <2>1 DEF StakesAddUp, Staked, StakeSum, SumOver
<1> QED
  BY <1>1, LedgerInvariant, PTL


=============================================================================
