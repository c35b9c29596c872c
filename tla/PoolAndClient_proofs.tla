------------------------ MODULE PoolAndClient_proofs ------------------------
(***************************************************************************)
(* Theorems about the Stability Pool and, in sections of their own, about  *)
(* three modules of the client.  They share no variable and no proof uses  *)
(* a fact of another section.                                              *)
(***************************************************************************)
EXTENDS StabilityPool, LiquityStore, BlockListeners, TransactionStatus, DataFacts

-----------------------------------------------------------------------------
(***************************************************************************)
(* The Stability Pool.  SPInv says what the valuation of a                 *)
(* deposit relies on; that a loss can be computed follows from it.  For    *)
(* what the deposits are worth together, BackedInv has a bound on each, a  *)
(* fraction that no rounding has touched; an operation of a depositor      *)
(* changes one bound and an offset multiplies all by what is left of a     *)
(* unit.  The error that an offset carries over into the next one is paid  *)
(* for in the sum of the bounds, which is where the slack of               *)
(* DepositsBacked comes from.  The gains follow from FutureEmpty and from  *)
(* the place an offset credits.                                            *)
(***************************************************************************)

\* What the valuation of a deposit relies on: its snapshots are of an earlier
\* place, where the running product was no smaller.
SnapshotSound(d) ==
    LET s == depositSnapshots[d] IN
    deposits[d] # 0 =>
        /\ s.P # 0
        /\ s.scale <= offsets
        /\ s.epoch <= currentEpoch
        /\ s.epoch = currentEpoch => s.scale <= currentScale
        /\ s.epoch = currentEpoch /\ s.scale = currentScale => P <= s.P
        /\ s.epoch = currentEpoch /\ s.scale + 1 = currentScale => P <= s.P * ScaleFactor

SPInv ==
    /\ SPTypeOK
    /\ \A d \in Depositors : SnapshotSound(d)

-----------------------------------------------------------------------------
(* The valuations. *)

\* What a deposit is worth, and what it has earned, are numbers.
LEMMA CompoundedIsNat ==
    ASSUME SPInv, NEW d \in Depositors
    PROVE  CompoundedDeposit(d) \in Nat
<1> DEFINE s == depositSnapshots[d]
<1> SUFFICES ASSUME deposits[d] # 0 PROVE CompoundedAcross(deposits[d], s) \in Nat
  BY DEF CompoundedDeposit
<1>1. s.P \in Nat \ {0} /\ deposits[d] \in Nat /\ P \in Nat /\ ScaleFactor \in Nat \ {0}
  BY DecimalsPositive DEF SPInv, SPTypeOK, SnapshotSound, SnapshotsOf
<1>2. deposits[d] * P \in Nat
  BY <1>1, NatProduct
<1>3. (deposits[d] * P) \div s.P \in Nat
  BY <1>1, <1>2, QuotientNat
<1>4. ((deposits[d] * P) \div s.P) \div ScaleFactor \in Nat
  BY <1>1, <1>3, QuotientNat
<1> QED
  BY <1>3, <1>4 DEF CompoundedAcross

\* And what it has earned is a number.
LEMMA GainIsInt ==
    ASSUME SPInv, NEW d \in Depositors
    PROVE  Gain(d) \in Int
<1> DEFINE s == depositSnapshots[d]
           E == EarnedPerUnit(s)
<1> SUFFICES ASSUME deposits[d] # 0 PROVE ((deposits[d] * E) \div s.P) \div Decimals \in Int
  BY DEF Gain
<1>1. /\ s.P \in Nat \ {0} /\ deposits[d] \in Nat
      /\ Decimals \in Nat \ {0} /\ ScaleFactor \in Nat \ {0}
  BY DecimalsPositive DEF SPInv, SPTypeOK, SnapshotSound, SnapshotsOf
<1>2. E \in Int
  <2>1. <<s.epoch, s.scale>> \in Places /\ <<s.epoch, s.scale + 1>> \in Places /\ s.S \in Nat
    BY BoundsNat DEF SPInv, SPTypeOK, SnapshotSound, SnapshotsOf, Places
  <2>2. /\ epochToScaleToSum[<<s.epoch, s.scale>>] \in Nat
        /\ epochToScaleToSum[<<s.epoch, s.scale + 1>>] \in Nat
    BY <2>1 DEF SPInv, SPTypeOK
  <2>3. epochToScaleToSum[<<s.epoch, s.scale + 1>>] \div ScaleFactor \in Nat
    BY <2>2, <1>1, QuotientNat
  <2> QED
    BY <2>1, <2>2, <2>3 DEF EarnedPerUnit
<1> HIDE DEF E, s
<1>3. deposits[d] * E \in Int
  BY <1>1, <1>2
<1>4. (deposits[d] * E) \div s.P \in Int
  BY <1>1, <1>3, QuotientBounds
<1> QED
  BY <1>1, <1>4, QuotientBounds

\* A deposit only ever lost.
LEMMA LossIsComputable ==
    ASSUME SPInv
    PROVE  LossComputable
<1> SUFFICES ASSUME NEW d \in Depositors
             PROVE  CompoundedDeposit(d) <= deposits[d]
  BY DEF LossComputable
<1> DEFINE s == depositSnapshots[d]
           D == deposits[d]
<1> SUFFICES CompoundedDeposit(d) <= D
  OBVIOUS
<1>1. D \in Nat /\ P \in Nat /\ ScaleFactor \in Nat \ {0}
  BY DecimalsPositive DEF SPInv, SPTypeOK
<1>4. CompoundedDeposit(d) = 0 \/ CompoundedDeposit(d) = CompoundedAcross(D, s)
  BY DEF CompoundedDeposit
<1>2. CASE D = 0 \/ s.epoch < currentEpoch
  BY <1>1, <1>2 DEF CompoundedDeposit
<1>3. CASE D # 0 /\ s.epoch = currentEpoch
  <2>1. /\ s.P \in Nat \ {0}
        /\ s.scale = currentScale => P <= s.P
        /\ s.scale + 1 = currentScale => P <= s.P * ScaleFactor
    BY <1>3 DEF SPInv, SPTypeOK, SnapshotSound, SnapshotsOf
  <2>2. D * P \in Nat
    BY <1>1, NatProduct
  <2>3. CASE s.scale = currentScale
    <3>1. D * P <= D * s.P
      BY <1>1, <2>1, <2>3, TimesMonotone
    <3>2. (D * P) \div s.P <= D
      <4> HIDE DEF D, s
      <4> QED
        BY <1>1, <2>1, <2>2, <3>1, QuotientAtMost
    <3>4. s.scale + 1 # currentScale
      BY <2>3 DEF SPInv, SPTypeOK, SnapshotsOf
    <3> HIDE DEF D, s
    <3>3. CompoundedAcross(D, s) <= D
      BY <2>3, <3>2, <3>4 DEF CompoundedAcross
    <3> QED
      BY <1>1, <1>4, <3>3
  <2>4. CASE s.scale + 1 = currentScale
    <3>1. D * P <= D * (s.P * ScaleFactor)
      BY <1>1, <2>1, <2>4, TimesMonotone
    <3>2. D * (s.P * ScaleFactor) = (D * ScaleFactor) * s.P
      BY <1>1, <2>1
    <3>3. (D * P) \div s.P <= D * ScaleFactor
      BY <1>1, <2>1, <2>2, <3>1, <3>2, QuotientAtMost
    <3>4. (D * P) \div s.P \in Nat
      BY <2>1, <2>2, QuotientNat
    <3>5. ((D * P) \div s.P) \div ScaleFactor <= D
      BY <1>1, <3>3, <3>4, QuotientAtMost
    <3>6. s.scale # currentScale
      BY <2>4 DEF SPInv, SPTypeOK, SnapshotsOf
    <3> HIDE DEF D, s
    <3>7. CompoundedAcross(D, s) <= D
      BY <2>4, <3>5, <3>6 DEF CompoundedAcross
    <3> QED
      BY <1>1, <1>4, <3>7
  <2>5. CASE s.scale # currentScale /\ s.scale + 1 # currentScale
    <3>1. CompoundedAcross(D, s) = 0
      BY <2>5 DEF CompoundedAcross, SPInv, SPTypeOK, SnapshotsOf
    <3> HIDE DEF D, s
    <3> QED
      BY <1>1, <1>4, <3>1
  <2> QED
    BY <2>3, <2>4, <2>5
<1>5. D # 0 => s.epoch \in Nat /\ currentEpoch \in Nat /\ s.epoch <= currentEpoch
  BY DEF SPInv, SPTypeOK, SnapshotSound, SnapshotsOf
<1> HIDE DEF D, s
<1> QED
  BY <1>2, <1>3, <1>5

-----------------------------------------------------------------------------
(* The invariant. *)

\* The pool starts with nothing in it.
LEMMA SPInvInit == SPInit => SPInv
BY DecimalsPositive, BoundsNat
   DEF SPInit, SPInv, SPTypeOK, SnapshotSound, SnapshotsOf, BlankSnapshot, Places

\* A depositor's operation: the deposit gets a snapshot of the present.
LEMMA UpdateKeepsInv ==
    ASSUME SPInv, NEW d \in Depositors, NEW value \in Nat,
           UpdateDepositAndSnapshots(d, value), UNCHANGED poolVars,
           totalSTARDeposits' \in Nat, totalColl' \in Nat
    PROVE  SPInv'
<1> DEFINE new == SnapshotFor(d, value)
<1>1. <<currentEpoch, currentScale>> \in Places
  BY BoundsNat DEF SPInv, SPTypeOK, Places
<1>2. /\ new \in SnapshotsOf
      /\ value # 0 => /\ new.P = P /\ new.scale = currentScale
                      /\ new.epoch = currentEpoch
  <2>1. epochToScaleToSum[<<currentEpoch, currentScale>>] \in Nat
    BY <1>1 DEF SPInv, SPTypeOK
  <2>2. CurrentSnapshot \in SnapshotsOf
    BY <2>1 DEF CurrentSnapshot, SnapshotsOf, SPInv, SPTypeOK
  <2>3. BlankSnapshot \in SnapshotsOf
    BY DEF BlankSnapshot, SnapshotsOf
  <2> QED
    BY <2>2, <2>3 DEF SnapshotFor, CurrentSnapshot
<1> HIDE DEF new
<1>3. /\ deposits' = [deposits EXCEPT ![d] = value]
      /\ depositSnapshots' = [depositSnapshots EXCEPT ![d] = new]
  BY DEF UpdateDepositAndSnapshots, new
<1>4. SPTypeOK'
  BY <1>2, <1>3 DEF SPInv, SPTypeOK, poolVars
<1>5. ASSUME NEW e \in Depositors
      PROVE  SnapshotSound(e)'
  <2>1. CASE e = d
    <3>1. deposits'[e] = value /\ depositSnapshots'[e] = new
      BY <1>3, <2>1 DEF SPInv, SPTypeOK
    <3> QED
      BY <1>2, <3>1 DEF SnapshotSound, SPInv, SPTypeOK, poolVars
  <2>2. CASE e # d
    <3>1. deposits'[e] = deposits[e] /\ depositSnapshots'[e] = depositSnapshots[e]
      BY <1>3, <2>2 DEF SPInv, SPTypeOK
    <3> QED
      BY <3>1 DEF SnapshotSound, SPInv, poolVars
  <2> QED
    BY <2>1, <2>2
<1> QED
  BY <1>4, <1>5 DEF SPInv

\* The two operations of a depositor keep the invariant.
LEMMA ProvideKeepsInv ==
    ASSUME SPInv, NEW d \in Depositors, NEW amount \in Deposited, ProvideToSP(d, amount)
    PROVE  SPInv'
<1>1. CompoundedDeposit(d) \in Nat /\ Gain(d) \in Int /\ amount \in Nat
  BY CompoundedIsNat, GainIsInt, DepositedNat
<1>2. CompoundedDeposit(d) + amount \in Nat
  BY <1>1
<1>3. totalSTARDeposits' \in Nat
  BY <1>1 DEF ProvideToSP, SPInv, SPTypeOK
<1>4. totalColl' \in Nat
  BY <1>1 DEF ProvideToSP, SPInv, SPTypeOK
<1> QED
  BY <1>2, <1>3, <1>4, UpdateKeepsInv DEF ProvideToSP

\* The smaller of two numbers.
LEMMA MinOfTwo ==
    ASSUME NEW a \in Nat, NEW b \in Nat
    PROVE  Min({a, b}) \in Nat /\ Min({a, b}) <= a /\ Min({a, b}) <= b
<1>1. CASE a <= b
  <2>1. a \in {a, b} /\ \A y \in {a, b} : a <= y
    BY <1>1
  <2> QED
    BY <2>1 DEF Min
<1>2. CASE b <= a
  <2>1. b \in {a, b} /\ \A y \in {a, b} : b <= y
    BY <1>2
  <2> QED
    BY <2>1 DEF Min
<1> QED
  BY <1>1, <1>2

\* A withdrawal takes no more than the deposit is worth.
LEMMA WithdrawKeepsInv ==
    ASSUME SPInv, NEW d \in Depositors, NEW amount \in Deposited, WithdrawFromSP(d, amount)
    PROVE  SPInv'
<1> DEFINE withdrawn == Min({amount, CompoundedDeposit(d)})
<1>1. CompoundedDeposit(d) \in Nat /\ Gain(d) \in Int /\ amount \in Nat
  BY CompoundedIsNat, GainIsInt, DepositedNat
<1>2. withdrawn \in Nat /\ withdrawn <= CompoundedDeposit(d)
  BY <1>1, MinOfTwo
<1>3. /\ withdrawn <= totalSTARDeposits
      /\ Gain(d) <= totalColl
      /\ totalSTARDeposits' = totalSTARDeposits - withdrawn
      /\ totalColl' = totalColl - Gain(d)
      /\ UpdateDepositAndSnapshots(d, CompoundedDeposit(d) - withdrawn)
      /\ UNCHANGED poolVars
  BY DEF WithdrawFromSP
<1> HIDE DEF withdrawn
<1>4. CompoundedDeposit(d) - withdrawn \in Nat
  BY <1>1, <1>2
<1>5. totalSTARDeposits' \in Nat /\ totalColl' \in Nat
  BY <1>1, <1>2, <1>3 DEF SPInv, SPTypeOK
<1> QED
  BY <1>3, <1>4, <1>5, UpdateKeepsInv

\* The loss per unit, rounded up, takes off at least what was offset, and the
\* difference is the error carried over.
LEMMA LossBounds ==
    ASSUME SPInv, NEW debt \in Nat, debt # 0, debt <= totalSTARDeposits,
           debt = totalSTARDeposits \/ lastSTARLossError_Offset <= debt * Decimals
    PROVE  LossPerUnit(debt) \in Nat /\ LossError(debt, LossPerUnit(debt)) \in Nat
<1> DEFINE n == debt * Decimals - lastSTARLossError_Offset
           t == totalSTARDeposits
<1>1. t \in Nat \ {0} /\ Decimals \in Nat
  BY DecimalsPositive DEF SPInv, SPTypeOK
<1>2. CASE debt = t
  BY <1>1, <1>2 DEF LossPerUnit, LossError
<1>3. CASE debt # t
  <2>1. n \in Nat
    <3>1. debt * Decimals \in Nat
      BY <1>1, NatProduct
    <3> QED
      BY <1>3, <3>1 DEF SPInv, SPTypeOK
  <2>2. LossPerUnit(debt) = n \div t + 1
    BY <1>3 DEF LossPerUnit
  <2>3. LossError(debt, LossPerUnit(debt)) = (n \div t + 1) * t - n
    BY <1>3, <2>2 DEF LossError
  <2> HIDE DEF n, t
  <2>4. n \div t \in Nat /\ n < (n \div t + 1) * t
    BY <1>1, <2>1, QuotientNat, QuotientBounds
  <2>5. (n \div t + 1) * t \in Nat
    BY <1>1, <2>4, NatProduct
  <2> QED
    BY <2>1, <2>2, <2>3, <2>4, <2>5
<1> QED
  BY <1>2, <1>3

\* What an offset pays out per unit is no more than there is to pay.
LEMMA GainBounds ==
    ASSUME SPInv, NEW coll \in Nat, totalSTARDeposits # 0,
           NEW gain, gain = (Numerator(coll) * P) \div totalSTARDeposits
    PROVE  /\ gain \in Nat /\ gain * totalSTARDeposits <= Numerator(coll) * P
           /\ Numerator(coll) - (gain * totalSTARDeposits) \div P \in Nat
<1> DEFINE n == Numerator(coll)
           t == totalSTARDeposits
<1>1. t \in Nat \ {0} /\ P \in Nat \ {0} /\ n \in Nat
  BY DecimalsPositive DEF SPInv, SPTypeOK, Numerator
<1>6. gain = (n * P) \div t
  OBVIOUS
<1> HIDE DEF n, t
<1>2. n * P \in Nat
  BY <1>1, NatProduct
<1>3. gain \in Nat /\ gain * t <= n * P
  <2>1. (n * P) \div t \in Nat /\ ((n * P) \div t) * t <= n * P
    BY <1>1, <1>2, QuotientNat, QuotientBounds
  <2> QED
    BY <1>6, <2>1
<1> DEFINE paid == gain * t
<1>4. paid \in Nat /\ paid <= n * P
  BY <1>1, <1>3, NatProduct
<1>5. paid \div P \in Nat /\ paid \div P <= n
  <2> HIDE DEF paid
  <2> QED
    BY <1>1, <1>4, QuotientNat, QuotientAtMost
<1> QED
  BY <1>1, <1>3, <1>5 DEF n, t

\* A loss takes nothing from a product that it is not scaled up by.
LEMMA NextPBounds ==
    ASSUME SPInv, NEW factor \in Nat, factor <= Decimals
    PROVE  /\ NextP(factor) \in Nat
           /\ factor # 0 /\ ~ Rescaled(factor) => NextP(factor) <= P
           /\ factor # 0 /\ Rescaled(factor) => NextP(factor) <= P * ScaleFactor
<1>1. P \in Nat /\ Decimals \in Nat \ {0} /\ ScaleFactor \in Nat
  BY DecimalsPositive DEF SPInv, SPTypeOK
<1>2. P * factor \in Nat /\ P * factor <= P * Decimals
  BY <1>1, NatProduct, TimesMonotone
<1>3. (P * factor) \div Decimals \in Nat /\ (P * factor) \div Decimals <= P
  BY <1>1, <1>2, QuotientNat, QuotientAtMost
<1>4. /\ P * factor * ScaleFactor \in Nat
      /\ P * factor * ScaleFactor <= (P * Decimals) * ScaleFactor
  <2>1. P * Decimals \in Nat
    BY <1>1, NatProduct
  <2> QED
    BY <1>1, <1>2, <2>1, NatProduct, TimesMonotone
<1>5. (P * Decimals) * ScaleFactor = (P * ScaleFactor) * Decimals
  BY <1>1
<1>6. P * ScaleFactor \in Nat
  BY <1>1, NatProduct
<1>7. /\ (P * factor * ScaleFactor) \div Decimals \in Nat
      /\ (P * factor * ScaleFactor) \div Decimals <= P * ScaleFactor
  BY <1>1, <1>4, <1>5, <1>6, QuotientNat, QuotientAtMost
<1> QED
  BY <1>1, <1>3, <1>7 DEF NextP

\* An offset takes nothing from the product that the snapshots rely on.
LEMMA OffsetKeepsInv ==
    ASSUME SPInv, NEW debt \in Nat, NEW coll \in Nat, Offset(debt, coll)
    PROVE  SPInv'
<1> DEFINE loss == LossPerUnit(debt)
           gain == (Numerator(coll) * P) \div totalSTARDeposits
           place == <<currentEpoch, currentScale>>
           next == NextPlace(Decimals - loss)
<1>1. /\ totalSTARDeposits # 0 /\ debt # 0
      /\ debt <= totalSTARDeposits
      /\ offsets < MaxOffsets
      /\ debt = totalSTARDeposits \/ lastSTARLossError_Offset <= debt * Decimals
      /\ loss <= Decimals
      /\ NextP(Decimals - loss) # 0
      /\ lastSTARLossError_Offset' = LossError(debt, loss)
      /\ lastAssetError_Offset' = Numerator(coll) - (gain * totalSTARDeposits) \div P
      /\ epochToScaleToSum' = [epochToScaleToSum EXCEPT ![place] = @ + gain]
      /\ P' = NextP(Decimals - loss)
      /\ currentEpoch' = next[1]
      /\ currentScale' = next[2]
      /\ totalSTARDeposits' = totalSTARDeposits - debt
      /\ totalColl' = totalColl + coll
      /\ offsets' = offsets + 1
      /\ UNCHANGED depositVars
  BY DEF Offset
<1>2. loss \in Nat /\ LossError(debt, loss) \in Nat
  BY <1>1, LossBounds
<1>3. gain \in Nat /\ Numerator(coll) - (gain * totalSTARDeposits) \div P \in Nat
  BY <1>1, GainBounds
<1> DEFINE factor == Decimals - loss
<1> HIDE DEF loss, gain
<1>4. factor \in Nat /\ factor <= Decimals
  BY <1>1, <1>2, DecimalsPositive
<1>5. /\ NextP(factor) \in Nat
      /\ factor # 0 /\ ~ Rescaled(factor) => NextP(factor) <= P
      /\ factor # 0 /\ Rescaled(factor) => NextP(factor) <= P * ScaleFactor
  BY <1>4, NextPBounds
<1>6. \/ factor = 0 /\ currentEpoch' = currentEpoch + 1 /\ currentScale' = 0
      \/ /\ factor # 0 /\ Rescaled(factor)
         /\ currentEpoch' = currentEpoch /\ currentScale' = currentScale + 1
      \/ /\ factor # 0 /\ ~ Rescaled(factor)
         /\ currentEpoch' = currentEpoch /\ currentScale' = currentScale
  <2>1. currentEpoch' = NextPlace(factor)[1] /\ currentScale' = NextPlace(factor)[2]
    BY <1>1
  <2> HIDE DEF factor
  <2> QED
    BY <2>1 DEF NextPlace
<1>7. P' = NextP(factor) /\ P' # 0
  BY <1>1
<1> HIDE DEF factor, next
<1>8. SPTypeOK'
  <2>1. /\ P' \in Nat \ {0}
        /\ lastSTARLossError_Offset' \in Nat /\ lastAssetError_Offset' \in Nat
    BY <1>1, <1>2, <1>3, <1>5, <1>7
  <2>2. totalSTARDeposits' \in Nat /\ totalColl' \in Nat /\ offsets' \in 0..MaxOffsets
    BY <1>1, BoundsNat DEF SPInv, SPTypeOK
  <2>3. currentScale' \in 0..offsets' /\ currentEpoch' \in 0..offsets'
    BY <1>1, <1>6, BoundsNat DEF SPInv, SPTypeOK
  <2>4. epochToScaleToSum' \in [Places -> Nat]
    <3>1. place \in Places
      BY BoundsNat DEF SPInv, SPTypeOK, Places
    <3>2. epochToScaleToSum \in [Places -> Nat]
      BY DEF SPInv, SPTypeOK
    <3>3. epochToScaleToSum[place] + gain \in Nat
      BY <1>3, <3>1, <3>2
    <3> QED
      BY <1>1, <3>1, <3>2, <3>3
  <2>5. deposits' \in [Depositors -> Nat] /\ depositSnapshots' \in [Depositors -> SnapshotsOf]
    BY <1>1 DEF SPInv, SPTypeOK, depositVars
  <2> QED
    BY <2>1, <2>2, <2>3, <2>4, <2>5 DEF SPTypeOK
<1>9. ASSUME NEW d \in Depositors
      PROVE  SnapshotSound(d)'
  <2> DEFINE s == depositSnapshots[d]
  <2>1. deposits'[d] = deposits[d] /\ depositSnapshots'[d] = s
    BY <1>1 DEF depositVars
  <2> SUFFICES ASSUME deposits[d] # 0
               PROVE  /\ s.P # 0
                      /\ s.scale <= offsets'
                      /\ s.epoch <= currentEpoch'
                      /\ s.epoch = currentEpoch' => s.scale <= currentScale'
                      /\ s.epoch = currentEpoch' /\ s.scale = currentScale' => P' <= s.P
                      /\ s.epoch = currentEpoch' /\ s.scale + 1 = currentScale'
                            => P' <= s.P * ScaleFactor
    BY <2>1 DEF SnapshotSound
  <2>2. /\ s.P # 0
        /\ s.scale <= offsets
        /\ s.epoch <= currentEpoch
        /\ s.epoch = currentEpoch => s.scale <= currentScale
        /\ s.epoch = currentEpoch /\ s.scale = currentScale => P <= s.P
        /\ s.epoch = currentEpoch /\ s.scale + 1 = currentScale => P <= s.P * ScaleFactor
    BY DEF SPInv, SnapshotSound
  <2>3. s.P \in Nat /\ s.scale \in Nat /\ s.epoch \in Nat
    BY DEF SPInv, SPTypeOK, SnapshotsOf
  <2>4. /\ P \in Nat /\ P' \in Nat /\ currentScale \in Nat /\ currentEpoch \in Nat
        /\ offsets \in Nat /\ ScaleFactor \in Nat
    BY <1>5, <1>7, DecimalsPositive, BoundsNat DEF SPInv, SPTypeOK
  <2> HIDE DEF s
  <2>5. P <= s.P => P * ScaleFactor <= s.P * ScaleFactor
    BY <2>3, <2>4, TimesMonotone
  <2>6. P * ScaleFactor \in Nat /\ s.P * ScaleFactor \in Nat
    BY <2>3, <2>4, NatProduct
  <2>7. CASE factor = 0 /\ currentEpoch' = currentEpoch + 1 /\ currentScale' = 0
    BY <1>1, <2>2, <2>3, <2>4, <2>7
  <2>8. CASE /\ factor # 0 /\ Rescaled(factor)
             /\ currentEpoch' = currentEpoch /\ currentScale' = currentScale + 1
    <3>1. P' <= P * ScaleFactor
      BY <1>5, <1>7, <2>8
    <3> QED
      BY <1>1, <2>2, <2>3, <2>4, <2>5, <2>6, <2>8, <3>1
  <2>9. CASE /\ factor # 0 /\ ~ Rescaled(factor)
             /\ currentEpoch' = currentEpoch /\ currentScale' = currentScale
    <3>1. P' <= P
      BY <1>5, <1>7, <2>9
    <3> QED
      BY <1>1, <2>2, <2>3, <2>4, <2>6, <2>9, <3>1
  <2> QED
    BY <1>6, <2>7, <2>8, <2>9
<1> QED
  BY <1>8, <1>9 DEF SPInv

\* Nothing changes the invariant when nothing changes.
LEMMA StutterKeepsInv ==
    ASSUME SPInv, UNCHANGED spVars
    PROVE  SPInv'
BY DEF SPInv, SPTypeOK, SnapshotSound, spVars, poolVars, depositVars

\* Every snapshot stays of an earlier place, where the product was no smaller.
THEOREM SPInvariant == SPSpec => []SPInv
<1>1. SPInv /\ [SPNext]_spVars => SPInv'
  <2> SUFFICES ASSUME SPInv, [SPNext]_spVars PROVE SPInv'
    OBVIOUS
  <2>1. ASSUME NEW d \in Depositors, NEW amount \in Deposited, ProvideToSP(d, amount)
        PROVE  SPInv'
    BY <2>1, ProvideKeepsInv
  <2>2. ASSUME NEW d \in Depositors, NEW amount \in Deposited, WithdrawFromSP(d, amount)
        PROVE  SPInv'
    BY <2>2, WithdrawKeepsInv
  <2>3. ASSUME NEW o \in Offsets, Offset(o[1], o[2])
        PROVE  SPInv'
    <3>1. o[1] \in Nat /\ o[2] \in Nat
      BY OffsetsNat
    <3> QED
      BY <2>3, <3>1, OffsetKeepsInv
  <2>4. CASE UNCHANGED spVars
    BY <2>4, StutterKeepsInv
  <2> QED
    BY <2>1, <2>2, <2>3, <2>4 DEF SPNext
<1> QED
  BY <1>1, SPInvInit, PTL DEF SPSpec

-----------------------------------------------------------------------------
(* What the deposits are worth. *)

\* c, in units of 1 / k, is at least what the deposit of d has become.
WorthBound(d, c, k) ==
    LET s == depositSnapshots[d] IN
    deposits[d] # 0 /\ s.epoch = currentEpoch =>
        /\ s.scale = currentScale => deposits[d] * P * k <= c * s.P
        /\ s.scale + 1 = currentScale => deposits[d] * P * k <= c * (s.P * ScaleFactor)

\* Such bounds exist, and together, with the error carried over, they exceed
\* the pool by a Decimals-th of its largest size for each offset.
BackedBy(bound, k) ==
    /\ \A d \in Depositors : WorthBound(d, bound[d], k)
    /\ Decimals * SumFunctionOnSet(bound, Depositors) + k * lastSTARLossError_Offset
          <= k * (Decimals * totalSTARDeposits + MaxDeposits * offsets)

BackedInv ==
    /\ totalSTARDeposits <= MaxDeposits
    /\ lastSTARLossError_Offset <= MaxDeposits
    /\ \E k \in Nat \ {0}, bound \in [Depositors -> Nat] : BackedBy(bound, k)

\* Nothing is deposited at first, and the bounds are 0.
LEMMA BackedInit == SPInit => BackedInv
<1> SUFFICES ASSUME SPInit PROVE BackedInv
  OBVIOUS
<1> DEFINE bound == [d \in Depositors |-> 0]
<1>1. SumFunctionOnSet(bound, Depositors) = 0 * SumFunctionOnSet(bound, Depositors)
  <2>1. \A d \in Depositors : bound[d] \in Int /\ bound[d] = 0 * bound[d]
    OBVIOUS
  <2> HIDE DEF bound
  <2> QED
    BY <2>1, SumTimes, DepositorsFinite
<1>2. SumFunctionOnSet(bound, Depositors) = 0
  <2>1. SumFunctionOnSet(bound, Depositors) \in Int
    <3>1. \A d \in Depositors : bound[d] \in Int
      OBVIOUS
    <3> HIDE DEF bound
    <3> QED
      BY <3>1, SumInt, DepositorsFinite
  <2> QED
    BY <1>1, <2>1
<1>3. bound \in [Depositors -> Nat] /\ 1 \in Nat \ {0}
  OBVIOUS
<1>4. \A d \in Depositors : WorthBound(d, bound[d], 1)
  BY DEF SPInit, WorthBound
<1> HIDE DEF bound
<1>5. BackedBy(bound, 1)
  BY <1>2, <1>4, DecimalsPositive, BoundsNat DEF BackedBy, SPInit
<1> QED
  BY <1>3, <1>5, BoundsNat DEF BackedInv, SPInit

\* What a deposit counts as is within its bound.
LEMMA WorthWithinBound ==
    ASSUME SPInv, NEW d \in Depositors, NEW c \in Nat, NEW k \in Nat \ {0}, WorthBound(d, c, k)
    PROVE  k * CompoundedDeposit(d) <= c
<1> DEFINE s == depositSnapshots[d]
           D == deposits[d]
           w == CompoundedDeposit(d)
<1> SUFFICES k * w <= c
  OBVIOUS
<1>1. w \in Nat /\ D \in Nat /\ P \in Nat /\ ScaleFactor \in Nat \ {0}
  BY CompoundedIsNat, DecimalsPositive DEF SPInv, SPTypeOK
<1>2. CASE w = 0
  BY <1>2
<1>3. CASE w # 0
  <2>1. D # 0 /\ ~ (s.epoch < currentEpoch) /\ w = CompoundedAcross(D, s)
    BY <1>3 DEF CompoundedDeposit
  <2>2. s.P \in Nat \ {0} /\ s.epoch = currentEpoch /\ s.scale \in Nat /\ currentScale \in Nat
    <3>1. s \in SnapshotsOf /\ currentEpoch \in Nat /\ currentScale \in Nat
      BY DEF SPInv, SPTypeOK
    <3>2. s.P # 0 /\ s.epoch <= currentEpoch
      BY <2>1 DEF SPInv, SnapshotSound
    <3> HIDE DEF s
    <3> QED
      BY <2>1, <3>1, <3>2 DEF SnapshotsOf
  <2>3. /\ s.scale = currentScale => D * P * k <= c * s.P
        /\ s.scale + 1 = currentScale => D * P * k <= c * (s.P * ScaleFactor)
    BY <2>1, <2>2 DEF WorthBound
  <2>4. \/ currentScale = s.scale /\ w = (D * P) \div s.P
        \/ /\ currentScale = s.scale + 1
           /\ w = ((D * P) \div s.P) \div ScaleFactor
    <3>1. s.scale # s.scale + 1
      BY <2>2
    <3> HIDE DEF D, s, w
    <3> QED
      BY <1>3, <2>1, <3>1 DEF CompoundedAcross
  <2>5. D * P \in Nat
    BY <1>1, NatProduct
  <2> HIDE DEF D, s, w
  <2>6. CASE currentScale = s.scale /\ w = (D * P) \div s.P
    <3>1. w * s.P <= D * P
      <4> DEFINE worth == D * P
      <4>1. w = worth \div s.P /\ worth \in Nat
        BY <2>5, <2>6
      <4> HIDE DEF worth
      <4>2. (worth \div s.P) * s.P <= worth
        BY <2>2, <4>1, QuotientBounds
      <4>3. w * s.P <= worth
        BY <4>1, <4>2
      <4> QED
        BY <4>3 DEF worth
    <3>2. (w * s.P) * k <= (D * P) * k
      BY <1>1, <2>2, <2>5, <3>1, NatProduct, TimesMonotone
    <3>3. (k * w) * s.P <= c * s.P
      <4>1. (w * s.P) * k = (k * w) * s.P
        BY <1>1, <2>2
      <4>2. D * P * k <= c * s.P
        BY <2>3, <2>6
      <4>3. (D * P) * k \in Nat /\ (k * w) * s.P \in Nat /\ c * s.P \in Nat
        BY <1>1, <2>2, <2>5, NatProduct
      <4> QED
        BY <3>2, <4>1, <4>2, <4>3
    <3> QED
      BY <1>1, <2>2, <3>3, FactorAtMost, NatProduct
  <2>7. CASE currentScale = s.scale + 1 /\ w = ((D * P) \div s.P) \div ScaleFactor
    <3> DEFINE q == (D * P) \div s.P
    <3>1. q \in Nat /\ q * s.P <= D * P
      BY <2>2, <2>5, QuotientBounds, QuotientNat
    <3> HIDE DEF q
    <3>2. w * ScaleFactor <= q
      <4>1. w = q \div ScaleFactor
        BY <2>7 DEF q
      <4> QED
        BY <1>1, <3>1, <4>1, QuotientBounds
    <3>3. (w * ScaleFactor) * s.P <= q * s.P
      BY <1>1, <2>2, <3>1, <3>2, NatProduct, TimesMonotone
    <3>4. (w * ScaleFactor) * s.P <= D * P
      BY <1>1, <2>2, <2>5, <3>1, <3>3, NatProduct
    <3>5. ((w * ScaleFactor) * s.P) * k <= (D * P) * k
      BY <1>1, <2>2, <2>5, <3>4, NatProduct, TimesMonotone
    <3>6. (k * w) * (s.P * ScaleFactor) <= c * (s.P * ScaleFactor)
      <4>1. ((w * ScaleFactor) * s.P) * k = (k * w) * (s.P * ScaleFactor)
        BY <1>1, <2>2
      <4>2. D * P * k <= c * (s.P * ScaleFactor)
        BY <2>3, <2>7
      <4>3. /\ s.P * ScaleFactor \in Nat
            /\ (D * P) * k \in Nat /\ (k * w) * (s.P * ScaleFactor) \in Nat
            /\ c * (s.P * ScaleFactor) \in Nat
        BY <1>1, <2>2, <2>5, NatProduct
      <4> QED
        BY <3>5, <4>1, <4>2, <4>3
    <3>7. s.P * ScaleFactor \in Nat \ {0}
      BY <1>1, <2>2, PositiveProduct
    <3> QED
      BY <1>1, <3>6, <3>7, FactorAtMost, NatProduct
  <2> QED
    BY <2>4, <2>6, <2>7 DEF w
<1> QED
  BY <1>2, <1>3

\* A depositor's operation sets the bound of that deposit to what it is.
LEMMA UpdateKeepsBacked ==
    ASSUME SPInv, BackedInv, NEW d \in Depositors, NEW value \in Nat, NEW moved \in Int,
           UpdateDepositAndSnapshots(d, value), UNCHANGED poolVars,
           value = CompoundedDeposit(d) + moved,
           totalSTARDeposits' = totalSTARDeposits + moved,
           totalSTARDeposits' <= MaxDeposits
    PROVE  BackedInv'
<1>1. PICK k \in Nat \ {0}, bound \in [Depositors -> Nat] : BackedBy(bound, k)
  BY DEF BackedInv
<1> DEFINE next == [bound EXCEPT ![d] = k * value]
           error == lastSTARLossError_Offset
           S == SumFunctionOnSet(bound, Depositors)
           T == SumFunctionOnSet(next, Depositors)
           O == MaxDeposits * offsets
           total == totalSTARDeposits
           w == CompoundedDeposit(d)
<1>2. k * value \in Nat /\ next \in [Depositors -> Nat]
  BY NatProduct
<1>3. deposits' = [deposits EXCEPT ![d] = value]
      /\ depositSnapshots' = [depositSnapshots EXCEPT ![d] = SnapshotFor(d, value)]
  BY DEF UpdateDepositAndSnapshots
<1>4. ASSUME NEW e \in Depositors
      PROVE  WorthBound(e, next[e], k)'
  <2>1. P' = P /\ currentScale' = currentScale /\ currentEpoch' = currentEpoch
    BY DEF poolVars
  <2>2. CASE e # d
    <3>1. /\ deposits'[e] = deposits[e] /\ depositSnapshots'[e] = depositSnapshots[e]
          /\ next[e] = bound[e]
      BY <1>3, <2>2 DEF SPInv, SPTypeOK
    <3>2. WorthBound(e, bound[e], k)
      BY <1>1 DEF BackedBy
    <3> QED
      BY <2>1, <3>1, <3>2 DEF WorthBound
  <2>3. CASE e = d
    <3>1. /\ deposits'[e] = value /\ depositSnapshots'[e] = SnapshotFor(d, value)
          /\ next[e] = k * value
      BY <1>3, <2>3 DEF SPInv, SPTypeOK
    <3>2. value # 0 => /\ depositSnapshots'[e].P = P
                       /\ depositSnapshots'[e].scale = currentScale
      BY <3>1 DEF SnapshotFor, CurrentSnapshot
    <3>3. value * P * k <= (k * value) * P
      <4>1. P \in Nat /\ value \in Nat /\ k \in Nat
        BY DEF SPInv, SPTypeOK
      <4>2. value * P * k = (k * value) * P /\ (k * value) * P \in Nat
        BY <4>1
      <4> QED
        BY <4>2
    <3>4. currentScale \in Nat
      BY BoundsNat DEF SPInv, SPTypeOK
    <3> HIDE DEF next
    <3> QED
      BY <2>1, <3>1, <3>2, <3>3, <3>4 DEF WorthBound
  <2> QED
    BY <2>2, <2>3
<1>5. S \in Int /\ T = S - bound[d] + k * value
  <2>1. \A e \in Depositors :
          bound[e] \in Int /\ next[e] \in Int /\ (e # d => next[e] = bound[e])
    BY <1>2
  <2>2. next[d] = k * value
    OBVIOUS
  <2> HIDE DEF next
  <2>3. T = S - bound[d] + next[d]
    BY <2>1, SumChange, DepositorsFinite
  <2>4. S \in Int
    BY <2>1, SumInt, DepositorsFinite
  <2> QED
    BY <2>2, <2>3, <2>4
<1>6. k * w <= bound[d]
  BY <1>1, WorthWithinBound DEF BackedBy
<1>7. Decimals * S + k * error <= k * (Decimals * total + O)
  BY <1>1 DEF BackedBy
<1>8. Decimals * T + k * error <= k * (Decimals * (total + moved) + O)
  <2>1. /\ w \in Nat /\ value = w + moved /\ bound[d] \in Nat
        /\ Decimals \in Nat /\ total \in Nat /\ O \in Nat /\ error \in Nat
    BY CompoundedIsNat, DecimalsPositive, BoundsNat, NatProduct DEF SPInv, SPTypeOK
  <2> DEFINE b == bound[d]
  <2> HIDE DEF S, T, O, total, w, error, b
  <2>2. T = S - b + k * value /\ S \in Int /\ b \in Nat
    BY <1>5, <2>1 DEF b
  <2>3. k * value = k * w + k * moved
    BY <2>1
  <2>4. Decimals * (k * w - b) <= 0
    <3>1. k * w \in Nat /\ b \in Nat /\ k * w <= b
      BY <1>6, <2>1, NatProduct DEF b
    <3>2. Decimals * (k * w) <= Decimals * b
      BY <2>1, <3>1, TimesMonotone
    <3>3. Decimals * (k * w - b) = Decimals * (k * w) - Decimals * b
      BY <2>1, <3>1
    <3>4. Decimals * (k * w) \in Nat /\ Decimals * b \in Nat
      BY <2>1, <3>1, NatProduct
    <3> QED
      BY <3>2, <3>3, <3>4
  <2>5. Decimals * T = Decimals * S + Decimals * (k * w - b) + Decimals * (k * moved)
    BY <2>1, <2>2, <2>3
  <2>6. k * (Decimals * (total + moved) + O)
          = k * (Decimals * total + O) + Decimals * (k * moved)
    BY <2>1
  <2>7. /\ Decimals * S \in Int /\ k * error \in Int /\ Decimals * (k * w - b) \in Int
        /\ Decimals * (k * moved) \in Int /\ k * (Decimals * total + O) \in Int
    BY <2>1, <2>2
  <2> QED
    BY <1>7, <2>4, <2>5, <2>6, <2>7
<1>9. BackedBy(next, k)'
  <2>1. lastSTARLossError_Offset' = error /\ offsets' = offsets
    BY DEF poolVars
  <2>2. \A e \in Depositors : WorthBound(e, next[e], k)'
    BY <1>4
  <2> HIDE DEF next
  <2> QED
    BY <1>8, <2>1, <2>2 DEF BackedBy
<1> HIDE DEF next
<1> QED
  BY <1>2, <1>9 DEF BackedInv, poolVars

\* What is provided goes into the pool and onto the bound of the deposit.
LEMMA ProvideKeepsBacked ==
    ASSUME SPInv, BackedInv, NEW d \in Depositors, NEW amount \in Deposited,
           ProvideToSP(d, amount)
    PROVE  BackedInv'
<1>1. CompoundedDeposit(d) \in Nat /\ amount \in Nat
  BY CompoundedIsNat, DepositedNat
<1>2. CompoundedDeposit(d) + amount \in Nat
  BY <1>1
<1> QED
  BY <1>1, <1>2, UpdateKeepsBacked DEF ProvideToSP

\* What is withdrawn comes out of the pool and off the bound of the deposit.
LEMMA WithdrawKeepsBacked ==
    ASSUME SPInv, BackedInv, NEW d \in Depositors, NEW amount \in Deposited,
           WithdrawFromSP(d, amount)
    PROVE  BackedInv'
<1> DEFINE withdrawn == Min({amount, CompoundedDeposit(d)})
<1>1. CompoundedDeposit(d) \in Nat /\ amount \in Nat
  BY CompoundedIsNat, DepositedNat
<1>2. withdrawn \in Nat /\ withdrawn <= CompoundedDeposit(d)
  BY <1>1, MinOfTwo
<1>3. /\ totalSTARDeposits' = totalSTARDeposits - withdrawn
      /\ UpdateDepositAndSnapshots(d, CompoundedDeposit(d) - withdrawn)
      /\ UNCHANGED poolVars
  BY DEF WithdrawFromSP
<1> HIDE DEF withdrawn
<1>4. /\ CompoundedDeposit(d) - withdrawn \in Nat
      /\ CompoundedDeposit(d) - withdrawn = CompoundedDeposit(d) + (0 - withdrawn)
      /\ 0 - withdrawn \in Int
      /\ totalSTARDeposits' = totalSTARDeposits + (0 - withdrawn)
      /\ totalSTARDeposits' <= MaxDeposits
  BY <1>1, <1>2, <1>3, BoundsNat DEF BackedInv, SPInv, SPTypeOK
<1> QED
  BY <1>3, <1>4, UpdateKeepsBacked

\* The arithmetic of an offset.  Of the loss, the error that was carried over
\* has already been taken off the deposits as they were before.
LEMMA OffsetArithmetic ==
    ASSUME NEW D \in Nat, NEW f \in Nat, f <= D,
           NEW S \in Nat, NEW k \in Nat, NEW t \in Nat, NEW u \in Nat,
           NEW e \in Nat, NEW g \in Nat, NEW O \in Nat, NEW m \in Nat, e <= m,
           D * S + k * e <= k * (D * t + O),
           t * f + g <= D * u + e
    PROVE  D * (f * S) + (k * D) * g <= (k * D) * (D * u + (O + m))
<1> DEFINE X == D * (f * t) + f * O - f * e
           Y == D * (D * u + (O + m) - g)
<1>1. f * (D * S + k * e) <= f * (k * (D * t + O))
  <2>1. D * S + k * e \in Nat /\ k * (D * t + O) \in Nat
    BY NatProduct
  <2> QED
    BY <2>1, TimesMonotone
<1>2. D * (f * S) <= k * X
  <2>1. f * (D * S + k * e) = D * (f * S) + k * (f * e)
    OBVIOUS
  <2>2. f * (k * (D * t + O)) = k * (D * (f * t) + f * O)
    OBVIOUS
  <2>3. k * X = k * (D * (f * t) + f * O) - k * (f * e)
    OBVIOUS
  <2>4. D * (f * S) \in Int /\ k * (f * e) \in Int /\ k * (D * (f * t) + f * O) \in Int
    OBVIOUS
  <2> HIDE DEF X
  <2> QED
    BY <1>1, <2>1, <2>2, <2>3, <2>4
<1>3. X <= Y
  <2>1. D * (t * f - e) + D * O + D * m <= Y
    <3> DEFINE z == t * f - e
               y == D * u - g
    <3>1. z \in Int /\ y \in Int /\ z <= y
      <4>1. t * f \in Int /\ D * u \in Int
        OBVIOUS
      <4> QED
        BY <4>1
    <3>2. Y = D * (y + O + m)
      OBVIOUS
    <3> HIDE DEF z, y, Y
    <3>3. z + O + m <= y + O + m /\ z + O + m \in Int /\ y + O + m \in Int
      BY <3>1
    <3>4. D * (z + O + m) <= D * (y + O + m)
      BY <3>3, TimesMonotone
    <3>5. D * (z + O + m) = D * z + D * O + D * m
      BY <3>1
    <3> QED
      BY <3>2, <3>4, <3>5 DEF z
  <2>2. D * (t * f - e) = D * (f * t) - D * e
    OBVIOUS
  <2>3. f * O <= D * O
    BY TimesMonotone
  <2>4. (D - f) * e <= D * m
    <3>1. (D - f) * e <= D * e
      BY TimesMonotone
    <3>2. D * e <= D * m
      BY TimesMonotone
    <3>3. (D - f) * e \in Int /\ D * e \in Int /\ D * m \in Int
      OBVIOUS
    <3> QED
      BY <3>1, <3>2, <3>3
  <2>5. (D - f) * e = D * e - f * e
    OBVIOUS
  <2>6. /\ D * (f * t) \in Int /\ f * O \in Int /\ D * O \in Int /\ f * e \in Int
        /\ D * e \in Int /\ D * m \in Int /\ Y \in Int
    OBVIOUS
  <2>7. X = D * (f * t) + f * O - f * e
    OBVIOUS
  <2> HIDE DEF X, Y
  <2> QED
    BY <2>1, <2>2, <2>3, <2>4, <2>5, <2>6, <2>7
<1>4. X \in Int /\ Y \in Int
  OBVIOUS
<1>5. k * Y = (k * D) * (D * u + (O + m)) - (k * D) * g
  OBVIOUS
<1>6. /\ (k * D) * (D * u + (O + m)) \in Int /\ (k * D) * g \in Int
      /\ D * (f * S) \in Int
  OBVIOUS
<1> HIDE DEF X, Y
<1>7. k * X <= k * Y
  BY <1>3, <1>4, TimesMonotone
<1>8. k * X \in Int /\ k * Y \in Int
  BY <1>4
<1> QED
  BY <1>2, <1>5, <1>6, <1>7, <1>8

\* What an offset takes off the pool, and the error it leaves.
LEMMA LossFeedback ==
    ASSUME SPInv, NEW debt \in Nat, debt # 0, debt <= totalSTARDeposits,
           debt = totalSTARDeposits \/ lastSTARLossError_Offset <= debt * Decimals,
           NEW loss, loss = LossPerUnit(debt)
    PROVE  /\ LossError(debt, loss) <= totalSTARDeposits
           /\ totalSTARDeposits * (Decimals - loss) + LossError(debt, loss)
                <= Decimals * (totalSTARDeposits - debt) + lastSTARLossError_Offset
<1> DEFINE n == debt * Decimals - lastSTARLossError_Offset
           t == totalSTARDeposits
           e == lastSTARLossError_Offset
<1>1. t \in Nat \ {0} /\ Decimals \in Nat /\ e \in Nat
  BY DecimalsPositive DEF SPInv, SPTypeOK
<1>2. CASE debt = t
  <2>1. loss = Decimals /\ LossError(debt, loss) = 0
    BY <1>2 DEF LossPerUnit, LossError
  <2>2. t * (Decimals - loss) + 0 = 0 /\ Decimals * (t - debt) + e = e
    BY <1>1, <1>2, <2>1
  <2> QED
    BY <1>1, <2>1, <2>2
<1>3. CASE debt # t
  <2> DEFINE q == n \div t
             back == q * t
  <2>1. n \in Nat
    <3>1. debt * Decimals \in Nat
      BY <1>1, NatProduct
    <3> QED
      BY <1>3, <3>1 DEF SPInv, SPTypeOK
  <2>2. loss = q + 1 /\ LossError(debt, loss) = loss * t - n
    BY <1>3 DEF LossPerUnit, LossError
  <2>3. q \in Nat /\ back <= n /\ back \in Nat
    <3> HIDE DEF n, t
    <3>1. n \div t \in Nat /\ (n \div t) * t <= n
      BY <1>1, <2>1, QuotientNat, QuotientBounds
    <3> QED
      BY <1>1, <3>1, NatProduct
  <2>4. n = debt * Decimals - e
    OBVIOUS
  <2> HIDE DEF n, t, q, e
  <2>5. loss * t = back + t /\ loss \in Nat
    BY <1>1, <2>2, <2>3
  <2> HIDE DEF back
  <2>6. LossError(debt, loss) <= t
    BY <1>1, <2>1, <2>2, <2>3, <2>5
  <2>7. t * (Decimals - loss) = Decimals * t - loss * t
    BY <1>1, <2>5
  <2>8. Decimals * (t - debt) = Decimals * t - debt * Decimals
    BY <1>1
  <2>9. Decimals * t \in Int /\ loss * t \in Int /\ debt * Decimals \in Int
    BY <1>1, <2>5
  <2>10. t * (Decimals - loss) + LossError(debt, loss) <= Decimals * (t - debt) + e
    BY <1>1, <2>1, <2>2, <2>4, <2>7, <2>8, <2>9
  <2> QED
    BY <2>6, <2>10 DEF t, e
<1> QED
  BY <1>2, <1>3 DEF t, e

\* A product that shrinks by f of D, and is scaled by y, against its bound.
LEMMA ShrinkBound ==
    ASSUME NEW d \in Nat, NEW p \in Nat, NEW q \in Nat, NEW k \in Nat,
           NEW D \in Nat, NEW f \in Nat, NEW c \in Nat, NEW x \in Nat, NEW y \in Nat,
           d * p * k <= c * x, q * D <= (p * f) * y
    PROVE  d * q * (k * D) <= (f * c) * (x * y)
<1>1. (d * k) * (q * D) <= (d * k) * ((p * f) * y)
  <2>1. d * k \in Nat /\ q * D \in Nat /\ (p * f) * y \in Nat
    BY NatProduct
  <2> QED
    BY <2>1, TimesMonotone
<1>2. (f * y) * (d * p * k) <= (f * y) * (c * x)
  <2>1. d * p * k \in Nat /\ c * x \in Nat /\ f * y \in Nat
    BY NatProduct
  <2> QED
    BY <2>1, TimesMonotone
<1>3. /\ d * q * (k * D) = (d * k) * (q * D)
      /\ (f * y) * (d * p * k) = (d * k) * ((p * f) * y)
      /\ (f * y) * (c * x) = (f * c) * (x * y)
  OBVIOUS
<1>4. /\ (d * k) * (q * D) \in Int /\ (d * k) * ((p * f) * y) \in Int
      /\ (f * c) * (x * y) \in Int
  OBVIOUS
<1> QED
  BY <1>1, <1>2, <1>3, <1>4

\* A quotient by Decimals, multiplied again, is no more than what was divided.
LEMMA ShrunkProduct ==
    ASSUME NEW p \in Nat, NEW f \in Nat, NEW y \in Nat, NEW q,
           q = (p * f * y) \div Decimals
    PROVE  q \in Nat /\ q * Decimals <= (p * f) * y
<1> DEFINE a == p * f * y
<1>1. a \in Nat /\ Decimals \in Nat \ {0}
  BY NatProduct, DecimalsPositive
<1>2. q = a \div Decimals /\ a = (p * f) * y
  OBVIOUS
<1> HIDE DEF a
<1>3. a \div Decimals \in Nat /\ (a \div Decimals) * Decimals <= a
  BY <1>1, QuotientNat, QuotientBounds
<1> QED
  BY <1>2, <1>3

\* An offset multiplies every bound by what is left of a unit.
LEMMA OffsetKeepsWorth ==
    ASSUME SPInv, NEW f \in Nat, NEW k \in Nat, NEW d \in Depositors, NEW c \in Nat,
           WorthBound(d, c, k),
           P' = NextP(f), currentEpoch' = NextPlace(f)[1], currentScale' = NextPlace(f)[2],
           deposits' = deposits, depositSnapshots' = depositSnapshots
    PROVE  WorthBound(d, f * c, k * Decimals)'
<1> DEFINE s == depositSnapshots[d]
           D == deposits[d]
<1>1. PICK q : q = P'
  OBVIOUS
<1> SUFFICES ASSUME D # 0, s.epoch = currentEpoch'
             PROVE  /\ s.scale = currentScale' => D * q * (k * Decimals) <= (f * c) * s.P
                    /\ s.scale + 1 = currentScale'
                         => D * q * (k * Decimals) <= (f * c) * (s.P * ScaleFactor)
  BY <1>1 DEF WorthBound
<1>2. /\ s.P \in Nat \ {0} /\ s.scale \in Nat /\ s.epoch \in Nat
      /\ s.epoch <= currentEpoch /\ currentEpoch \in Nat
      /\ s.epoch = currentEpoch => s.scale <= currentScale
      /\ currentScale \in Nat /\ P \in Nat /\ D \in Nat
      /\ ScaleFactor \in Nat \ {0} /\ Decimals \in Nat \ {0}
  BY BoundsNat, DecimalsPositive DEF SPInv, SPTypeOK, SnapshotSound, SnapshotsOf
<1>3. s.epoch = currentEpoch =>
        /\ s.scale = currentScale => D * P * k <= c * s.P
        /\ s.scale + 1 = currentScale => D * P * k <= c * (s.P * ScaleFactor)
  BY DEF WorthBound
<1> HIDE DEF s, D
<1>4. f # 0 /\ s.epoch = currentEpoch
  BY <1>2 DEF NextPlace
<1>5. CASE Rescaled(f)
  <2>1. currentScale' = currentScale + 1
    BY <1>4, <1>5 DEF NextPlace
  <2>2. q \in Nat /\ q * Decimals <= (P * f) * ScaleFactor
    <3>1. q = (P * f * ScaleFactor) \div Decimals
      BY <1>1, <1>4, <1>5 DEF NextP
    <3> QED
      BY <1>2, <3>1, ShrunkProduct
  <2>3. s.scale # currentScale'
    BY <1>2, <1>4, <2>1
  <2>4. ASSUME s.scale + 1 = currentScale'
        PROVE  D * q * (k * Decimals) <= (f * c) * (s.P * ScaleFactor)
    <3>1. D * P * k <= c * s.P
      BY <1>2, <1>3, <1>4, <2>1, <2>4
    <3> QED
      BY <1>2, <2>2, <3>1, ShrinkBound
  <2> QED
    BY <2>3, <2>4
<1>6. CASE ~ Rescaled(f)
  <2>1. currentScale' = currentScale
    BY <1>4, <1>6 DEF NextPlace
  <2>2. q \in Nat /\ q * Decimals <= (P * f) * 1
    <3>1. q = (P * f * 1) \div Decimals
      <4>1. q = (P * f) \div Decimals
        BY <1>1, <1>4, <1>6 DEF NextP
      <4>2. P * f * 1 = P * f
        BY <1>2
      <4> QED
        BY <4>1, <4>2
    <3> QED
      BY <1>2, <3>1, ShrunkProduct
  <2>3. ASSUME NEW x \in Nat, D * P * k <= c * x
        PROVE  D * q * (k * Decimals) <= (f * c) * x
    <3>1. D * q * (k * Decimals) <= (f * c) * (x * 1)
      BY <1>2, <2>2, <2>3, ShrinkBound
    <3> QED
      BY <3>1
  <2>4. s.P \in Nat /\ s.P * ScaleFactor \in Nat
    BY <1>2, NatProduct
  <2> QED
    BY <1>2, <1>3, <1>4, <2>1, <2>3, <2>4
<1> QED
  BY <1>5, <1>6

\* An offset keeps the bounds: what is left of a unit, and of the error carried
\* over, for every depositor.
LEMMA OffsetKeepsBacked ==
    ASSUME SPInv, SPInv', BackedInv, NEW debt \in Nat, NEW coll \in Nat, Offset(debt, coll)
    PROVE  BackedInv'
<1>1. PICK loss : loss = LossPerUnit(debt)
  OBVIOUS
<1>2. PICK f : f = Decimals - loss
  OBVIOUS
<1>3. /\ totalSTARDeposits # 0 /\ debt # 0
      /\ debt <= totalSTARDeposits
      /\ debt = totalSTARDeposits \/ lastSTARLossError_Offset <= debt * Decimals
      /\ loss <= Decimals
      /\ lastSTARLossError_Offset' = LossError(debt, loss)
      /\ P' = NextP(f)
      /\ currentEpoch' = NextPlace(f)[1]
      /\ currentScale' = NextPlace(f)[2]
      /\ totalSTARDeposits' = totalSTARDeposits - debt
      /\ offsets' = offsets + 1
      /\ deposits' = deposits /\ depositSnapshots' = depositSnapshots
  BY <1>1, <1>2 DEF Offset, depositVars
<1>4. loss \in Nat
  BY <1>1, <1>3, LossBounds
<1>5. /\ lastSTARLossError_Offset' <= totalSTARDeposits
      /\ totalSTARDeposits * f + lastSTARLossError_Offset'
           <= Decimals * totalSTARDeposits' + lastSTARLossError_Offset
  <2>1. /\ LossError(debt, loss) <= totalSTARDeposits
        /\ totalSTARDeposits * (Decimals - loss) + LossError(debt, loss)
             <= Decimals * (totalSTARDeposits - debt) + lastSTARLossError_Offset
    BY <1>1, <1>3, LossFeedback
  <2> QED
    BY <1>2, <1>3, <2>1
<1>6. f \in Nat /\ f <= Decimals /\ Decimals \in Nat \ {0}
  BY <1>2, <1>3, <1>4, DecimalsPositive
<1>7. PICK k \in Nat \ {0}, bound \in [Depositors -> Nat] : BackedBy(bound, k)
  BY DEF BackedInv
<1> DEFINE next == [d \in Depositors |-> f * bound[d]]
           j == k * Decimals
<1>8. next \in [Depositors -> Nat] /\ j \in Nat \ {0}
  <2>1. \A d \in Depositors : f * bound[d] \in Nat
    BY <1>6, NatProduct
  <2>2. j \in Nat \ {0}
    BY <1>6, PositiveProduct
  <2> QED
    BY <2>1, <2>2
<1>9. /\ SumFunctionOnSet(next, Depositors) = f * SumFunctionOnSet(bound, Depositors)
      /\ SumFunctionOnSet(bound, Depositors) \in Nat
  <2>1. \A d \in Depositors : bound[d] \in Int /\ next[d] = f * bound[d]
    OBVIOUS
  <2>2. \A d \in Depositors : bound[d] \in Nat
    OBVIOUS
  <2> HIDE DEF next
  <2>3. SumFunctionOnSet(next, Depositors) = f * SumFunctionOnSet(bound, Depositors)
    BY <1>6, <2>1, SumTimes, DepositorsFinite
  <2> QED
    BY <2>2, <2>3, SumNat, DepositorsFinite
<1>10. Decimals * SumFunctionOnSet(next, Depositors) + j * lastSTARLossError_Offset'
        <= j * (Decimals * totalSTARDeposits' + MaxDeposits * offsets')
  <2> DEFINE S == SumFunctionOnSet(bound, Depositors)
             O == MaxDeposits * offsets
             t == totalSTARDeposits
             u == totalSTARDeposits'
             e == lastSTARLossError_Offset
             g == lastSTARLossError_Offset'
  <2>1. /\ S \in Nat /\ O \in Nat /\ t \in Nat /\ u \in Nat /\ e \in Nat /\ g \in Nat
        /\ MaxDeposits \in Nat /\ e <= MaxDeposits
    BY <1>9, BoundsNat, NatProduct DEF SPInv, SPTypeOK, BackedInv
  <2>2. Decimals * S + k * e <= k * (Decimals * t + O)
    BY <1>7 DEF BackedBy
  <2>3. t * f + g <= Decimals * u + e
    BY <1>5
  <2>4. MaxDeposits * offsets' = O + MaxDeposits
    <3>1. offsets \in Nat
      BY BoundsNat DEF SPInv, SPTypeOK
    <3> QED
      BY <1>3, <3>1, BoundsNat
  <2>5. SumFunctionOnSet(next, Depositors) = f * S
    BY <1>9
  <2> HIDE DEF S, O, t, u, e, g, next
  <2>6. Decimals * (f * S) + (k * Decimals) * g
          <= (k * Decimals) * (Decimals * u + (O + MaxDeposits))
    BY <1>6, <2>1, <2>2, <2>3, OffsetArithmetic
  <2> QED
    BY <2>4, <2>5, <2>6 DEF u, g
<1>11. \A d \in Depositors : WorthBound(d, next[d], j)'
  <2> SUFFICES ASSUME NEW d \in Depositors
               PROVE  WorthBound(d, next[d], j)'
    OBVIOUS
  <2>1. PICK c : c = bound[d]
    OBVIOUS
  <2>2. next[d] = f * c /\ c \in Nat /\ WorthBound(d, c, k)
    BY <1>7, <2>1 DEF BackedBy
  <2>3. WorthBound(d, f * c, k * Decimals)'
    BY <1>3, <1>6, <2>2, OffsetKeepsWorth
  <2> HIDE DEF next
  <2> QED
    BY <2>2, <2>3
<1> HIDE DEF next, j
<1>12. BackedBy(next, j)'
  BY <1>10, <1>11 DEF BackedBy
<1>13. totalSTARDeposits' <= MaxDeposits /\ lastSTARLossError_Offset' <= MaxDeposits
  BY <1>3, <1>5, BoundsNat DEF SPInv, SPTypeOK, BackedInv
<1> QED
  BY <1>8, <1>12, <1>13 DEF BackedInv

\* The bounds stay when nothing changes.
LEMMA StutterKeepsBacked ==
    ASSUME BackedInv, UNCHANGED spVars
    PROVE  BackedInv'
<1>1. PICK k \in Nat \ {0}, bound \in [Depositors -> Nat] : BackedBy(bound, k)
  BY DEF BackedInv
<1>2. BackedBy(bound, k)'
  BY <1>1 DEF BackedBy, WorthBound, spVars, poolVars, depositVars
<1> QED
  BY <1>2 DEF BackedInv, spVars, poolVars

\* There are always bounds on the deposits that the pool holds together.
THEOREM BackedInvariant == SPSpec => []BackedInv
<1>1. SPInv /\ SPInv' /\ BackedInv /\ [SPNext]_spVars => BackedInv'
  <2> SUFFICES ASSUME SPInv, SPInv', BackedInv, [SPNext]_spVars PROVE BackedInv'
    OBVIOUS
  <2>1. ASSUME NEW d \in Depositors, NEW amount \in Deposited, ProvideToSP(d, amount)
        PROVE  BackedInv'
    BY <2>1, ProvideKeepsBacked
  <2>2. ASSUME NEW d \in Depositors, NEW amount \in Deposited, WithdrawFromSP(d, amount)
        PROVE  BackedInv'
    BY <2>2, WithdrawKeepsBacked
  <2>3. ASSUME NEW o \in Offsets, Offset(o[1], o[2])
        PROVE  BackedInv'
    <3>1. o[1] \in Nat /\ o[2] \in Nat
      BY OffsetsNat
    <3> QED
      BY <2>3, <3>1, OffsetKeepsBacked
  <2>4. CASE UNCHANGED spVars
    BY <2>4, StutterKeepsBacked
  <2> QED
    BY <2>1, <2>2, <2>3, <2>4 DEF SPNext
<1> QED
  BY <1>1, BackedInit, SPInvariant, PTL DEF SPSpec

\* Bounds that together are within the pool leave the deposits within it.
LEMMA BackedImpliesDeposits ==
    ASSUME SPInv, BackedInv
    PROVE  DepositsBacked
<1>1. PICK k \in Nat \ {0}, bound \in [Depositors -> Nat] : BackedBy(bound, k)
  BY DEF BackedInv
<1> DEFINE worth == [d \in Depositors |-> CompoundedDeposit(d)]
           kworth == [d \in Depositors |-> k * worth[d]]
           W == SumFunctionOnSet(worth, Depositors)
           S == SumFunctionOnSet(bound, Depositors)
           right == Decimals * totalSTARDeposits + MaxDeposits * offsets
<1>2. DepositsWorth = W
  BY DEF DepositsWorth, SumFunction, SumFunctionOnSet, FoldFunction
<1>3. \A d \in Depositors : worth[d] \in Nat
  BY CompoundedIsNat
<1>4. W \in Nat /\ SumFunctionOnSet(kworth, Depositors) = k * W
  <2>1. \A d \in Depositors : worth[d] \in Int /\ kworth[d] = k * worth[d]
    BY <1>3
  <2> HIDE DEF worth, kworth
  <2> QED
    BY <1>3, <2>1, SumNat, SumTimes, DepositorsFinite
<1>5. k * W <= S
  <2>1. \A d \in Depositors : kworth[d] \in Int /\ bound[d] \in Int /\ kworth[d] <= bound[d]
    BY <1>1, <1>3, WorthWithinBound DEF BackedBy
  <2> HIDE DEF kworth, worth
  <2> QED
    BY <1>4, <2>1, SumAtMost, DepositorsFinite
<1>6. S \in Nat /\ Decimals * S + k * lastSTARLossError_Offset <= k * right
  BY <1>1, SumNat, DepositorsFinite DEF BackedBy
<1>7. /\ Decimals \in Nat /\ right \in Nat /\ k * lastSTARLossError_Offset \in Nat
  BY DecimalsPositive, BoundsNat, NatProduct DEF SPInv, SPTypeOK
<1> HIDE DEF W, S, right
<1>8. Decimals * (k * W) <= Decimals * S
  BY <1>4, <1>5, <1>6, <1>7, NatProduct, TimesMonotone
<1>9. (Decimals * W) * k <= right * k
  <2>1. (Decimals * W) * k = Decimals * (k * W) /\ right * k = k * right
    BY <1>4, <1>7
  <2>2. Decimals * (k * W) \in Nat /\ Decimals * S \in Nat /\ k * right \in Nat
    BY <1>4, <1>6, <1>7, NatProduct
  <2> QED
    BY <1>6, <1>7, <1>8, <2>1, <2>2
<1>10. Decimals * W <= right
  BY <1>4, <1>7, <1>9, FactorAtMost, NatProduct
<1> QED
  BY <1>2, <1>10 DEF DepositsBacked, right

\* Whatever is deposited, withdrawn and offset, the pool holds the STAR the
\* deposits are worth, but for a Decimals-th of its largest size per offset.
THEOREM DepositsAreBacked == SPSpec => []DepositsBacked
BY SPInvariant, BackedInvariant, BackedImpliesDeposits, PTL

\* The amounts stay natural numbers and the places within their range.
THEOREM PoolTyped == SPSpec => []SPTypeOK
<1>1. SPInv => SPTypeOK
  BY DEF SPInv
<1> QED
  BY <1>1, SPInvariant, PTL

\* The compounded deposit never exceeds the initial one, so that computing the
\* loss of a deposit never reverts.
THEOREM LossAlwaysComputable == SPSpec => []LossComputable
BY SPInvariant, LossIsComputable, PTL

-----------------------------------------------------------------------------
(* What a depositor has earned. *)

\* No gain has been credited to a place that was not reached yet.
FutureEmpty ==
    \A e \in 0..MaxOffsets, n \in 0..MaxOffsets + 1 :
        e > currentEpoch \/ (e = currentEpoch /\ n > currentScale)
            => epochToScaleToSum[<<e, n>>] = 0

\* An offset credits its gain to the place it finds, and nowhere else.
LEMMA OffsetCredits ==
    ASSUME SPInv, NEW debt \in Nat, NEW coll \in Nat, Offset(debt, coll)
    PROVE  \E gain \in Nat :
             /\ totalSTARDeposits \in Nat \ {0}
             /\ gain * totalSTARDeposits <= Numerator(coll) * P
             /\ \A e \in 0..MaxOffsets, n \in 0..MaxOffsets + 1 :
                  epochToScaleToSum'[<<e, n>>] =
                    IF e = currentEpoch /\ n = currentScale
                    THEN epochToScaleToSum[<<e, n>>] + gain ELSE epochToScaleToSum[<<e, n>>]
<1>1. PICK gain : gain = (Numerator(coll) * P) \div totalSTARDeposits
  OBVIOUS
<1>2. /\ totalSTARDeposits # 0
      /\ epochToScaleToSum' =
           [epochToScaleToSum EXCEPT ![<<currentEpoch, currentScale>>] = @ + gain]
  BY <1>1 DEF Offset
<1>3. gain \in Nat /\ gain * totalSTARDeposits <= Numerator(coll) * P
  BY <1>1, <1>2, GainBounds
<1>4. totalSTARDeposits \in Nat /\ epochToScaleToSum \in [Places -> Nat]
  BY DEF SPInv, SPTypeOK
<1>5. \A e \in 0..MaxOffsets, n \in 0..MaxOffsets + 1 : <<e, n>> \in Places
  BY DEF Places
<1> QED
  BY <1>2, <1>3, <1>4, <1>5

\* What an offset does to the place of the present.
LEMMA OffsetMoves ==
    ASSUME NEW debt, NEW coll, Offset(debt, coll)
    PROVE  \/ currentEpoch' = currentEpoch + 1 /\ currentScale' = 0
           \/ /\ currentEpoch' = currentEpoch
              /\ currentScale' \in {currentScale, currentScale + 1}
  BY DEF Offset, NextPlace

\* An offset leaves the places that it does not reach empty.
LEMMA OffsetKeepsFuture ==
    ASSUME SPInv, FutureEmpty, NEW debt \in Nat, NEW coll \in Nat, Offset(debt, coll)
    PROVE  FutureEmpty'
<1>1. PICK gain \in Nat :
        \A e \in 0..MaxOffsets, n \in 0..MaxOffsets + 1 :
          epochToScaleToSum'[<<e, n>>] =
            IF e = currentEpoch /\ n = currentScale
            THEN epochToScaleToSum[<<e, n>>] + gain ELSE epochToScaleToSum[<<e, n>>]
  BY OffsetCredits
<1>2. currentEpoch \in Nat /\ currentScale \in Nat
  BY BoundsNat DEF SPInv, SPTypeOK
<1>3. \/ currentEpoch' = currentEpoch + 1 /\ currentScale' = 0
      \/ currentEpoch' = currentEpoch /\ currentScale' \in {currentScale, currentScale + 1}
  BY OffsetMoves
<1> SUFFICES ASSUME NEW e \in 0..MaxOffsets, NEW n \in 0..MaxOffsets + 1,
                    e > currentEpoch' \/ (e = currentEpoch' /\ n > currentScale')
             PROVE  epochToScaleToSum'[<<e, n>>] = 0
  BY DEF FutureEmpty
<1>4. e \in Nat /\ n \in Nat
  BY BoundsNat
<1>5. e > currentEpoch \/ (e = currentEpoch /\ n > currentScale)
  BY <1>2, <1>3, <1>4
<1>6. epochToScaleToSum[<<e, n>>] = 0
  BY <1>5 DEF FutureEmpty
<1> QED
  BY <1>1, <1>2, <1>4, <1>5, <1>6

\* Whatever is done, what was not reached is empty.
THEOREM FutureInvariant == SPSpec => []FutureEmpty
<1>1. SPInit => FutureEmpty
  BY DEF SPInit, FutureEmpty, Places
<1>2. SPInv /\ FutureEmpty /\ [SPNext]_spVars => FutureEmpty'
  <2> SUFFICES ASSUME SPInv, FutureEmpty, [SPNext]_spVars PROVE FutureEmpty'
    OBVIOUS
  <2>1. ASSUME UNCHANGED poolVars PROVE FutureEmpty'
    BY <2>1 DEF FutureEmpty, poolVars
  <2>2. ASSUME NEW d \in Depositors, NEW amount \in Deposited,
               ProvideToSP(d, amount) \/ WithdrawFromSP(d, amount)
        PROVE  FutureEmpty'
    BY <2>1, <2>2 DEF ProvideToSP, WithdrawFromSP
  <2>3. ASSUME NEW o \in Offsets, Offset(o[1], o[2])
        PROVE  FutureEmpty'
    <3>1. o[1] \in Nat /\ o[2] \in Nat
      BY OffsetsNat
    <3> QED
      BY <2>3, <3>1, OffsetKeepsFuture
  <2>4. CASE UNCHANGED spVars
    BY <2>1, <2>4 DEF spVars
  <2> QED
    BY <2>2, <2>3, <2>4 DEF SPNext
<1> QED
  BY <1>1, <1>2, SPInvariant, PTL DEF SPSpec

\* The numbers a gain is computed from.
LEMMA GainTerms ==
    ASSUME SPInv, NEW d \in Depositors, deposits[d] # 0
    PROVE  LET s == depositSnapshots[d] IN
           /\ deposits[d] \in Nat \ {0} /\ s.P \in Nat \ {0} /\ s.S \in Nat
           /\ s.epoch \in 0..MaxOffsets /\ s.scale \in 0..MaxOffsets
           /\ s.scale + 1 \in 0..MaxOffsets + 1
           /\ epochToScaleToSum[<<s.epoch, s.scale>>] \in Nat
           /\ epochToScaleToSum[<<s.epoch, s.scale + 1>>] \in Nat
           /\ Decimals \in Nat \ {0} /\ ScaleFactor \in Nat \ {0}
<1> DEFINE s == depositSnapshots[d]
<1>1. /\ deposits[d] \in Nat \ {0} /\ s.P \in Nat \ {0} /\ s.S \in Nat
      /\ s.epoch \in 0..MaxOffsets /\ s.scale \in 0..MaxOffsets
  BY BoundsNat DEF SPInv, SPTypeOK, SnapshotSound, SnapshotsOf
<1>2. s.scale + 1 \in 0..MaxOffsets + 1
  BY <1>1, BoundsNat
<1>3. <<s.epoch, s.scale>> \in Places /\ <<s.epoch, s.scale + 1>> \in Places
  BY <1>1, <1>2, BoundsNat DEF Places
<1>4. epochToScaleToSum \in [Places -> Nat]
  BY DEF SPInv, SPTypeOK
<1> HIDE DEF s
<1> QED
  BY <1>1, <1>2, <1>3, <1>4, DecimalsPositive DEF s

\* Nothing but an offset changes what the same deposit has earned.
LEMMA SameGain ==
    ASSUME NEW d \in Depositors, SameDeposit(d), UNCHANGED poolVars
    PROVE  Gain(d)' = Gain(d)
BY DEF SameDeposit, Gain, EarnedPerUnit, poolVars

\* An operation of the owner leaves nothing to be paid.
LEMMA OwnersNextGain ==
    ASSUME SPInv, FutureEmpty, NEW d \in Depositors, NEW value \in Nat,
           UpdateDepositAndSnapshots(d, value), UNCHANGED poolVars
    PROVE  Gain(d)' = 0
<1>1. deposits'[d] = value /\ depositSnapshots'[d] = SnapshotFor(d, value)
  BY DEF UpdateDepositAndSnapshots, SPInv, SPTypeOK
<1>2. CASE value = 0
  BY <1>1, <1>2 DEF Gain
<1>3. CASE value # 0
  <2> DEFINE s == depositSnapshots'[d]
             e == currentEpoch
             n == currentScale
  <2>1. /\ s.S = epochToScaleToSum[<<e, n>>] /\ s.P = P
        /\ s.scale = n /\ s.epoch = e
    BY <1>1, <1>3 DEF SnapshotFor, CurrentSnapshot
  <2>2. /\ e \in 0..MaxOffsets /\ n \in 0..MaxOffsets /\ n + 1 \in 0..MaxOffsets + 1
        /\ n + 1 > n
    BY BoundsNat DEF SPInv, SPTypeOK
  <2>3. epochToScaleToSum[<<e, n + 1>>] = 0 /\ epochToScaleToSum[<<e, n>>] \in Nat
    <3>1. epochToScaleToSum[<<e, n + 1>>] = 0
      BY <2>2 DEF FutureEmpty
    <3>2. <<e, n>> \in Places
      BY <2>2, BoundsNat DEF Places
    <3> QED
      BY <3>1, <3>2 DEF SPInv, SPTypeOK
  <2>4. epochToScaleToSum' = epochToScaleToSum
    BY DEF poolVars
  <2>5. /\ P \in Nat \ {0} /\ Decimals \in Nat \ {0} /\ ScaleFactor \in Nat \ {0}
    BY DecimalsPositive DEF SPInv, SPTypeOK
  <2>6. 0 \div ScaleFactor = 0 /\ 0 \div P = 0 /\ 0 \div Decimals = 0
    <3>1. \A m \in Nat \ {0} : 0 \div m = 0
      <4> SUFFICES ASSUME NEW m \in Nat \ {0} PROVE 0 \div m = 0
        OBVIOUS
      <4>1. 0 \div m \in Nat /\ 0 \div m <= 0
        BY QuotientNat, QuotientAtMost
      <4> QED
        BY <4>1
    <3> QED
      BY <2>5, <3>1
  <2>7. EarnedPerUnit(depositSnapshots[d])' = 0
    <3>1. EarnedPerUnit(depositSnapshots[d])' =
            epochToScaleToSum'[<<s.epoch, s.scale>>] - s.S
              + epochToScaleToSum'[<<s.epoch, s.scale + 1>>] \div ScaleFactor
      BY DEF EarnedPerUnit
    <3> HIDE DEF s, e, n
    <3> QED
      BY <2>1, <2>3, <2>4, <2>6, <3>1
  <2>8. Gain(d)' = ((value * 0) \div P) \div Decimals
    BY <1>1, <1>3, <2>1, <2>7 DEF Gain
  <2> QED
    BY <2>6, <2>8
<1> QED
  BY <1>2, <1>3

\* What a gain grows by, against the growth of the product it is taken from.
LEMMA GainGrowth ==
    ASSUME NEW D \in Nat \ {0}, NEW p \in Nat \ {0}, NEW a \in Int, NEW b \in Int,
           NEW g, g = (a \div p) \div D, NEW h, h = (b \div p) \div D
    PROVE  \E Q \in Int : D * (h - g - 1) <= Q /\ p * Q <= b - a
<1>1. PICK x : x = a \div p
  OBVIOUS
<1>2. PICK y : y = b \div p
  OBVIOUS
<1>3. x \in Int /\ y \in Int /\ y * p <= b /\ a < (x + 1) * p
  BY <1>1, <1>2, QuotientBounds
<1>4. g = x \div D
  BY <1>1
<1>5. h = y \div D
  BY <1>2
<1>6. g \in Int /\ h \in Int /\ h * D <= y /\ x < (g + 1) * D
  BY <1>3, <1>4, <1>5, QuotientBounds
<1>7. D * (h - g - 1) <= y - x - 1
  <2>1. D * (h - g - 1) = h * D - (g + 1) * D
    BY <1>6
  <2>2. h * D \in Int /\ (g + 1) * D \in Int
    BY <1>6
  <2> QED
    BY <1>3, <1>6, <2>1, <2>2
<1>8. p * (y - x - 1) <= b - a
  <2>1. p * (y - x - 1) = y * p - (x + 1) * p
    BY <1>3
  <2>2. y * p \in Int /\ (x + 1) * p \in Int
    BY <1>3
  <2> QED
    BY <1>3, <2>1, <2>2
<1>9. y - x - 1 \in Int
  BY <1>3
<1> QED
  BY <1>7, <1>8, <1>9

\* The part of the growth that is earned per unit staked is the share of the
\* deposit in what is credited.
LEMMA ShareArithmetic ==
    ASSUME NEW p \in Nat \ {0}, NEW f \in Nat \ {0}, NEW t \in Nat, NEW dep \in Nat,
           NEW W \in Nat, NEW N \in Nat, NEW pr \in Nat, NEW gain \in Nat,
           NEW R \in Int, NEW y \in Int,
           p * R <= dep * y, f * y <= gain, gain * t <= N * pr, dep * pr <= W * (p * f)
    PROVE  t * R <= W * N
<1>1. (f * t) * (p * R) <= (f * t) * (dep * y)
  <2>1. f * t \in Nat /\ p * R \in Int /\ dep * y \in Int
    BY NatProduct
  <2> QED
    BY <2>1, TimesMonotone
<1>2. (dep * t) * (f * y) <= (dep * t) * gain
  <2>1. dep * t \in Nat /\ f * y \in Int
    BY NatProduct
  <2> QED
    BY <2>1, TimesMonotone
<1>3. dep * (gain * t) <= dep * (N * pr)
  BY NatProduct, TimesMonotone
<1>4. N * (dep * pr) <= N * (W * (p * f))
  <2>1. dep * pr \in Nat /\ W * (p * f) \in Nat
    BY NatProduct
  <2> QED
    BY <2>1, TimesMonotone
<1>5. /\ (t * R) * (p * f) = (f * t) * (p * R)
      /\ (f * t) * (dep * y) = (dep * t) * (f * y)
  OBVIOUS
<1>6. /\ (dep * t) * gain = dep * (gain * t)
      /\ dep * (N * pr) = N * (dep * pr)
      /\ (W * N) * (p * f) = N * (W * (p * f))
  OBVIOUS
<1>7. /\ (t * R) * (p * f) \in Int /\ (f * t) * (dep * y) \in Int
      /\ (dep * t) * gain \in Int /\ dep * (N * pr) \in Int
      /\ (W * N) * (p * f) \in Int
  OBVIOUS
<1>8. (t * R) * (p * f) <= (W * N) * (p * f)
  BY <1>1, <1>2, <1>3, <1>4, <1>5, <1>6, <1>7
<1>9. t * R \in Int /\ W * N \in Int /\ p * f \in Nat \ {0}
  BY PositiveProduct
<1> QED
  BY <1>8, <1>9, FactorAtMost

\* What a quotient by f grows by, when its dividend does.
LEMMA RoundedGrowth ==
    ASSUME NEW a \in Nat, NEW gain \in Nat, NEW f \in Nat \ {0}
    PROVE  f * ((a + gain) \div f - a \div f - 1) <= gain
<1>1. PICK x : x = a \div f
  OBVIOUS
<1>2. PICK y : y = (a + gain) \div f
  OBVIOUS
<1>3. x \in Int /\ y \in Int /\ y * f <= a + gain /\ a < (x + 1) * f
  BY <1>1, <1>2, QuotientBounds
<1>4. f * (y - x - 1) = y * f - (x + 1) * f
  BY <1>3
<1>5. y * f \in Int /\ (x + 1) * f \in Int
  BY <1>3
<1> QED
  BY <1>1, <1>2, <1>3, <1>4, <1>5

\* A deposit was at most WorthAtMost when it last shrank.
LEMMA WorthAtMostBounds ==
    ASSUME SPInv, NEW d \in Depositors, deposits[d] # 0,
           depositSnapshots[d].epoch = currentEpoch
    PROVE  LET s == depositSnapshots[d] IN
           /\ WorthAtMost(d) \in Nat
           /\ s.scale = currentScale => deposits[d] * P <= WorthAtMost(d) * s.P
           /\ s.scale + 1 = currentScale
                => deposits[d] * P <= WorthAtMost(d) * (s.P * ScaleFactor)
<1> DEFINE s == depositSnapshots[d]
           D == deposits[d]
<1>1. /\ D \in Nat \ {0} /\ s.P \in Nat \ {0} /\ s.scale \in Nat /\ s.epoch \in Nat
      /\ currentScale \in Nat /\ currentEpoch \in Nat /\ P \in Nat
      /\ ScaleFactor \in Nat \ {0} /\ Dust \in Nat \ {0}
  <2>1. /\ D \in Nat \ {0} /\ s.P \in Nat \ {0}
        /\ s.epoch \in 0..MaxOffsets /\ s.scale \in 0..MaxOffsets
    BY GainTerms
  <2>2. /\ currentScale \in 0..offsets /\ currentEpoch \in 0..offsets /\ P \in Nat
        /\ offsets \in 0..MaxOffsets
    BY DEF SPInv, SPTypeOK
  <2> HIDE DEF s, D
  <2> QED
    BY <2>1, <2>2, BoundsNat, DecimalsPositive
<1>2. PICK c : c = CompoundedAcross(D, s)
  OBVIOUS
<1>3. PICK w : w = CompoundedDeposit(d)
  OBVIOUS
<1>4. PICK dust : dust = D \div Dust
  OBVIOUS
<1>5. w \in Nat /\ dust \in Nat /\ (w = c \/ c < dust)
  <2>1. w = IF c < dust THEN 0 ELSE c
    BY <1>1, <1>2, <1>3, <1>4 DEF CompoundedDeposit
  <2>2. w \in Nat
    BY <1>3, CompoundedIsNat
  <2>3. dust \in Nat
    BY <1>1, <1>4, QuotientNat
  <2> QED
    BY <2>1, <2>2, <2>3
<1>6. WorthAtMost(d) = w + dust + 1
  BY <1>3, <1>4 DEF WorthAtMost
<1>7. WorthAtMost(d) \in Nat
  BY <1>5, <1>6
<1>8. c \in Int => c + 1 <= WorthAtMost(d)
  BY <1>5, <1>6
<1> DEFINE W == WorthAtMost(d)
<1> HIDE DEF W, s, D
<1>9. ASSUME s.scale = currentScale
      PROVE  D * P <= W * s.P
  <2>1. c = (D * P) \div s.P
    BY <1>1, <1>2, <1>9 DEF CompoundedAcross
  <2>2. D * P \in Nat
    BY <1>1, NatProduct
  <2>3. c \in Int /\ D * P < (c + 1) * s.P
    <3>1. PICK a : a = D * P
      OBVIOUS
    <3>2. PICK p : p = s.P
      OBVIOUS
    <3>3. a \in Int /\ p \in Nat \ {0}
      BY <1>1, <2>2, <3>1, <3>2
    <3>4. a \div p \in Int /\ a < (a \div p + 1) * p
      BY <3>3, QuotientBounds
    <3> QED
      BY <2>1, <3>1, <3>2, <3>4
  <2>4. (c + 1) * s.P <= W * s.P
    BY <1>1, <1>7, <1>8, <2>3, TimesMonotone DEF W
  <2>5. (c + 1) * s.P \in Int /\ W * s.P \in Int
    BY <1>1, <1>7, <2>3 DEF W
  <2> QED
    BY <2>2, <2>3, <2>4, <2>5
<1>10. ASSUME s.scale + 1 = currentScale
       PROVE  D * P <= W * (s.P * ScaleFactor)
  <2>1. PICK q : q = (D * P) \div s.P
    OBVIOUS
  <2>2. c = q \div ScaleFactor
    BY <1>1, <1>2, <1>10, <2>1 DEF CompoundedAcross
  <2>3. D * P \in Nat
    BY <1>1, NatProduct
  <2>4. q \in Int /\ D * P < (q + 1) * s.P
    <3>1. PICK a : a = D * P
      OBVIOUS
    <3>2. PICK p : p = s.P
      OBVIOUS
    <3>3. a \in Nat /\ p \in Nat \ {0}
      BY <1>1, <2>3, <3>1, <3>2
    <3>4. a \div p \in Int /\ a < (a \div p + 1) * p
      BY <3>3, QuotientBounds
    <3> QED
      BY <2>1, <3>1, <3>2, <3>4
  <2>5. c \in Int /\ q < (c + 1) * ScaleFactor
    BY <1>1, <2>2, <2>4, QuotientBounds
  <2>6. (c + 1) * ScaleFactor <= W * ScaleFactor
    BY <1>1, <1>7, <1>8, <2>5, TimesMonotone DEF W
  <2>7. q + 1 <= W * ScaleFactor /\ W * ScaleFactor \in Int
    <3>1. (c + 1) * ScaleFactor \in Int /\ W * ScaleFactor \in Int
      BY <1>1, <1>7, <2>5 DEF W
    <3> QED
      BY <2>4, <2>5, <2>6, <3>1
  <2>8. (q + 1) * s.P <= (W * ScaleFactor) * s.P
    BY <1>1, <2>4, <2>7, TimesMonotone
  <2>9. (W * ScaleFactor) * s.P = W * (s.P * ScaleFactor)
    BY <1>1, <1>7 DEF W
  <2>10. (q + 1) * s.P \in Int /\ (W * ScaleFactor) * s.P \in Int
    BY <1>1, <2>4, <2>7
  <2> QED
    BY <2>3, <2>4, <2>8, <2>9, <2>10
<1> QED
  BY <1>7, <1>9, <1>10 DEF W, s, D

\* What an offset adds to the earnings per unit of a deposit: its gain, if it
\* finds the scale of the deposit; the gain scaled down, rounded up or down, if
\* it finds the next one; and nothing otherwise.
LEMMA OffsetEarns ==
    ASSUME SPInv, NEW debt \in Nat, NEW coll \in Nat, Offset(debt, coll),
           NEW d \in Depositors, deposits[d] # 0
    PROVE  LET s == depositSnapshots[d] IN
           \E gain \in Nat, grown \in Nat :
             /\ totalSTARDeposits \in Nat \ {0}
             /\ gain * totalSTARDeposits <= Numerator(coll) * P
             /\ EarnedPerUnit(s) \in Int
             /\ EarnedPerUnit(depositSnapshots[d])' = EarnedPerUnit(s) + grown
             /\ \/ /\ s.epoch = currentEpoch /\ s.scale = currentScale
                   /\ grown = gain
                \/ /\ s.epoch = currentEpoch /\ s.scale + 1 = currentScale
                   /\ ScaleFactor * (grown - 1) <= gain
                \/ grown = 0
<1> DEFINE s == depositSnapshots[d]
           here == <<s.epoch, s.scale>>
           after == <<s.epoch, s.scale + 1>>
<1>1. PICK gain \in Nat :
        /\ totalSTARDeposits \in Nat \ {0}
        /\ gain * totalSTARDeposits <= Numerator(coll) * P
        /\ \A e \in 0..MaxOffsets, n \in 0..MaxOffsets + 1 :
             epochToScaleToSum'[<<e, n>>] =
               IF e = currentEpoch /\ n = currentScale
               THEN epochToScaleToSum[<<e, n>>] + gain ELSE epochToScaleToSum[<<e, n>>]
  BY OffsetCredits
<1>2. /\ s.S \in Nat /\ s.epoch \in 0..MaxOffsets /\ s.scale \in 0..MaxOffsets
      /\ s.scale + 1 \in 0..MaxOffsets + 1
      /\ epochToScaleToSum[here] \in Nat /\ epochToScaleToSum[after] \in Nat
      /\ ScaleFactor \in Nat \ {0}
  BY GainTerms
<1>3. s.scale \in Nat /\ s.scale + 1 # s.scale /\ s.scale \in 0..MaxOffsets + 1
  BY <1>2, BoundsNat
<1>4. PICK a, b, aa, bb : /\ a = epochToScaleToSum[here] /\ b = epochToScaleToSum[after]
                          /\ aa = epochToScaleToSum'[here] /\ bb = epochToScaleToSum'[after]
  OBVIOUS
<1>5. EarnedPerUnit(s) = a - s.S + b \div ScaleFactor
  BY <1>4 DEF EarnedPerUnit
<1>6. EarnedPerUnit(depositSnapshots[d])' = aa - s.S + bb \div ScaleFactor
  <2>1. depositSnapshots' = depositSnapshots
    BY DEF Offset, depositVars
  <2> QED
    BY <1>4, <2>1 DEF EarnedPerUnit
<1>7. PICK x : x = b \div ScaleFactor
  OBVIOUS
<1>8. PICK y : y = bb \div ScaleFactor
  OBVIOUS
<1>9. a \in Nat /\ b \in Nat /\ s.S \in Nat /\ x \in Nat
  BY <1>2, <1>4, <1>7, QuotientNat
<1>10. PICK earned : earned = EarnedPerUnit(s) /\ earned = a - s.S + x
  BY <1>5, <1>7
<1>11. earned \in Int
  BY <1>9, <1>10
<1>12. PICK later : later = EarnedPerUnit(depositSnapshots[d])' /\ later = aa - s.S + y
  BY <1>6, <1>8
<1>13. /\ aa = IF s.epoch = currentEpoch /\ s.scale = currentScale THEN a + gain ELSE a
       /\ bb = IF s.epoch = currentEpoch /\ s.scale + 1 = currentScale THEN b + gain ELSE b
  BY <1>1, <1>2, <1>3, <1>4
<1> HIDE DEF s
<1>14. CASE s.epoch = currentEpoch /\ s.scale = currentScale
  <2>1. aa = a + gain /\ bb = b /\ y = x
    BY <1>3, <1>7, <1>8, <1>13, <1>14
  <2>2. later = earned + gain
    BY <1>1, <1>9, <1>10, <1>12, <2>1
  <2> QED
    BY <1>1, <1>10, <1>11, <1>12, <1>14, <2>2 DEF s
<1>15. CASE s.epoch = currentEpoch /\ s.scale + 1 = currentScale
  <2>1. aa = a /\ bb = b + gain
    BY <1>3, <1>13, <1>15
  <2>2. y \in Nat /\ x <= y /\ ScaleFactor * (y - x - 1) <= gain
    <3>1. b + gain \in Nat /\ b <= b + gain
      BY <1>1, <1>9
    <3>2. y = (b + gain) \div ScaleFactor
      BY <1>8, <2>1
    <3>3. y \in Nat
      BY <1>2, <3>1, <3>2, QuotientNat
    <3>4. x <= y
      <4>1. PICK more : more = b + gain
        OBVIOUS
      <4>2. more \in Nat /\ b <= more
        BY <3>1, <4>1
      <4>3. b \div ScaleFactor <= more \div ScaleFactor
        BY <1>2, <1>9, <4>2, QuotientMonotone
      <4> QED
        BY <1>7, <3>2, <4>1, <4>3, Zenon
    <3>5. ScaleFactor * (y - x - 1) <= gain
      BY <1>1, <1>2, <1>7, <1>9, <3>2, RoundedGrowth
    <3> QED
      BY <3>3, <3>4, <3>5
  <2>3. y - x \in Nat /\ later = earned + (y - x)
    BY <1>9, <1>10, <1>12, <2>1, <2>2
  <2> QED
    BY <1>1, <1>10, <1>11, <1>12, <1>15, <2>2, <2>3 DEF s
<1>16. CASE ~ (s.epoch = currentEpoch /\ (s.scale = currentScale \/ s.scale + 1 = currentScale))
  <2>1. aa = a /\ bb = b /\ y = x
    BY <1>7, <1>8, <1>13, <1>16
  <2>2. later = earned + 0
    BY <1>9, <1>10, <1>12, <2>1
  <2> QED
    BY <1>1, <1>10, <1>11, <1>12, <2>2 DEF s
<1> QED
  BY <1>14, <1>15, <1>16

\* What an offset adds to a gain is no more than the share of the deposit, and
\* it takes nothing from it.
LEMMA OffsetGain ==
    ASSUME SPInv, NEW debt \in Nat, NEW coll \in Nat, Offset(debt, coll),
           NEW d \in Depositors
    PROVE  /\ Gain(d) <= Gain(d)'
           /\ deposits[d] # 0 =>
                Decimals * totalSTARDeposits * (Gain(d)' - Gain(d) - 1) <= ShareAtMost(d, coll)
<1> DEFINE s == depositSnapshots[d]
           D == deposits[d]
           t == totalSTARDeposits
           N == Numerator(coll)
           W == WorthAtMost(d)
           X == D \div s.P + 1
<1>1. /\ deposits' = deposits /\ depositSnapshots' = depositSnapshots
  BY DEF Offset, depositVars
<1>2. CASE D = 0
  BY <1>1, <1>2 DEF Gain
<1>3. CASE D # 0
  <2>1. PICK gain \in Nat, grown \in Nat :
             /\ t \in Nat \ {0}
             /\ gain * t <= N * P
             /\ EarnedPerUnit(s) \in Int
             /\ EarnedPerUnit(depositSnapshots[d])' = EarnedPerUnit(s) + grown
             /\ \/ /\ s.epoch = currentEpoch /\ s.scale = currentScale
                   /\ grown = gain
                \/ /\ s.epoch = currentEpoch /\ s.scale + 1 = currentScale
                   /\ ScaleFactor * (grown - 1) <= gain
                \/ grown = 0
    BY <1>3, OffsetEarns
  <2>2. /\ D \in Nat \ {0} /\ s.P \in Nat \ {0}
        /\ Decimals \in Nat \ {0} /\ ScaleFactor \in Nat \ {0}
    BY <1>3, GainTerms
  <2>3. N \in Nat /\ P \in Nat
    BY DecimalsPositive, NatProduct DEF Numerator, SPInv, SPTypeOK
  <2>4. PICK x : x = D * EarnedPerUnit(s)
    OBVIOUS
  <2>5. PICK y : y = D * (EarnedPerUnit(s) + grown)
    OBVIOUS
  <2>6. x \in Int /\ y \in Int /\ y = x + D * grown /\ D * grown \in Nat
    <3> HIDE DEF D, s, t, N
    <3>1. D * (EarnedPerUnit(s) + grown) = D * EarnedPerUnit(s) + D * grown
      BY <2>1, <2>2
    <3>2. D * EarnedPerUnit(s) \in Int /\ D * grown \in Nat
      BY <2>1, <2>2
    <3> QED
      BY <2>4, <2>5, <3>1, <3>2
  <2>7. PICK G : G = Gain(d) /\ G = (x \div s.P) \div Decimals
    BY <1>3, <2>4 DEF Gain
  <2>8. PICK H : H = Gain(d)' /\ H = (y \div s.P) \div Decimals
    BY <1>1, <1>3, <2>1, <2>5 DEF Gain
  <2> HIDE DEF D, s, t, N, W, X
  <2>9. G \in Int /\ H \in Int /\ G <= H
    <3>1. x <= y
      BY <2>6
    <3>2. x \div s.P \in Int /\ y \div s.P \in Int /\ x \div s.P <= y \div s.P
      BY <2>2, <2>6, <3>1, QuotientBounds, QuotientMonotone
    <3> QED
      BY <2>2, <2>7, <2>8, <3>2, QuotientBounds, QuotientMonotone
  <2>10. PICK Q \in Int : Decimals * (H - G - 1) <= Q /\ s.P * Q <= D * grown
    <3>1. y - x = D * grown
      BY <2>6
    <3>2. \E Q \in Int : Decimals * (H - G - 1) <= Q /\ s.P * Q <= y - x
      BY <2>2, <2>6, <2>7, <2>8, GainGrowth
    <3> QED
      BY <3>1, <3>2
  <2>11. X \in Nat /\ D <= s.P * X
    <3>1. PICK q : q = D \div s.P
      OBVIOUS
    <3>2. q \in Nat /\ D < (q + 1) * s.P
      <4>1. PICK p : p = s.P
        OBVIOUS
      <4>2. D \in Nat /\ p \in Nat \ {0}
        BY <2>2, <4>1
      <4>3. D \div p \in Nat /\ D < (D \div p + 1) * p
        BY <4>2, QuotientNat, QuotientBounds
      <4> QED
        BY <3>1, <4>1, <4>3
    <3>3. X = q + 1 /\ (q + 1) * s.P = s.P * (q + 1)
      BY <2>2, <3>1, <3>2 DEF X
    <3> QED
      BY <2>2, <3>2, <3>3
  <2>12. W \in Nat
    <3>1. CompoundedDeposit(d) \in Nat
      BY CompoundedIsNat
    <3>2. deposits[d] \div Dust \in Nat
      BY <2>2, DecimalsPositive, QuotientNat DEF D
    <3> QED
      BY <3>1, <3>2 DEF W, WorthAtMost
  <2>13. t * Q <= W * N + X * t
    <3>1. W * N \in Nat /\ X * t \in Nat /\ t * Q \in Int
      BY <2>1, <2>3, <2>11, <2>12, NatProduct
    <3>2. CASE s.epoch = currentEpoch /\ s.scale = currentScale /\ grown = gain
      <4>1. D * P <= W * s.P
        BY <1>3, <3>2, WorthAtMostBounds DEF W, D, s
      <4>2. /\ D * P <= W * (s.P * 1) /\ 1 * grown <= gain
        BY <2>1, <2>2, <2>12, <3>2, <4>1
      <4>3. t * Q <= W * N
        BY <2>1, <2>2, <2>3, <2>10, <2>12, <4>2, ShareArithmetic
      <4> QED
        BY <3>1, <4>3
    <3>3. CASE /\ s.epoch = currentEpoch /\ s.scale + 1 = currentScale
               /\ ScaleFactor * (grown - 1) <= gain
      <4>1. D * P <= W * (s.P * ScaleFactor)
        BY <1>3, <3>3, WorthAtMostBounds DEF W, D, s
      <4>2. s.P * (Q - X) <= D * (grown - 1)
        <5>1. s.P * (Q - X) = s.P * Q - s.P * X
          BY <2>2, <2>10, <2>11
        <5>2. D * (grown - 1) = D * grown - D
          BY <2>1, <2>2
        <5>3. s.P * Q \in Int /\ s.P * X \in Int /\ D * grown \in Int /\ D \in Int
          BY <2>1, <2>2, <2>10, <2>11
        <5> QED
          BY <2>10, <2>11, <5>1, <5>2, <5>3
      <4>3. Q - X \in Int /\ grown - 1 \in Int
        BY <2>1, <2>10, <2>11
      <4>4. t * (Q - X) <= W * N
        BY <2>1, <2>2, <2>3, <2>12, <3>3, <4>1, <4>2, <4>3, ShareArithmetic
      <4>5. t * (Q - X) = t * Q - X * t
        BY <2>1, <2>10, <2>11
      <4> QED
        BY <3>1, <4>4, <4>5
    <3>4. CASE grown = 0
      <4>1. Q * s.P <= 0 * s.P
        BY <2>2, <2>10, <3>4
      <4>2. Q <= 0
        BY <2>2, <2>10, <4>1, FactorAtMost
      <4>3. t * Q <= t * 0
        BY <2>1, <2>10, <4>2, TimesMonotone
      <4> QED
        BY <2>1, <3>1, <4>3
    <3> QED
      BY <2>1, <3>2, <3>3, <3>4
  <2>14. t * (Decimals * (H - G - 1)) <= t * Q
    <3>1. Decimals * (H - G - 1) \in Int
      BY <2>2, <2>9
    <3> QED
      BY <2>1, <2>10, <3>1, TimesMonotone
  <2>15. Decimals * t * (H - G - 1) <= W * N + X * t
    <3>1. Decimals * t * (H - G - 1) = t * (Decimals * (H - G - 1))
      BY <2>1, <2>2, <2>9
    <3>2. /\ t * (Decimals * (H - G - 1)) \in Int /\ t * Q \in Int
          /\ W * N \in Int /\ X * t \in Int
      BY <2>1, <2>2, <2>3, <2>9, <2>10, <2>11, <2>12
    <3> QED
      BY <2>13, <2>14, <3>1, <3>2
  <2>16. ShareAtMost(d, coll) = W * N + X * t
    BY DEF ShareAtMost, W, N, X, t, D, s
  <2> QED
    BY <2>7, <2>8, <2>9, <2>15, <2>16 DEF t
<1> QED
  BY <1>2, <1>3

\* The two operations of an owner leave every other deposit and what is earned.
LEMMA OwnersStep ==
    ASSUME SPInv, NEW d \in Depositors, NEW amount \in Deposited,
           ProvideToSP(d, amount) \/ WithdrawFromSP(d, amount)
    PROVE  /\ UNCHANGED poolVars
           /\ \E value \in Nat : UpdateDepositAndSnapshots(d, value)
<1>1. CompoundedDeposit(d) \in Nat /\ amount \in Nat
  BY CompoundedIsNat, DepositedNat
<1>2. CASE ProvideToSP(d, amount)
  BY <1>1, <1>2 DEF ProvideToSP
<1>3. CASE WithdrawFromSP(d, amount)
  <2> DEFINE withdrawn == Min({amount, CompoundedDeposit(d)})
  <2>1. withdrawn \in Nat /\ withdrawn <= CompoundedDeposit(d)
    BY <1>1, MinOfTwo
  <2>2. UNCHANGED poolVars /\ UpdateDepositAndSnapshots(d, CompoundedDeposit(d) - withdrawn)
    BY <1>3 DEF WithdrawFromSP
  <2> HIDE DEF withdrawn
  <2>3. CompoundedDeposit(d) - withdrawn \in Nat
    BY <1>1, <2>1
  <2> QED
    BY <2>2, <2>3
<1> QED
  BY <1>2, <1>3

\* What a depositor has earned is not lost by what others do, nor by a change
\* of scale or epoch.
THEOREM GainsAreKept == SPSpec => GainsKept
<1> DEFINE Kept == \A d \in Depositors : SameDeposit(d) => Gain(d) <= Gain(d)'
<1>1. SPInv /\ [SPNext]_spVars => [Kept]_spVars
  <2> SUFFICES ASSUME SPInv, SPNext PROVE Kept
    OBVIOUS
  <2> SUFFICES ASSUME NEW d \in Depositors, SameDeposit(d) PROVE Gain(d) <= Gain(d)'
    OBVIOUS
  <2>1. ASSUME UNCHANGED poolVars PROVE Gain(d) <= Gain(d)'
    BY <2>1, SameGain, GainIsInt
  <2>2. ASSUME NEW e \in Depositors, NEW amount \in Deposited,
               ProvideToSP(e, amount) \/ WithdrawFromSP(e, amount)
        PROVE  Gain(d) <= Gain(d)'
    BY <2>1, <2>2, OwnersStep
  <2>3. ASSUME NEW o \in Offsets, Offset(o[1], o[2])
        PROVE  Gain(d) <= Gain(d)'
    <3>1. o[1] \in Nat /\ o[2] \in Nat
      BY OffsetsNat
    <3> QED
      BY <2>3, <3>1, OffsetGain
  <2> QED
    BY <2>2, <2>3 DEF SPNext
<1> QED
  BY <1>1, SPInvariant, PTL DEF SPSpec, GainsKept

\* An offset gives a depositor no more than the share in the pool, nothing else
\* adds to a gain, and an operation of the owner ends it.
THEOREM GainsAreByShare == SPSpec => GainsByShare
<1> DEFINE ByShare(d) ==
             /\ ~ SameDeposit(d) => Gain(d)' = 0
             /\ SameDeposit(d) /\ offsets' = offsets => Gain(d)' = Gain(d)
             /\ SameDeposit(d) /\ deposits[d] # 0 /\ offsets' # offsets =>
                  Decimals * totalSTARDeposits * (Gain(d)' - Gain(d) - 1)
                     <= ShareAtMost(d, totalColl' - totalColl)
<1>1. SPInv /\ FutureEmpty /\ [SPNext]_spVars => [\A d \in Depositors : ByShare(d)]_spVars
  <2> SUFFICES ASSUME SPInv, FutureEmpty, SPNext, NEW d \in Depositors PROVE ByShare(d)
    OBVIOUS
  <2>1. ASSUME NEW e \in Depositors, NEW amount \in Deposited,
               ProvideToSP(e, amount) \/ WithdrawFromSP(e, amount)
        PROVE  ByShare(d)
    <3>1. PICK value \in Nat : UpdateDepositAndSnapshots(e, value)
      BY <2>1, OwnersStep
    <3>2. UNCHANGED poolVars /\ offsets' = offsets
      BY <2>1, OwnersStep DEF poolVars
    <3>3. SameDeposit(d) => Gain(d)' = Gain(d)
      BY <3>2, SameGain
    <3>4. ~ SameDeposit(d) => d = e
      BY <3>1 DEF SameDeposit, UpdateDepositAndSnapshots, SPInv, SPTypeOK
    <3>5. ~ SameDeposit(d) => Gain(d)' = 0
      BY <3>1, <3>2, <3>4, OwnersNextGain
    <3> QED
      BY <3>2, <3>3, <3>5
  <2>2. ASSUME NEW o \in Offsets, Offset(o[1], o[2])
        PROVE  ByShare(d)
    <3>1. o[1] \in Nat /\ o[2] \in Nat
      BY OffsetsNat
    <3>2. SameDeposit(d) /\ offsets' # offsets
      BY <2>2, BoundsNat DEF Offset, SameDeposit, depositVars, SPInv, SPTypeOK
    <3>3. totalColl' - totalColl = o[2]
      <4>1. totalColl' = totalColl + o[2]
        BY <2>2 DEF Offset
      <4>2. totalColl \in Nat
        BY DEF SPInv, SPTypeOK
      <4> QED
        BY <3>1, <4>1, <4>2
    <3>4. deposits[d] # 0 =>
            Decimals * totalSTARDeposits * (Gain(d)' - Gain(d) - 1) <= ShareAtMost(d, o[2])
      BY <2>2, <3>1, OffsetGain
    <3> QED
      BY <3>2, <3>3, <3>4
  <2> QED
    BY <2>1, <2>2 DEF SPNext
<1> QED
  BY <1>1, SPInvariant, FutureInvariant, PTL DEF SPSpec, GainsByShare

-----------------------------------------------------------------------------
(***************************************************************************)
(* The client, for any number of connections, blocks, listeners and sends: *)
(* the store that is shown is the one in force, its trove is of the block  *)
(* it says, whoever listens for blocks is heard of by the source in force, *)
(* and a transaction is confirmed only while it is the one waited for.     *)
(***************************************************************************)

\* The only store that has the callback is the one whose effect is in force.
StoreInv ==
    /\ base = [s \in Stores |-> base[s]]
    /\ extra = [s \in Stores |-> extra[s]]
    /\ onLoaded \subseteq {effect} /\ loaded \subseteq Stores
    /\ ShownIsCurrent
    /\ CollateralOfItsBlock

\* Nothing is shown or loaded at first.
LEMMA StoreInit_Inv == StoreInit => StoreInv
BY DEF StoreInit, StoreInv, ShownIsCurrent, CollateralOfItsBlock

\* A state that is settled is of the block of its call, if it could be derived.
LEMMA SettledIsOfItsBlock ==
    ASSUME StoreInv, NEW s \in Stores, NEW f, NEW b, Settle(s, b, f),
           chain' = chain, loaded' \subseteq loaded \cup {s},
           f.tag # Untagged => b.coll = chain[f.tag].coll
    PROVE  /\ CollateralOfItsBlock'
           /\ base' = [x \in Stores |-> base'[x]]
           /\ extra' = [x \in Stores |-> extra'[x]]
<1>1. base' = [base EXCEPT ![s] = b]
  BY DEF Settle
<1>2. base'[s] = b /\ \A x \in Stores \ {s} : base'[x] = base[x]
  BY <1>1 DEF StoreInv
<1>3. /\ extra' = [x \in Stores |-> extra'[x]]
      /\ \A x \in Stores \ {s} : extra'[x] = extra[x]
      /\ Derivable(b) => extra'[s] = ExtraOf(f)
  BY DEF Settle, StoreInv
<1>4. ASSUME NEW x \in loaded', Derivable(base'[x]), extra'[x].blockTag # Untagged
      PROVE  base'[x].coll = chain'[extra'[x].blockTag].coll
  <2>1. CASE x = s
    BY <1>2, <1>3, <1>4, <2>1 DEF ExtraOf
  <2>2. CASE x # s
    <3>1. x \in loaded /\ base'[x] = base[x] /\ extra'[x] = extra[x]
      BY <1>2, <1>3, <2>2 DEF StoreInv
    <3> QED
      BY <1>4, <3>1 DEF StoreInv, CollateralOfItsBlock
  <2> QED
    BY <2>1, <2>2
<1> QED
  BY <1>1, <1>3, <1>4 DEF StoreInv, CollateralOfItsBlock, Derivable

\* What an answer leaves of a store.
LEMMA AnswerKeepsInv ==
    ASSUME StoreInv, NEW s \in Stores, NEW f \in fetches[s], Answer(s, f)
    PROVE  StoreInv'
<1>1. chain' = chain /\ effect' = effect /\ onLoaded' = onLoaded
  BY DEF Answer, Use, Load, Update, Ignore, chainVars, providerVars
<1>2. CASE s \notin loaded
  <2>1. Load(s, f)
    BY <1>2 DEF Answer, Use
  <2>2. Settle(s, Answered(f), f)
    BY <2>1 DEF Load
  <2>3. /\ loaded' \subseteq loaded \cup {s}
        /\ ShownIsCurrent'
    BY <1>1, <2>1 DEF Load, StoreInv, ShownIsCurrent
  <2>4. f.tag # Untagged => Answered(f).coll = chain[f.tag].coll
    BY DEF Answered, TroveBlock
  <2> QED
    BY <1>1, <2>2, <2>3, <2>4, SettledIsOfItsBlock DEF StoreInv
<1>3. CASE s \in loaded /\ f.tag # Untagged
  <2>1. Update(s, f)
    BY <1>3 DEF Answer, Use
  <2>2. loaded' = loaded /\ loadedStore' = loadedStore
    BY <2>1 DEF Update, providerVars
  <2>3. CASE Throws(base[s], Answered(f))
    <3>1. UNCHANGED <<base, extra>>
      BY <2>1, <2>3 DEF Update
    <3> QED
      BY <1>1, <2>2, <3>1 DEF StoreInv, ShownIsCurrent, CollateralOfItsBlock, Derivable
  <2>4. CASE ~ Throws(base[s], Answered(f))
    <3>1. Settle(s, Reduced(base[s], Answered(f)), f)
      BY <2>1, <2>4 DEF Update
    <3>2. Reduced(base[s], Answered(f)).coll = chain[f.tag].coll
      BY <1>3 DEF Reduced, Answered, TroveBlock
    <3> QED
      BY <1>1, <2>2, <3>1, <3>2, SettledIsOfItsBlock DEF StoreInv, ShownIsCurrent
  <2> QED
    BY <2>3, <2>4
<1>4. CASE s \in loaded /\ f.tag = Untagged
  <2>1. Ignore
    BY <1>4 DEF Answer, Use
  <2> QED
    BY <1>1, <2>1 DEF Ignore, stateVars, providerVars, StoreInv, ShownIsCurrent,
                      CollateralOfItsBlock, Derivable
<1> QED
  BY <1>2, <1>3, <1>4

\* Every step keeps the store that is shown, and its trove, as they should be.
LEMMA StoreNext_Inv == StoreInv /\ [StoreNext]_storeVars => StoreInv'
<1> SUFFICES ASSUME StoreInv, [StoreNext]_storeVars PROVE StoreInv'
  OBVIOUS
<1>1. ASSUME UNCHANGED <<chain, effect, loadedStore, onLoaded, loaded, base, extra>>
      PROVE  StoreInv'
  BY <1>1 DEF StoreInv, ShownIsCurrent, CollateralOfItsBlock, Derivable
<1>2. CASE NewBlock
  BY <1>1, <1>2 DEF NewBlock, providerVars, stateVars
<1>3. CASE RunEffect
  BY <1>3 DEF RunEffect, Attached, chainVars, StoreInv, ShownIsCurrent, CollateralOfItsBlock, Derivable
<1>4. ASSUME NEW s \in Stores, ChangeStore(s) PROVE StoreInv'
  BY <1>1, <1>4 DEF ChangeStore, chainVars, stateVars
<1>5. ASSUME NEW s \in Stores, BlockListener(s) PROVE StoreInv'
  BY <1>1, <1>5 DEF BlockListener, chainVars, providerVars, stateVars
<1>6. ASSUME NEW s \in Stores, Timeout(s) PROVE StoreInv'
  BY <1>1, <1>6 DEF Timeout, chainVars, providerVars
<1>7. ASSUME NEW s \in Stores, NEW f \in fetches[s], Read(s, f) \/ Rejected(s, f) PROVE StoreInv'
  BY <1>1, <1>7 DEF Read, Rejected, chainVars, providerVars, stateVars
<1>8. ASSUME NEW s \in Stores, NEW f \in fetches[s], Answer(s, f) PROVE StoreInv'
  BY <1>8, AnswerKeepsInv
<1>9. CASE UNCHANGED storeVars
  BY <1>1, <1>9 DEF storeVars, chainVars, providerVars, stateVars
<1> QED
  BY <1>2, <1>3, <1>4, <1>5, <1>6, <1>7, <1>8, <1>9 DEF StoreNext, StoreStep

\* However many connections follow each other, and however late their answers
\* come, what is shown is a loaded store, the one whose effect is in force.
THEOREM ShownStoreIsCurrent == StoreSpec => []ShownIsCurrent
<1>1. StoreInv => ShownIsCurrent
  BY DEF StoreInv
<1> QED
  BY <1>1, StoreInit_Inv, StoreNext_Inv, PTL DEF StoreSpec

\* For any chain, and answers in any order: the trove is of the block that the
\* state is said to be fetched from.
THEOREM CollateralIsOfItsBlock == StoreSpec => []CollateralOfItsBlock
<1>1. StoreInv => CollateralOfItsBlock
  BY DEF StoreInv
<1> QED
  BY <1>1, StoreInit_Inv, StoreNext_Inv, PTL DEF StoreSpec

-----------------------------------------------------------------------------
(* BlockListeners. *)

\* Registrations are counted up to Many.
EventInv ==
    /\ onBase \in 0..Many /\ onSocket \in 0..Many
    /\ NeverDeaf

\* One more registration is at least one; one less than some is a count.
LEMMA Counts ==
    /\ \A n \in 0..Many : More(n) \in 0..Many /\ More(n) > 0
    /\ \A n \in 0..Many : n > 0 => Fewer(n) \subseteq 0..Many
BY DEF More, Fewer, Many

\* Nobody listens at first.
LEMMA EventInit_Inv == EventInit => EventInv
BY DEF EventInit, EventInv, NeverDeaf, Many

\* A listener that comes finds a source, or starts one.
LEMMA AddListenerKeepsInv ==
    ASSUME EventInv, NEW k, AddListener(k), UNCHANGED socket
    PROVE  EventInv'
<1>1. CASE listeners = {}
  BY <1>1, Counts DEF AddListener, StartBlockEvents, EventInv, NeverDeaf
<1>2. CASE listeners # {}
  BY <1>2 DEF AddListener, EventInv, NeverDeaf
<1> QED
  BY <1>1, <1>2

\* With another socket, the callback goes where the listeners are.
LEMMA OpenSocketKeepsInv ==
    ASSUME EventInv, OpenSocket
    PROVE  EventInv'
<1>1. onBase' \in 0..Many
  <2>1. CASE listeners # {} /\ onBase # 0
    <3>1. onBase > 0 /\ onBase' \in Fewer(onBase)
      BY <2>1 DEF OpenSocket, EventInv, Many
    <3> QED
      BY <3>1, Counts DEF EventInv
  <2>2. CASE ~ (listeners # {} /\ onBase # 0)
    BY <2>2 DEF OpenSocket, EventInv, Many
  <2> QED
    BY <2>1, <2>2
<1>2. onSocket' \in 0..Many /\ NeverDeaf'
  BY DEF OpenSocket, NeverDeaf, Many
<1> QED
  BY <1>1, <1>2 DEF EventInv

\* Every step leaves whoever listens with a source.
LEMMA EventNext_Inv == EventInv /\ [EventNext]_eventVars => EventInv'
<1> SUFFICES ASSUME EventInv, [EventNext]_eventVars PROVE EventInv'
  OBVIOUS
<1>1. ASSUME UNCHANGED <<onBase, onSocket, socket>>, listeners' \subseteq listeners
      PROVE  EventInv'
  BY <1>1 DEF EventInv, NeverDeaf
<1>2. CASE NextBlock \/ NodesAgree \/ BaseTells \/ SocketTells \/ Dispatch
  BY <1>1, <1>2 DEF NextBlock, NodesAgree, BaseTells, SocketTells, OnBlock, Dispatch, sourceVars
<1>3. CASE OpenWebSocket \/ Reconnect
  BY <1>3, OpenSocketKeepsInv DEF OpenWebSocket, Reconnect
<1>4. ASSUME CloseSocket, UNCHANGED listeners PROVE EventInv'
  BY <1>4, Counts DEF CloseSocket, TakenBack, EventInv, NeverDeaf, Many
<1>5. CASE CloseWebSocket
  BY <1>4, <1>5 DEF CloseWebSocket
<1>6. CASE SocketDrops
  BY <1>6 DEF SocketDrops, EventInv, NeverDeaf
<1>7. CASE OnWebSocketClose
  BY <1>1, <1>4, <1>7 DEF OnWebSocketClose
<1>8. ASSUME NEW k \in Keys, Call(k) PROVE EventInv'
  BY <1>1, <1>8 DEF Call, sourceVars
<1>9. ASSUME NEW k \in Keys, On(k) \/ OnceReceipt(k) \/ ListenAgain(k) PROVE EventInv'
  <2>1. AddListener(k) /\ UNCHANGED socket
    BY <1>9 DEF On, OnceReceipt, ListenAgain, RestOfSource
  <2> QED
    BY <2>1, AddListenerKeepsInv
<1>10. ASSUME NEW k \in Keys, Off(k) PROVE EventInv'
  <2>1. listeners' = listeners \ {k} /\ listeners # {} /\ UNCHANGED socket
    BY <1>10 DEF Off, RestOfSource
  <2>2. CASE LastListener(k)
    <3>1. listeners' = {} /\ StopBlockEvents
      BY <1>10, <2>1, <2>2 DEF Off, LastListener
    <3>2. onBase' \in 0..Many /\ onSocket' \in 0..Many
      BY <2>1, <3>1, Counts DEF StopBlockEvents, EventInv, NeverDeaf
    <3> QED
      BY <3>1, <3>2 DEF EventInv, NeverDeaf
  <2>3. CASE ~ LastListener(k)
    BY <1>1, <1>10, <2>1, <2>3 DEF Off
  <2> QED
    BY <2>2, <2>3
<1>11. ASSUME NEW k \in Keys, ReceiptAnswered(k) \/ WaitForTransaction(k) \/ TransactionAsked(k)
       PROVE  EventInv'
  BY <1>1, <1>11 DEF ReceiptAnswered, WaitForTransaction, TransactionAsked, sourceVars
<1>12. CASE UNCHANGED eventVars
  BY <1>1, <1>12 DEF eventVars, sourceVars
<1> QED
  BY <1>2, <1>3, <1>5, <1>6, <1>7, <1>8, <1>9, <1>10, <1>11, <1>12 DEF EventNext, KeyStep

\* For any number of listeners, waiters and sockets, opened, dropped and closed
\* in any order: whoever listens is heard of by the source in force.
THEOREM ListenersAreHeard == EventSpec => []NeverDeaf
<1>1. EventInv => NeverDeaf
  BY DEF EventInv
<1> QED
  BY <1>1, EventInit_Inv, EventNext_Inv, PTL DEF EventSpec

-----------------------------------------------------------------------------
(* TransactionStatus. *)

\* A page and its parts.
IsPage(p) ==
    p = [status |-> p.status, mounted |-> p.mounted, monitors |-> p.monitors,
         shown |-> p.shown, fading |-> p.fading]

\* The only monitor that may still report a receipt is the one that the effect
\* in force began, for a transaction.
OneReports(p) ==
    \A m \in p.monitors :
       /\ m = [tx |-> m.tx, provider |-> m.provider, stage |-> m.stage, cancelled |-> m.cancelled]
       /\ m.stage = "receipt" /\ ~ m.cancelled
             => m = Monitor(p.mounted) /\ m.tx # NoTransaction

\* The inductive invariant.
StatusInv == OneReports(Page) /\ status = Status(status.type, status.tx)

\* What was rendered last is a page.
LEMMA PageIsPage == IsPage(Page)
BY DEF IsPage, Page

\* The parts of the next render.
LEMMA RenderParts ==
    ASSUME NEW p, IsPage(p), NEW s, NEW r, r = Render(p, s)
    PROVE  /\ IsPage(r)
           /\ r.status \in {Status("confirmed", p.status.tx), Idle, s}
           /\ r.mounted = Monitored(p.status)
           /\ r.monitors = IF MonitorIsDue(p) THEN Cancelled(p) \cup Begun(Monitored(p.status))
                           ELSE p.monitors
<1>1. PICK q : q = AfterEffects(p)
  OBVIOUS
<1>2. /\ IsPage(q)
      /\ q.mounted = Monitored(p.status)
      /\ q.monitors = IF MonitorIsDue(p) THEN Cancelled(p) \cup Begun(Monitored(p.status))
                      ELSE p.monitors
  BY <1>1 DEF AfterEffects, IsPage
<1>3. PICK x \in {Status("confirmed", p.status.tx), Idle, s} : r = [q EXCEPT !.status = x]
  BY <1>1 DEF Render
<1> QED
  BY <1>2, <1>3 DEF IsPage

\* Running the effects leaves no monitor that reports but the one they begin.
LEMMA RenderKeeps ==
    ASSUME NEW p, IsPage(p), OneReports(p), NEW s
    PROVE  OneReports(Render(p, s))
<1>1. PICK r : r = Render(p, s)
  OBVIOUS
<1>2. /\ r.mounted = Monitored(p.status)
      /\ r.monitors = IF MonitorIsDue(p) THEN Cancelled(p) \cup Begun(Monitored(p.status))
                      ELSE p.monitors
  BY <1>1, RenderParts
<1>3. CASE ~ MonitorIsDue(p)
  <2>1. r.mounted = p.mounted /\ r.monitors = p.monitors
    BY <1>2, <1>3 DEF MonitorIsDue
  <2> QED
    BY <1>1, <2>1 DEF OneReports
<1>4. CASE MonitorIsDue(p)
  <2>1. ASSUME NEW m \in Cancelled(p)
        PROVE  /\ m = [tx |-> m.tx, provider |-> m.provider, stage |-> m.stage, cancelled |-> m.cancelled]
               /\ ~ (m.stage = "receipt" /\ ~ m.cancelled)
    BY <2>1 DEF Cancelled, Unfinished, OneReports, Monitor
  <2>2. ASSUME NEW m \in Begun(r.mounted)
        PROVE  /\ m = [tx |-> m.tx, provider |-> m.provider, stage |-> m.stage, cancelled |-> m.cancelled]
               /\ m = Monitor(r.mounted) /\ m.tx # NoTransaction
    BY <2>2 DEF Begun, Monitor
  <2>3. r.monitors = Cancelled(p) \cup Begun(r.mounted)
    BY <1>2, <1>4
  <2> QED
    BY <1>1, <2>1, <2>2, <2>3 DEF OneReports
<1> QED
  BY <1>3, <1>4

\* A monitor that has finished reports no receipt.
LEMMA FinishingKeeps ==
    ASSUME OneReports(Page), NEW m \in monitors, NEW stage, stage # "receipt"
    PROVE  OneReports(PageWith(m, stage)) /\ IsPage(PageWith(m, stage))
<1>1. PICK p : p = PageWith(m, stage)
  OBVIOUS
<1>2. /\ p.monitors = (monitors \ {m}) \cup {[m EXCEPT !.stage = stage]}
      /\ p.mounted = mounted /\ IsPage(p)
  BY <1>1 DEF PageWith, Page, IsPage
<1>3. /\ \A k \in monitors :
            /\ k = [tx |-> k.tx, provider |-> k.provider, stage |-> k.stage, cancelled |-> k.cancelled]
            /\ k.stage = "receipt" /\ ~ k.cancelled => k = Monitor(mounted) /\ k.tx # NoTransaction
  BY DEF OneReports, Page
<1>4. ASSUME NEW k \in p.monitors
      PROVE  /\ k = [tx |-> k.tx, provider |-> k.provider, stage |-> k.stage, cancelled |-> k.cancelled]
             /\ k.stage = "receipt" /\ ~ k.cancelled => k = Monitor(p.mounted) /\ k.tx # NoTransaction
  <2>1. CASE k \in monitors
    BY <1>2, <1>3, <2>1
  <2>2. CASE k = [m EXCEPT !.stage = stage]
    BY <1>3, <2>2
  <2> QED
    BY <1>2, <1>4, <2>1, <2>2
<1> QED
  BY <1>1, <1>2, <1>4 DEF OneReports

\* A page that becomes the next one brings its monitors and its status along.
LEMMA BecomesKeeps ==
    ASSUME NEW p, IsPage(p), OneReports(p), Becomes(p), p.status = Status(p.status.type, p.status.tx)
    PROVE  StatusInv'
<1>1. Page' = p
  BY DEF Becomes, Page, IsPage
<1>2. OneReports(Page)'
  BY <1>1 DEF OneReports, Monitor
<1> QED
  BY <1>2 DEF StatusInv, Becomes

\* Every status is a type and a transaction.
LEMMA RenderedStatus ==
    ASSUME NEW p, IsPage(p), NEW s, s = Status(s.type, s.tx), NEW r, r = Render(p, s)
    PROVE  r.status = Status(r.status.type, r.status.tx)
<1>1. r.status \in {Status("confirmed", p.status.tx), Idle, s}
  BY RenderParts
<1> QED
  BY <1>1 DEF Status, Idle

\* What is rendered with a status that was set keeps the invariant.
LEMMA RenderingKeeps ==
    ASSUME NEW p, IsPage(p), OneReports(p), NEW s, s = Status(s.type, s.tx), Becomes(Render(p, s))
    PROVE  StatusInv'
<1>1. PICK r : r = Render(p, s)
  OBVIOUS
<1>2. IsPage(r)
  BY <1>1, RenderParts
<1>3. OneReports(r)
  BY <1>1, RenderKeeps
<1>4. r.status = Status(r.status.type, r.status.tx)
  BY <1>1, RenderedStatus
<1> QED
  BY <1>1, <1>2, <1>3, <1>4, BecomesKeeps

\* Nothing is monitored at first.
LEMMA StatusInit_Inv == StatusInit => StatusInv
BY DEF StatusInit, StatusInv, OneReports, Page, Idle, Status

\* Every step keeps all monitors but one from reporting a receipt.
LEMMA StatusNext_Inv == StatusInv /\ [StatusNext]_statusVars => StatusInv'
<1> SUFFICES ASSUME StatusInv, [StatusNext]_statusVars PROVE StatusInv'
  OBVIOUS
<1>1. /\ IsPage(Page) /\ OneReports(Page)
      /\ status = Status(status.type, status.tx) /\ Page.status = status
  BY PageIsPage DEF StatusInv, Page
<1>2. CASE UNCHANGED renderedVars
  BY <1>2 DEF renderedVars, StatusInv, OneReports, Page, Monitor, Status
<1>3. CASE RunEffects \/ ChangeProvider
  BY <1>1, <1>3, RenderingKeeps DEF RunEffects, ChangeProvider
<1>4. CASE Fade
  <2>1. PICK p : p = [Page EXCEPT !.fading = FALSE]
    OBVIOUS
  <2>2. IsPage(p) /\ OneReports(p)
    BY <1>1, <2>1 DEF IsPage, Page, OneReports
  <2>3. Idle = Status(Idle.type, Idle.tx)
    BY DEF Idle, Status
  <2> QED
    BY <1>4, <2>1, <2>2, <2>3, RenderingKeeps DEF Fade
<1>5. ASSUME NEW t \in Transactions, Send(t) PROVE StatusInv'
  <2>1. PICK p : p = Render(Page, status)
    OBVIOUS
  <2>2. IsPage(p)
    BY <1>1, <2>1, RenderParts
  <2>3. OneReports(p)
    BY <1>1, <2>1, RenderKeeps
  <2>4. PICK s : s = Status("waitingForApproval", t)
    OBVIOUS
  <2>5. s = Status(s.type, s.tx)
    BY <2>4 DEF Status
  <2>6. Becomes(Render(p, s))
    BY <1>5, <2>1, <2>4 DEF Send
  <2> QED
    BY <2>2, <2>3, <2>5, <2>6, RenderingKeeps
<1>6. ASSUME NEW t \in Transactions, Approved(t) PROVE StatusInv'
  <2>1. ASSUME NEW type, Becomes(Render(Page, Status(type, t))) PROVE StatusInv'
    <3>1. PICK s : s = Status(type, t)
      OBVIOUS
    <3>2. s = Status(s.type, s.tx)
      BY <3>1 DEF Status
    <3> QED
      BY <1>1, <2>1, <3>1, <3>2, RenderingKeeps
  <2> QED
    BY <1>2, <1>6, <2>1 DEF Approved
<1>7. ASSUME NEW m \in monitors, ReceiptArrives(m) \/ Reverted(m) \/ ReasonArrives(m) PROVE StatusInv'
  <2>1. ASSUME NEW stage, stage # "receipt", Becomes(PageWith(m, stage)) PROVE StatusInv'
    <3>1. PICK p : p = PageWith(m, stage)
      OBVIOUS
    <3>2. IsPage(p) /\ OneReports(p)
      BY <1>1, <2>1, <3>1, FinishingKeeps
    <3>3. p.status = Status(p.status.type, p.status.tx)
      BY <1>1, <3>1 DEF PageWith, Page
    <3> QED
      BY <2>1, <3>1, <3>2, <3>3, BecomesKeeps
  <2>2. ASSUME NEW s, s = Status(s.type, s.tx), Becomes(Render(PageWith(m, "over"), s)) PROVE StatusInv'
    <3>1. PICK p : p = PageWith(m, "over")
      OBVIOUS
    <3>2. IsPage(p) /\ OneReports(p)
      BY <1>1, <3>1, FinishingKeeps
    <3> QED
      BY <2>2, <3>1, <3>2, RenderingKeeps
  <2>3. CASE ReceiptArrives(m)
    <3>1. \A s \in {Status("confirmedOneShot", m.tx)} \cup Errors(m) : s = Status(s.type, s.tx)
      BY DEF Errors, Status
    <3> QED
      BY <2>1, <2>2, <2>3, <3>1 DEF ReceiptArrives
  <2>4. CASE Reverted(m)
    BY <2>1, <2>4 DEF Reverted
  <2>5. CASE ReasonArrives(m)
    <3>1. PICK s : s = Status("failed", m.tx)
      OBVIOUS
    <3>2. s = Status(s.type, s.tx)
      BY <3>1 DEF Status
    <3> QED
      BY <2>2, <2>5, <3>1, <3>2 DEF ReasonArrives
  <2> QED
    BY <1>7, <2>3, <2>4, <2>5
<1> QED
  BY <1>2, <1>3, <1>4, <1>5, <1>6, <1>7 DEF StatusNext, MonitorStep, statusVars

\* Only what is set to confirmedOneShot, or was, is rendered as it.
LEMMA RenderedAsSet ==
    ASSUME NEW p, IsPage(p), NEW s, Becomes(Render(p, s)), status'.type = "confirmedOneShot"
    PROVE  status' = s
<1>1. status' \in {Status("confirmed", p.status.tx), Idle, s}
  BY RenderParts DEF Becomes
<1> QED
  BY <1>1 DEF Status, Idle

\* For any number of sends and changes of provider, and however late receipts
\* and effects come: a transaction is shown as confirmed by the monitor of the
\* effect in force; unless effects are due, that is from the state that waits
\* for its confirmation.
THEOREM ConfirmedByMonitorInForce == StatusSpec => ConfirmedWasMonitored
<1>1. StatusInv /\ [StatusNext]_statusVars
      => (status'.type = "confirmedOneShot" /\ status # status'
            => /\ mounted.tx = status'.tx
               /\ Pending \/ status = Status("waitingForConfirmation", status'.tx))
  <2> SUFFICES ASSUME StatusInv, StatusNext, status'.type = "confirmedOneShot", status # status'
               PROVE  /\ mounted.tx = status'.tx
                      /\ Pending \/ status = Status("waitingForConfirmation", status'.tx)
    BY DEF statusVars, renderedVars
  <2>1. IsPage(Page) /\ Page.status = status
    BY PageIsPage DEF Page
  <2>2. ASSUME NEW s, Becomes(Render(Page, s)) PROVE status' = s
    BY <2>1, <2>2, RenderedAsSet
  <2>3. PICK m \in monitors : ReceiptArrives(m)
    <3>1. ~ RunEffects /\ ~ ChangeProvider
      BY <2>2 DEF RunEffects, ChangeProvider
    <3>2. ~ Fade
      <4>1. PICK p : p = [Page EXCEPT !.fading = FALSE]
        OBVIOUS
      <4>2. IsPage(p)
        BY <2>1, <4>1 DEF IsPage
      <4>3. Becomes(Render(p, Idle)) => status' = Idle
        BY <4>2, RenderedAsSet
      <4> QED
        BY <4>1, <4>3 DEF Fade, Idle
    <3>3. ASSUME NEW t \in Transactions PROVE ~ Send(t)
      <4>1. PICK p : p = Render(Page, status)
        OBVIOUS
      <4>2. IsPage(p)
        BY <2>1, <4>1, RenderParts
      <4>3. PICK s : s = Status("waitingForApproval", t)
        OBVIOUS
      <4>4. Becomes(Render(p, s)) => status' = s
        BY <4>2, RenderedAsSet
      <4> QED
        BY <4>1, <4>3, <4>4 DEF Send, Status
    <3>4. ASSUME NEW t \in Transactions PROVE ~ Approved(t)
      BY <2>2 DEF Approved, Status, renderedVars
    <3>5. ASSUME NEW m \in monitors PROVE ~ Reverted(m)
      <4>1. PageWith(m, "reason").status = status
        BY DEF PageWith, Page
      <4> QED
        BY <4>1 DEF Reverted, Becomes
    <3>6. ASSUME NEW m \in monitors PROVE ~ ReasonArrives(m)
      <4>1. PICK p, s : p = PageWith(m, "over") /\ s = Status("failed", m.tx)
        OBVIOUS
      <4>2. IsPage(p)
        BY <4>1, FinishingKeeps DEF StatusInv
      <4>3. Becomes(Render(p, s)) => status' = s
        BY <4>2, RenderedAsSet
      <4> QED
        BY <4>1, <4>3 DEF ReasonArrives, Status
    <3> QED
      BY <3>1, <3>2, <3>3, <3>4, <3>5, <3>6 DEF StatusNext, MonitorStep
  <2>4. ~ m.cancelled /\ m.stage = "receipt" /\ status' = Status("confirmedOneShot", m.tx)
    <3>1. PICK p : p = PageWith(m, "over")
      OBVIOUS
    <3>2. IsPage(p) /\ p.status = status
      BY <3>1, FinishingKeeps DEF StatusInv, PageWith, Page
    <3>3. ASSUME NEW s, Becomes(Render(p, s)) PROVE status' = s
      BY <3>2, <3>3, RenderedAsSet
    <3>4. ~ m.cancelled /\ m.stage = "receipt"
      BY <2>3, <3>1, <3>2 DEF ReceiptArrives, Becomes
    <3>5. PICK s \in {Status("confirmedOneShot", m.tx)} \cup Errors(m) : Becomes(Render(p, s))
      BY <2>3, <3>1, <3>4 DEF ReceiptArrives
    <3>6. status' = s
      BY <3>3, <3>5
    <3> QED
      BY <3>4, <3>5, <3>6 DEF Errors, Status
  <2>5. m = Monitor(mounted)
    BY <2>4 DEF StatusInv, OneReports, Page
  <2>6. mounted.tx = m.tx /\ m.tx # NoTransaction
    <3>1. m.tx # NoTransaction
      BY <2>4 DEF StatusInv, OneReports, Page
    <3> QED
      BY <2>5, <3>1 DEF Monitor
  <2>7. status'.tx = m.tx
    BY <2>4 DEF Status
  <2>8. CASE ~ Pending
    <3>1. mounted = Monitored(status)
      BY <2>8 DEF Pending, MonitorIsDue, Page
    <3>2. status.type = "waitingForConfirmation" /\ status.tx = m.tx
      BY <2>6, <3>1 DEF Monitored
    <3> QED
      BY <2>6, <2>7, <3>2 DEF StatusInv
  <2> QED
    BY <2>6, <2>7, <2>8
<1> QED
  BY <1>1, StatusInit_Inv, StatusNext_Inv, PTL DEF StatusSpec, ConfirmedWasMonitored

=============================================================================
