---------------------------- MODULE StabilityPool ----------------------------
(***************************************************************************)
(* The accounting of StabilityPool.sol, for one collateral asset.  An      *)
(* offset burns STAR of the pool and leaves collateral in it.  No deposit  *)
(* is touched by that: the running product P says what a unit of STAR has  *)
(* become, the running sums S what it has earned, and a deposit is valued  *)
(* from the snapshots taken when its owner last acted.  When P gets small  *)
(* it is multiplied by ScaleFactor, and the scale is counted up; when the  *)
(* pool is emptied, a new epoch begins.                                    *)
(***************************************************************************)
EXTENDS Integers, FiniteSets, FiniteSetsExt, Functions

CONSTANTS
    Depositors,
    Decimals,        \* DECIMAL_PRECISION
    ScaleFactor,     \* SCALE_FACTOR, the square root of Decimals in the code
    Dust,            \* 1e9: a deposit that fell to less than a Dust-th is nothing
    Deposited,       \* amounts of STAR provided or withdrawn; Nat but for TLC
    Offsets,         \* <<debt, collateral>> of an offset
    MaxOffsets,      \* bound on the offsets
    MaxDeposits      \* bound on the deposits together

ASSUME DecimalsPositive ==
    Decimals \in Nat \ {0} /\ ScaleFactor \in Nat \ {0} /\ Dust \in Nat \ {0}
ASSUME DepositedNat == Deposited \subseteq Nat
ASSUME OffsetsNat == Offsets \subseteq Nat \X Nat
ASSUME BoundsNat == MaxOffsets \in Nat /\ MaxDeposits \in Nat
ASSUME DepositorsFinite == IsFiniteSet(Depositors)

VARIABLES
    deposits,               \* initial value of each deposit
    depositSnapshots,       \* [P, S, scale, epoch] of each depositor
    P, currentScale, currentEpoch,
    epochToScaleToSum,      \* S, at every <<epoch, scale>>
    lastSTARLossError_Offset,
    lastAssetError_Offset,
    totalSTARDeposits,
    totalColl,
    offsets                 \* how many offsets there were

poolVars == <<P, currentScale, currentEpoch, epochToScaleToSum,
              lastSTARLossError_Offset, lastAssetError_Offset, offsets>>
depositVars == <<deposits, depositSnapshots>>
spVars == <<depositVars, poolVars, totalSTARDeposits, totalColl>>

\* Every offset adds at most one to the scale or to the epoch.
Places == (0..MaxOffsets) \X (0..MaxOffsets + 1)

BlankSnapshot == [P |-> 0, S |-> 0, scale |-> 0, epoch |-> 0]

SPInit ==
    /\ deposits = [d \in Depositors |-> 0]
    /\ depositSnapshots = [d \in Depositors |-> BlankSnapshot]
    /\ P = Decimals
    /\ currentScale = 0
    /\ currentEpoch = 0
    /\ epochToScaleToSum = [place \in Places |-> 0]
    /\ lastSTARLossError_Offset = 0
    /\ lastAssetError_Offset = 0
    /\ totalSTARDeposits = 0
    /\ totalColl = 0
    /\ offsets = 0

-----------------------------------------------------------------------------
(* What a deposit is worth. *)

CompoundedAcross(deposit, snapshot) ==
    CASE currentScale = snapshot.scale -> (deposit * P) \div snapshot.P
      [] currentScale = snapshot.scale + 1 ->
            ((deposit * P) \div snapshot.P) \div ScaleFactor
      [] OTHER -> 0

\* Mutant: the epoch is not looked at.
CompoundedAnyEpoch(d) ==
    IF deposits[d] = 0 THEN 0 ELSE CompoundedAcross(deposits[d], depositSnapshots[d])

CompoundedDeposit(d) ==
    IF deposits[d] = 0 \/ depositSnapshots[d].epoch < currentEpoch THEN 0
    ELSE LET stake == CompoundedAcross(deposits[d], depositSnapshots[d]) IN
         IF stake < deposits[d] \div Dust THEN 0 ELSE stake

\* Mutant: the sum is read at the scale of the present.
EarnedInPresent(snapshot) ==
    epochToScaleToSum[<<snapshot.epoch, currentScale>>] - snapshot.S

\* A gain may span one change of scale; what came after a second one is lost.
EarnedPerUnit(snapshot) ==
    epochToScaleToSum[<<snapshot.epoch, snapshot.scale>>] - snapshot.S
        + epochToScaleToSum[<<snapshot.epoch, snapshot.scale + 1>>] \div ScaleFactor

Gain(d) ==
    IF deposits[d] = 0 THEN 0
    ELSE ((deposits[d] * EarnedPerUnit(depositSnapshots[d])) \div depositSnapshots[d].P)
            \div Decimals

-----------------------------------------------------------------------------
(* The depositors' operations. *)

CurrentSnapshot ==
    [P |-> P, S |-> epochToScaleToSum[<<currentEpoch, currentScale>>],
     scale |-> currentScale, epoch |-> currentEpoch]

\* Mutant: the sum is not taken down again when a deposit is changed.
KeptSum(d, value) ==
    IF value = 0 THEN BlankSnapshot
    ELSE [CurrentSnapshot EXCEPT !.S = depositSnapshots[d].S]

SnapshotFor(d, value) == IF value = 0 THEN BlankSnapshot ELSE CurrentSnapshot

UpdateDepositAndSnapshots(d, value) ==
    /\ deposits' = [deposits EXCEPT ![d] = value]
    /\ depositSnapshots' = [depositSnapshots EXCEPT ![d] = SnapshotFor(d, value)]

\* provideToSP.  The compounded deposit may not exceed the initial one, or
\* computing the loss reverts; so may paying out the gains.
ProvideToSP(d, amount) ==
    /\ amount # 0
    /\ totalSTARDeposits + amount <= MaxDeposits
    /\ CompoundedDeposit(d) <= deposits[d]
    /\ Gain(d) <= totalColl
    /\ totalSTARDeposits' = totalSTARDeposits + amount
    /\ totalColl' = totalColl - Gain(d)
    /\ UpdateDepositAndSnapshots(d, CompoundedDeposit(d) + amount)
    /\ UNCHANGED poolVars

\* withdrawFromSP, and claimRewardsSwap with amount 0.  That no trove is
\* under-collateralised is required unless amount = 0, and is left open here.
WithdrawFromSP(d, amount) ==
    LET withdrawn == Min({amount, CompoundedDeposit(d)}) IN
    /\ deposits[d] # 0
    /\ CompoundedDeposit(d) <= deposits[d]
    /\ Gain(d) <= totalColl
    /\ withdrawn <= totalSTARDeposits
    /\ totalSTARDeposits' = totalSTARDeposits - withdrawn
    /\ totalColl' = totalColl - Gain(d)
    /\ UpdateDepositAndSnapshots(d, CompoundedDeposit(d) - withdrawn)
    /\ UNCHANGED poolVars

-----------------------------------------------------------------------------
(* The offset of a liquidated debt. *)

\* Mutant: the loss per unit is rounded down.
LossRoundedDown(debt) ==
    IF debt = totalSTARDeposits THEN Decimals
    ELSE (debt * Decimals - lastSTARLossError_Offset) \div totalSTARDeposits

\* The loss per unit staked is rounded up, so that the error favours the pool.
LossPerUnit(debt) ==
    IF debt = totalSTARDeposits THEN Decimals
    ELSE (debt * Decimals - lastSTARLossError_Offset) \div totalSTARDeposits + 1

LossError(debt, loss) ==
    IF debt = totalSTARDeposits THEN 0
    ELSE loss * totalSTARDeposits - (debt * Decimals - lastSTARLossError_Offset)

Numerator(coll) == coll * Decimals + lastAssetError_Offset

\* Mutant: P is scaled up, the scale not counted.
NextPlaceUnscaled(factor) ==
    IF factor = 0 THEN <<currentEpoch + 1, 0>> ELSE <<currentEpoch, currentScale>>

\* Whether multiplying P leaves it too small.
Rescaled(factor) == (P * factor) \div Decimals < ScaleFactor

NextPlace(factor) ==
    IF factor = 0 THEN <<currentEpoch + 1, 0>>
    ELSE IF Rescaled(factor) THEN <<currentEpoch, currentScale + 1>>
    ELSE <<currentEpoch, currentScale>>

NextP(factor) ==
    IF factor = 0 THEN Decimals
    ELSE IF Rescaled(factor) THEN (P * factor * ScaleFactor) \div Decimals
    ELSE (P * factor) \div Decimals

\* An offset that would bring P to 0 reverts, and so does one too small for
\* the error carried over.
Offset(debt, coll) ==
    LET loss == LossPerUnit(debt)
        gain == (Numerator(coll) * P) \div totalSTARDeposits
        \* The gain belongs to the scale in which the deposits were reduced.
        place == <<currentEpoch, currentScale>>
        next == NextPlace(Decimals - loss)
    IN
    /\ totalSTARDeposits # 0 /\ debt # 0
    /\ debt <= totalSTARDeposits
    /\ offsets < MaxOffsets
    /\ debt = totalSTARDeposits \/ lastSTARLossError_Offset <= debt * Decimals
    /\ loss <= Decimals
    /\ NextP(Decimals - loss) # 0
    /\ lastSTARLossError_Offset' = LossError(debt, loss)
    /\ lastAssetError_Offset' = Numerator(coll) - (gain * totalSTARDeposits) \div P
    /\ epochToScaleToSum' = [epochToScaleToSum EXCEPT ![place] = @ + gain]
    /\ P' = NextP(Decimals - loss)
    /\ currentEpoch' = next[1]
    /\ currentScale' = next[2]
    /\ totalSTARDeposits' = totalSTARDeposits - debt
    /\ totalColl' = totalColl + coll
    /\ offsets' = offsets + 1
    /\ UNCHANGED depositVars

SPNext ==
    \/ \E d \in Depositors, amount \in Deposited : ProvideToSP(d, amount) \/ WithdrawFromSP(d, amount)
    \/ \E o \in Offsets : Offset(o[1], o[2])

SPSpec == SPInit /\ [][SPNext]_spVars

-----------------------------------------------------------------------------

SnapshotsOf == [P : Nat, S : Nat, scale : Nat, epoch : Nat]

\* The amounts stay natural numbers, which no rounding of a loss or of an error
\* carried between offsets may break, and the places stay within their range.
SPTypeOK ==
    /\ deposits \in [Depositors -> Nat]
    /\ depositSnapshots \in [Depositors -> SnapshotsOf]
    /\ P \in Nat \ {0}
    /\ currentScale \in 0..offsets /\ currentEpoch \in 0..offsets
    /\ epochToScaleToSum \in [Places -> Nat]
    /\ lastSTARLossError_Offset \in Nat /\ lastAssetError_Offset \in Nat
    /\ totalSTARDeposits \in Nat /\ totalColl \in Nat
    /\ offsets \in 0..MaxOffsets

DepositsWorth == SumFunction([d \in Depositors |-> CompoundedDeposit(d)])

\* The pool holds the STAR that all deposits together are worth, whatever was
\* offset between, across scales and epochs, but for one part in Decimals of
\* the largest pool for each offset: the error of one offset that the next one
\* takes off its loss is taken off for deposits that have shrunk meanwhile.
DepositsBacked ==
    Decimals * DepositsWorth <= Decimals * totalSTARDeposits + MaxDeposits * offsets

\* The error is in favour of the pool: what the deposits are worth, it holds.
FavorsThePool == DepositsWorth <= totalSTARDeposits

\* The loss of a deposit can be computed: provideToSP and withdrawFromSP
\* subtract the compounded deposit from the initial one, and would revert for
\* its owner for good if it were larger.
LossComputable == \A d \in Depositors : CompoundedDeposit(d) <= deposits[d]

\* What a deposit can at most have been worth, when less than a Dust-th of it,
\* which counts as nothing and still earns, is counted in.
WorthAtMost(d) == CompoundedDeposit(d) + deposits[d] \div Dust + 1

\* The share of d in the collateral brought, in units of 1 / (Decimals *
\* totalSTARDeposits), with what the sums of two scales are rounded by.
ShareAtMost(d, coll) ==
    WorthAtMost(d) * Numerator(coll)
        + (deposits[d] \div depositSnapshots[d].P + 1) * totalSTARDeposits

SameDeposit(d) == depositSnapshots'[d] = depositSnapshots[d] /\ deposits'[d] = deposits[d]

\* What a depositor has earned is not lost by what others do, nor by a change
\* of scale or epoch: only the owner's own operations lower it.
GainsKept == [][\A d \in Depositors : SameDeposit(d) => Gain(d) <= Gain(d)']_spVars

\* An offset gives a depositor no more than the share in the pool at that
\* time, and nothing else adds to a gain; an operation of the owner ends it.
\* Nobody earns for the time before a deposit, or twice for the same offset.
GainsByShare ==
    [][\A d \in Depositors :
         /\ ~ SameDeposit(d) => Gain(d)' = 0
         /\ SameDeposit(d) /\ offsets' = offsets => Gain(d)' = Gain(d)
         /\ SameDeposit(d) /\ deposits[d] # 0 /\ offsets' # offsets =>
              Decimals * totalSTARDeposits * (Gain(d)' - Gain(d) - 1)
                 <= ShareAtMost(d, totalColl' - totalColl)]_spVars

=============================================================================
