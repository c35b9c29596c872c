------------------------------- MODULE FeeCurve -------------------------------
(***************************************************************************)
(* ThreePieceWiseLinearFeeCurve.sol and what the controller does with it.  *)
(* The fee on a deposit is a function of the share of the system that the  *)
(* collateral backs, given by three line segments; it is never below the   *)
(* last fee charged, which fades linearly over decayTime.  A collateral    *)
(* may be given another curve, which takes the last fee over.              *)
(*                                                                         *)
(* Fees and shares are in units of 1/Precision (1e18 in the code).         *)
(***************************************************************************)
EXTENDS Integers, FiniteSetsExt

CONSTANTS
    Precision,
    Curves,         \* the curve contracts
    Params,         \* [m1, b1, cutoff1, m2, cutoff2, m3, decayTime, dollarCap]
    VCs,            \* values of collateral, in VC
    MaxAdjusted,    \* bound on the calls of adjustParams, for one curve
    MaxCurveTime    \* bound on the clock

\* What the contracts keep in a uint256, in units of which one is not zero.
ASSUME PrecisionPositive == Precision \in Nat \ {0}
ASSUME ParamsNat ==
    Params \subseteq [m1 : Nat, b1 : Nat, cutoff1 : Nat, m2 : Nat, cutoff2 : Nat, m3 : Nat,
                     decayTime : Nat, dollarCap : Nat]
ASSUME VCsNat == VCs \subseteq Nat

VARIABLES
    curve,          \* the storage of every curve contract
    current,        \* collateralParams[collateral].feeCurve
    curveTime       \* block.timestamp

curveVars == <<curve, current, curveTime>>

BlankCurve ==
    [m1 |-> 0, b1 |-> 0, cutoff1 |-> 0,
     m2 |-> 0, b2 |-> 0, b2Negative |-> FALSE, cutoff2 |-> 0,
     m3 |-> 0, b3 |-> 0, b3Negative |-> FALSE,
     decayTime |-> 0, dollarCap |-> 0, lastFeeTime |-> 0, lastFeePercent |-> 0,
     adjusted |-> 0]     \* how often adjustParams ran, 0 until initialized

Times(m, x) == (m * x) \div Precision

Adjustable(p) == p.cutoff1 <= p.cutoff2 /\ p.m1 <= p.m2 /\ p.m2 <= p.m3

\* Mutant: the third piece does not count what the second one starts with.
AtCutoff2Bare(p, b2) == Times(p.m2, p.cutoff2)

\* The value the third piece is made to start from.  The sign of b2 is not
\* looked at.
AtCutoff2(p, b2) == Times(p.m2, p.cutoff2) + b2

Abs(x) == IF x < 0 THEN -x ELSE x

\* adjustParams: the intercepts follow from the slopes and the cutoffs; a sign
\* once negative stays negative.
Adjusted(c, p) ==
    LET d2 == Times(p.m1, p.cutoff1) + p.b1 - Times(p.m2, p.cutoff1)
        d3 == AtCutoff2(p, Abs(d2)) - Times(p.m3, p.cutoff2)
    IN  [c EXCEPT !.m1 = p.m1, !.b1 = p.b1, !.m2 = p.m2, !.m3 = p.m3,
                  !.cutoff1 = p.cutoff1, !.cutoff2 = p.cutoff2,
                  !.b2 = Abs(d2), !.b2Negative = @ \/ d2 < 0,
                  !.b3 = Abs(d3), !.b3Negative = @ \/ d3 < 0,
                  !.decayTime = p.decayTime, !.dollarCap = p.dollarCap,
                  !.adjusted = @ + 1]

Signed(b, negative) == IF negative THEN -b ELSE b

\* The fee at a share of the system, before it is capped.
Piece(c, share) ==
    CASE share <= c.cutoff1 -> Times(c.m1, share) + c.b1
      [] share > c.cutoff1 /\ share <= c.cutoff2 ->
            Times(c.m2, share) + Signed(c.b2, c.b2Negative)
      [] OTHER -> Times(c.m3, share) + Signed(c.b3, c.b3Negative)

Share(coll, total) == IF total = 0 THEN 0 ELSE (coll * Precision) \div total

FeePoint(c, coll, total) ==
    IF total = 0 THEN 0 ELSE Min({Piece(c, Share(coll, total)), Precision})

\* The point is computed without the subtraction underflowing and without the
\* share being out of bounds.
PointDefined(c, coll, total) ==
    total # 0 => Share(coll, total) <= Precision /\ Piece(c, Share(coll, total)) >= 0

\* What is left at time t of the last fee; undefined if decayTime = 0 in the
\* second of the last fee (a division by zero).
DecayDefined(c, t) == c.decayTime # 0 \/ t # c.lastFeeTime

DecayedFee(c, t) ==
    IF t - c.lastFeeTime <= c.decayTime
      THEN c.lastFeePercent - (c.lastFeePercent * (t - c.lastFeeTime)) \div c.decayTime
      ELSE 0

\* Mutant: the last fee is forgotten.
FeeWithoutFloor(c, points, t) == Min({Precision, points \div 2})

Fee(c, points, t) == Min({Precision, Max({points \div 2, DecayedFee(c, t)})})

\* addCollateral takes a curve whether or not it is configured.
CurveInit ==
    /\ curve = [f \in Curves |-> BlankCurve]
    /\ current \in Curves
    /\ curveTime = 1

\* The owner configures a curve.
AdjustParams(f, p) ==
    /\ Adjustable(p)
    /\ curve[f].adjusted < MaxAdjusted
    /\ curve' = [curve EXCEPT ![f] = Adjusted(@, p)]
    /\ UNCHANGED <<current, curveTime>>

SetDecayTime(f, d) ==
    /\ curve' = [curve EXCEPT ![f].decayTime = d]
    /\ UNCHANGED <<current, curveTime>>

SetDollarCap(f, cap) ==
    /\ curve' = [curve EXCEPT ![f].dollarCap = cap]
    /\ UNCHANGED <<current, curveTime>>

\* The controller puts a configured curve in the place of the current one.
ChangeFeeCurve(f) ==
    /\ curve[f].adjusted > 0
    /\ curve' = [curve EXCEPT ![f].lastFeePercent = curve[current].lastFeePercent,
                              ![f].lastFeeTime = curve[current].lastFeeTime]
    /\ current' = f
    /\ UNCHANGED curveTime

\* A deposit of value "input": coll and pre are the values of this collateral
\* and of the system before it, post that of the system after it.
GetFeeAndUpdate(input, coll, pre, post) ==
    LET c == curve[current] IN
    /\ c.dollarCap # 0 => coll + input <= c.dollarCap
    /\ PointDefined(c, coll, pre) /\ PointDefined(c, coll + input, post)
    /\ DecayDefined(c, curveTime)
    /\ LET points == FeePoint(c, coll, pre) + FeePoint(c, coll + input, post) IN
       curve' = [curve EXCEPT ![current].lastFeePercent = Fee(c, points, curveTime),
                              ![current].lastFeeTime = curveTime]
    /\ UNCHANGED <<current, curveTime>>

CurveTick ==
    /\ curveTime < MaxCurveTime
    /\ curveTime' = curveTime + 1
    /\ UNCHANGED <<curve, current>>

CurveNext ==
    \/ \E f \in Curves :
          \/ \E p \in Params :
                \/ AdjustParams(f, p)
                \/ SetDecayTime(f, p.decayTime)
                \/ SetDollarCap(f, p.dollarCap)
          \/ ChangeFeeCurve(f)
    \/ \E input, coll, pre, post \in VCs : GetFeeAndUpdate(input, coll, pre, post)
    \/ CurveTick

CurveSpec == CurveInit /\ [][CurveNext]_curveVars

-----------------------------------------------------------------------------

\* The more of the system a collateral backs, the higher its fee, across the
\* cutoffs and whatever the rounding, for a curve configured once (adjustParams
\* does not reset b2Negative and b3Negative).
FeeRisesWithShare ==
    \A f \in Curves : curve[f].adjusted = 1 =>
        \A s \in 0..Precision - 1 : Piece(curve[f], s) <= Piece(curve[f], s + 1)

\* Neither a small deposit in between nor a change of curve makes a later
\* deposit cheaper: what is left of the last fee is never lowered, at no later
\* time, unless the decay time itself is changed (getFeeAndUpdate restarts the
\* decay from the fee it charged).
FloorNeverLowered ==
    [][LET was == curve[current] IN
       LET is == curve'[current'] IN
       was.decayTime # 0 /\ is.decayTime = was.decayTime =>
          \A t \in curveTime'..curveTime' + was.decayTime :
              DecayedFee(was, t) <= DecayedFee(is, t)]_curveVars

\* "f1 meets f2 at cutoff1", "f2 meets f3 at cutoff2": a curve configured once
\* has no jump (ThreePieceWiseLinearFeeCurve.sol:39-40).
PiecesMeet ==
    \A f \in Curves : curve[f].adjusted = 1 =>
        /\ curve[f].cutoff1 < curve[f].cutoff2 =>
              Piece(curve[f], curve[f].cutoff1)
                = Times(curve[f].m2, curve[f].cutoff1) + Signed(curve[f].b2, curve[f].b2Negative)
        /\ Piece(curve[f], curve[f].cutoff2)
              = Times(curve[f].m3, curve[f].cutoff2) + Signed(curve[f].b3, curve[f].b3Negative)

=============================================================================
