------------------------------- MODULE BaseRate -------------------------------
(***************************************************************************)
(* The base rate of TroveManager.sol, to which borrowing and redemption    *)
(* fees are tied: a redemption raises it, and it decays by a factor for    *)
(* every whole minute since the last fee operation.  The time of the last  *)
(* fee operation moves only when a minute has passed, so that a stream of  *)
(* small operations cannot stop the decay.                                 *)
(*                                                                         *)
(* Rates are in units of 1/RateUnit (1e18 in the code).                    *)
(***************************************************************************)
EXTENDS Integers, FiniteSetsExt

CONSTANTS
    RateUnit,             \* DECIMAL_PRECISION
    MinuteDecayFactor,
    Minute,               \* SECONDS_IN_ONE_MINUTE
    RedemptionFloor,      \* REDEMPTION_FEE_FLOOR
    RedeemedFractions,    \* what redemptions add to the rate: drawn / supply / BETA
    MaxRateTime           \* bound on the clock

ASSUME MinutePositive == Minute \in Nat \ {0}

VARIABLES
    baseRate,
    lastFeeOperationTime,
    rateTime,             \* block.timestamp
    redeemedAt,           \* history: when the last redemption took place
    minutesDecayed        \* history: the minutes of decay applied since then

rateVars == <<baseRate, lastFeeOperationTime, rateTime, redeemedAt, minutesDecayed>>

\* decMul rounds to the nearest unit.
DecMul(x, y) == (x * y + RateUnit \div 2) \div RateUnit

\* _decPow: exponentiation by squaring.
Squaring[p \in (0..RateUnit) \X (0..RateUnit) \X Nat] ==
    LET x == p[1]  y == p[2]  n == p[3] IN
    IF n = 1 THEN DecMul(x, y)
    ELSE Squaring[<<DecMul(x, x), IF n % 2 = 0 THEN y ELSE DecMul(x, y), n \div 2>>]

\* A thousand years, beyond which the exponent is cut off.
MinutesCap == 525600000

DecPow(base, minutes) ==
    IF minutes = 0 THEN RateUnit
    ELSE Squaring[<<base, RateUnit, Min({minutes, MinutesCap})>>]

MinutesPassed == (rateTime - lastFeeOperationTime) \div Minute

CalcDecayedBaseRate == (baseRate * DecPow(MinuteDecayFactor, MinutesPassed)) \div RateUnit

\* Mutant: every operation moves the time of the last one.
TimeAlwaysMoved(t) == t

LastFeeOpTime(t) ==
    IF t - lastFeeOperationTime >= Minute THEN t ELSE lastFeeOperationTime

RateInit ==
    /\ baseRate = 0
    /\ lastFeeOperationTime = 0
    /\ rateTime = 0
    /\ redeemedAt = 0
    /\ minutesDecayed = 0

\* decayBaseRateFromBorrowingAndCalculateFee
Borrow ==
    /\ baseRate' = CalcDecayedBaseRate
    /\ minutesDecayed' = minutesDecayed + MinutesPassed
    /\ lastFeeOperationTime' = LastFeeOpTime(rateTime)
    /\ UNCHANGED <<rateTime, redeemedAt>>

\* _updateBaseRateFromRedemption, updateBaseRate and the fee that is taken
\* afterwards, which must stay below what is redeemed.
Redeem(fraction) ==
    LET rate == Min({CalcDecayedBaseRate + fraction, RateUnit}) IN
    /\ rate # 0
    /\ rate + RedemptionFloor < RateUnit
    /\ baseRate' = rate
    /\ lastFeeOperationTime' = LastFeeOpTime(rateTime)
    /\ redeemedAt' = rateTime
    /\ minutesDecayed' = 0
    /\ UNCHANGED rateTime

RateTick ==
    /\ rateTime < MaxRateTime
    /\ rateTime' = rateTime + 1
    /\ UNCHANGED <<baseRate, lastFeeOperationTime, redeemedAt, minutesDecayed>>

RateNext == Borrow \/ RateTick \/ \E fraction \in RedeemedFractions : Redeem(fraction)

RateSpec == RateInit /\ [][RateNext]_rateVars

-----------------------------------------------------------------------------

\* Whoever borrows and whenever, the decay since the last redemption is at
\* least half of what the time passed is worth, and never ahead of it by a
\* minute ("This prevents base rate griefing", TroveManager.sol:1186).
DecayTracksTime ==
    LET due == rateTime - redeemedAt
        decayed == minutesDecayed + MinutesPassed
    IN  /\ due < 2 * Minute * (decayed + 1)
        /\ Minute * decayed < due + Minute

=============================================================================
