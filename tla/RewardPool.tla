----------------------------- MODULE RewardPool -----------------------------
(***************************************************************************)
(* What TroveManager's redistribution promises, for one asset (the STAR    *)
(* debt or one collateral).  An amount to share is put in a pool (the      *)
(* DefaultPool); every stake earns "amount per unit staked", kept in a     *)
(* running term L with Scale as its unit, and is paid from the pool later, *)
(* when its trove is next touched.  All divisions round down and the       *)
(* remainder is carried to the next redistribution.                        *)
(*                                                                         *)
(* The stakes are summed up: "claims" is the sum over the troves of        *)
(* stake * (L - snapshot), in units of 1/Scale.  The promise is that the   *)
(* pool always holds what the claims are worth, so that no payment from it *)
(* underflows.                                                             *)
(***************************************************************************)
EXTENDS Integers

CONSTANTS
    Scale,        \* DECIMAL_PRECISION, the unit of the running terms
    Amounts       \* amounts of the asset; Nat, unless TLC has to enumerate them

ASSUME ScalePositive == Scale \in Nat \ {0}
ASSUME AmountsAreNat == Amounts \subseteq Nat

VARIABLES
    pool,         \* what the pool holds
    claims,       \* what all the troves may still collect, times Scale
    error,        \* the numerator's remainder, carried to the next time
    totalStakes

vars == <<pool, claims, error, totalStakes>>

Init ==
    /\ pool = 0
    /\ claims = 0
    /\ error = 0
    /\ totalStakes = 0

\* What is earned per unit staked when "amount" is shared among "stakes".
PerUnit(amount, stakes) == (amount * Scale + error) \div stakes

Remainder(amount, stakes) == (amount * Scale + error) % stakes

\* Mutant: what is paid out is rounded up.
PaidRoundedUp(collected, paid) == paid * Scale <= collected + Scale - 1

\* Each trove's payment is its claim, rounded down.
PaidFor(collected, paid) == paid * Scale <= collected

\* Troves collect and change, open or close their stakes.
Settle(collected, paid, stakes) ==
    /\ collected <= claims
    /\ PaidFor(collected, paid)
    /\ pool' = pool - paid
    /\ claims' = claims - collected
    /\ totalStakes' = stakes
    /\ UNCHANGED error

\* A liquidation: the closed troves collect and leave, and what they leave
\* behind is shared among the stakes that remain.
Redistribute(collected, paid, stakes, amount) ==
    /\ collected <= claims
    /\ PaidFor(collected, paid)
    /\ stakes # 0
    /\ pool - paid + amount \in Amounts
    /\ pool' = pool - paid + amount
    /\ claims' = claims - collected + PerUnit(amount, stakes) * stakes
    /\ error' = Remainder(amount, stakes)
    /\ totalStakes' = stakes

Next ==
    \E collected, paid, stakes \in Amounts :
       \/ Settle(collected, paid, stakes)
       \/ \E amount \in Amounts : Redistribute(collected, paid, stakes, amount)

Spec == Init /\ [][Next]_vars

-----------------------------------------------------------------------------

TypeOK ==
    /\ pool \in Nat
    /\ claims \in Nat
    /\ error \in Nat
    /\ totalStakes \in Nat

\* The pool is worth all the claims and the remainder carried: a trove that
\* collects is always paid in full (_movePendingTroveRewardsToActivePool never
\* takes more from the DefaultPool than it holds).
PoolCoversClaims == claims + error <= Scale * pool

\* Whatever a trove may collect, the pool holds it.
PaymentNeverUnderflows ==
    [][\A collected, paid \in Amounts :
          collected <= claims /\ PaidFor(collected, paid) => paid <= pool]_vars

=============================================================================
