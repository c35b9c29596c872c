---------------------------- MODULE TroveRegistry ----------------------------
(***************************************************************************)
(* SortedTroves.sol composed with the callers that drive it: opening and   *)
(* adjusting through BorrowerOperations, closing through TroveManager (for *)
(* the owner, a liquidation or a redemption), partial redemption, the      *)
(* updateTroves and updateUnderCollateralizedTroves bots, governance.      *)
(*                                                                         *)
(* A transaction is atomic.  updateTroves re-inserts a caller-chosen list  *)
(* of troves one after the other: the list still to do is "batch", and     *)
(* while it is not empty nothing else happens.                             *)
(***************************************************************************)
EXTENDS SortedTroves, TroveOwners

CONSTANT MaxBatch                  \* bound on the length of updateTroves' input

VARIABLE batch                     \* borrowers updateTroves has still to re-insert

ASSUME MaxBatchAssumption == MaxBatch \in Nat

vars == <<listVars, ownerVars, batch>>

Init ==
    /\ ListInit
    /\ OwnersInit
    /\ batch = <<>>

OpenTrove(b, AICR, prevHint, nextHint, fee) ==
    /\ batch = <<>>
    /\ AddTroveOwner(b)
    /\ CanInsert(data, b, AICR)
    /\ data' = InsertNode(data, b, AICR, prevHint, nextHint, NewBoost(fee))
    /\ UNCHANGED <<registryVars, boostVars, batch>>

AdjustTrove(b, newAICR, prevHint, nextHint, fee, weight) ==
    /\ batch = <<>>
    /\ status[b] = "active"
    /\ CanReInsert(data, b, newAICR)
    /\ data' = ReInsertWithNewBoost(data, b, newAICR, prevHint, nextHint, fee, weight)
    /\ UNCHANGED <<registryVars, boostVars, ownerVars, batch>>

\* The registry entry goes first, as _closeTrove has it.
CloseTrove(b) ==
    /\ batch = <<>>
    /\ UpdateUnderCollateralizedTrove(b, FALSE)
    /\ RemoveTroveOwner(b)
    /\ data' = RemoveNode(data, b)
    /\ UNCHANGED <<boostVars, batch>>

RedeemPartially(b, newAICR, prevHint, nextHint) ==
    /\ batch = <<>>
    /\ status[b] = "active"
    /\ CanReInsert(data, b, newAICR)
    /\ data' = ReInsert(data, b, newAICR, prevHint, nextHint)
    /\ UNCHANGED <<registryVars, boostVars, ownerVars, batch>>

\* Anyone may name any borrowers; one that is not listed reverts the whole call.
UpdateTroves(borrowers) ==
    /\ batch = <<>>
    /\ borrowers # <<>>
    /\ \A i \in DOMAIN borrowers : contains(data, borrowers[i])
    /\ batch' = borrowers
    /\ UNCHANGED <<listVars, ownerVars>>

UpdateNextTrove(newAICR, prevHint, nextHint) ==
    /\ batch # <<>>
    /\ CanReInsert(data, Head(batch), newAICR)
    /\ data' = ReInsert(data, Head(batch), newAICR, prevHint, nextHint)
    /\ batch' = Tail(batch)
    /\ UNCHANGED <<registryVars, boostVars, ownerVars>>

\* The flag is what the code computes from the current ICR; prices are not in
\* this module, so the report may say either.
UpdateUnderCollateralizedTroves(b, isUnderCollateralized) ==
    /\ batch = <<>>
    /\ UpdateUnderCollateralizedTrove(b, isUnderCollateralized)
    /\ UNCHANGED <<data, boostVars, ownerVars, batch>>

Govern ==
    /\ batch = <<>>
    /\ \/ \E factor \in BoostFactors : ChangeGlobalBoostMultiplier(factor)
       \/ \E base \in DecayBases : ChangeBoostMinuteDecayFactor(base)
    /\ UNCHANGED <<ownerVars, batch>>

Elapse ==
    /\ batch = <<>>
    /\ Tick
    /\ UNCHANGED <<ownerVars, batch>>

Next ==
    \/ \E b \in Borrowers, AICR \in AICRs, p, n \in Ids :
          \/ \E fee \in BoostFees :
                \/ OpenTrove(b, AICR, p, n, fee)
                \/ \E w \in VCWeights : AdjustTrove(b, AICR, p, n, fee, w)
          \/ RedeemPartially(b, AICR, p, n)
    \/ \E b \in Borrowers : CloseTrove(b)
    \/ \E k \in 1..MaxBatch : \E bs \in [1..k -> Borrowers] : UpdateTroves(bs)
    \/ \E AICR \in AICRs, p, n \in Ids : UpdateNextTrove(AICR, p, n)
    \/ \E b \in Borrowers, u \in BOOLEAN : UpdateUnderCollateralizedTroves(b, u)
    \/ Govern
    \/ Elapse

Spec == Init /\ [][Next]_vars

-----------------------------------------------------------------------------

\* The nodes in the order a walk over nextId from the head meets them, cut
\* after data.size steps.
Walk ==
    LET step[i \in 1..data.size] ==
            IF i = 1 THEN data.head ELSE data.nodes[step[i - 1]].nextId
    IN  [i \in 1..data.size |-> step[i]]

\* The links are one list: the walk from the head meets every active trove
\* exactly once and ends at the tail, prevId is the inverse of nextId, and
\* whatever is not listed (address(0) above all) keeps the all-zero node.
WellLinked ==
    /\ \A i \in 1..data.size :
          /\ contains(data, Walk[i])
          /\ data.nodes[Walk[i]].prevId = IF i = 1 THEN Null ELSE Walk[i - 1]
    /\ data.tail = IF data.size = 0 THEN Null ELSE Walk[data.size]
    /\ data.size > 0 => data.nodes[data.tail].nextId = Null
    /\ data.size = 0 => data.head = Null
    /\ {b \in Borrowers : status[b] = "active"} = {Walk[i] : i \in 1..data.size}
    /\ \A id \in Ids : contains(data, id) \/ data.nodes[id] = EmptyNode

\* The list and the TroveOwners array, kept by different contracts, agree on
\* which troves exist; while updateTroves runs they agree at every step.
ListMatchesOwners ==
    /\ data.size = Len(TroveOwners)
    /\ \A b \in Borrowers :
          contains(data, b) <=> \E i \in DOMAIN TroveOwners : TroveOwners[i] = b

LargestOf(S) == CHOOSE m \in S : \A x \in S : m >= x

MaxFee == LargestOf(BoostFees \cup {0})

MaxBoost == MaxFee * LargestOf(BoostFactors \cup {0})

\* What a trove's boost is worth now (getDecayedBoost).
DecayedBoost(b) == CalculateDecayedBoost(data.nodes[b].boost, data.nodes[b].since)

\* This step is an adjustment of b's trove that pays the fee.
Pays(b, fee) ==
    \E AICR \in AICRs, p, n \in Ids, w \in VCWeights : AdjustTrove(b, AICR, p, n, fee, w)

\* Re-inserting a trove restarts its boost's clock; that must never revive a
\* boost that had decayed.  What a trove's boost is worth rises only in a step
\* that pays a fee for this trove, and then to at most that fee's boost,
\* however often redemptions and the updateTroves bot have re-inserted the
\* trove before.  (A governance change of the decay factor revalues every
\* boost at once.)
DecayedBoostOnlyBought ==
    [][\A b \in Borrowers :
          (/\ contains(data, b) /\ contains(data, b)'
           /\ boostMinuteDecayFactor' = boostMinuteDecayFactor
           /\ DecayedBoost(b)' > DecayedBoost(b))
             => \E fee \in BoostFees : DecayedBoost(b)' <= NewBoost(fee) /\ Pays(b, fee)]_vars

-----------------------------------------------------------------------------
(* The list implements TroveOrder: the sequence is the walk.               *)

Order == INSTANCE TroveOrder WITH
    order <- Walk,
    boostedAICR <- [b \in Borrowers |-> data.nodes[b].oldBoostedAICR],
    flagged <- underCollateralizedTroves,
    flaggedSize <- underCollateralizedTrovesSize,
    Keys <- {a + x : a \in AICRs \ {0}, x \in 0..MaxBoost}

\* However wrong the hints, every insertion, re-insertion and removal has the
\* effect on the sequence that looking at two neighbours should have.
RefinesTroveOrder == Order!OrderSpec

\* The sequence is sorted by the boosted AICR each trove was inserted with,
\* whatever became of prices and boosts since.
SortedByOldBoostedAICR == Order!Descending

=============================================================================
