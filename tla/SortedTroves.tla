---------------------------- MODULE SortedTroves ----------------------------
(***************************************************************************)
(* SortedTroves.sol: the doubly linked list of troves, descending in       *)
(* oldBoostedAICR, with caller-supplied position hints, the boost that     *)
(* decays with time, and the registry of under-collateralised troves.      *)
(*                                                                         *)
(* The contract's Data struct is the record "data"; every internal         *)
(* function is an operator from a Data record to a Data record, so that    *)
(* the handlers that call two of them in one transaction (reInsert,        *)
(* _closeTrove) compose them.  A revert leaves no trace: what the code     *)
(* requires is a guard.  Null is address(0); data.nodes[Null] is the       *)
(* all-zero node Solidity reads for it.                                    *)
(***************************************************************************)
EXTENDS Addresses, Naturals, Sequences, FiniteSets, SequencesExt

CONSTANTS
    Null,             \* address(0)
    MaxSize,          \* data.maxSize
    AICRs,            \* the AICRs callers compute; 0 is rejected by the list
    BoostFees,        \* _feeAsPercentOfTotal, as multiples of one boost unit
    BoostFactors,     \* values governance gives globalBoostFactor
    DecayBases,       \* by how much a boost is divided per unit of time
    VCWeights,        \* pairs <<_VCBeforeAdjustment, _addedVCIn>>
    MaxTime           \* bound on the clock

ASSUME SortedTrovesAssumption ==
    /\ Null \notin Borrowers
    /\ MaxSize \in Nat \ {0}
    /\ MaxTime \in Nat
    /\ AICRs \subseteq Nat
    /\ BoostFees \subseteq Nat /\ IsFiniteSet(BoostFees)
    /\ BoostFactors \subseteq Nat /\ IsFiniteSet(BoostFactors)
    /\ DecayBases \subseteq Nat \ {0} /\ 2 \in DecayBases
    /\ \A w \in VCWeights : w[1] \in Nat /\ w[2] \in Nat /\ w[1] + w[2] > 0

VARIABLES
    data,                          \* the list: head, tail, size and nodes
    underCollateralizedTroves,     \* the addresses mapped to true
    underCollateralizedTrovesSize,
    globalBoostFactor,
    boostMinuteDecayFactor,
    now                            \* block.timestamp, in units of 7200 minutes

listVars == <<data, underCollateralizedTroves, underCollateralizedTrovesSize,
              globalBoostFactor, boostMinuteDecayFactor, now>>

registryVars == <<underCollateralizedTroves, underCollateralizedTrovesSize>>
boostVars == <<globalBoostFactor, boostMinuteDecayFactor, now>>

Ids == Borrowers \cup {Null}

EmptyNode == [exists |-> FALSE, nextId |-> Null, prevId |-> Null,
              oldBoostedAICR |-> 0, boost |-> 0, since |-> 0]

EmptyData == [head |-> Null, tail |-> Null, size |-> 0,
              nodes |-> [id \in Ids |-> EmptyNode]]

contains(d, id) == d.nodes[id].exists

isFull(d) == d.size = MaxSize

-----------------------------------------------------------------------------
(* Where a node goes.                                                      *)

ValidInsertPosition(d, key, prev, next) ==
    CASE prev = Null /\ next = Null -> d.size = 0
      [] prev = Null /\ next # Null ->
            d.head = next /\ key >= d.nodes[next].oldBoostedAICR
      [] prev # Null /\ next = Null ->
            d.tail = prev /\ key <= d.nodes[prev].oldBoostedAICR
      [] OTHER ->
            /\ d.nodes[prev].nextId = next
            /\ d.nodes[prev].oldBoostedAICR >= key
            /\ key >= d.nodes[next].oldBoostedAICR

\* Walk towards smaller keys until the gap below a node fits, or the list ends.
LastAbove(d, key) ==
    LET below(p) == d.nodes[p].nextId
        stop[p \in Ids] ==
            IF p = Null \/ ValidInsertPosition(d, key, p, below(p))
            THEN p ELSE stop[below(p)]
    IN  stop

DescendList(d, key, start) ==
    LET prev == LastAbove(d, key)[start]
    IN  IF d.head = start /\ key >= d.nodes[start].oldBoostedAICR
        THEN <<Null, start>>
        ELSE <<prev, d.nodes[prev].nextId>>

\* Walk towards larger keys until the gap above a node fits, or the list ends.
FirstBelow(d, key) ==
    LET above(n) == d.nodes[n].prevId
        stop[n \in Ids] ==
            IF n = Null \/ ValidInsertPosition(d, key, above(n), n)
            THEN n ELSE stop[above(n)]
    IN  stop

AscendList(d, key, start) ==
    LET next == FirstBelow(d, key)[start]
    IN  IF d.tail = start /\ key <= d.nodes[start].oldBoostedAICR
        THEN <<start, Null>>
        ELSE <<d.nodes[next].prevId, next>>

\* Mutant: a hint is kept whenever it is listed, whatever its key.
FindInsertPositionTrusting(d, key, prevHint, nextHint) ==
    LET prev == IF contains(d, prevHint) THEN prevHint ELSE Null
        next == IF contains(d, nextHint) THEN nextHint ELSE Null
    IN  CASE prev = Null /\ next = Null -> DescendList(d, key, d.head)
          [] prev = Null /\ next # Null -> AscendList(d, key, next)
          [] OTHER                      -> DescendList(d, key, prev)

\* A hint is kept only if it names a listed node on the right side of the key.
FindInsertPosition(d, key, prevHint, nextHint) ==
    LET prev == IF contains(d, prevHint) /\ key <= d.nodes[prevHint].oldBoostedAICR
                THEN prevHint ELSE Null
        next == IF contains(d, nextHint) /\ key >= d.nodes[nextHint].oldBoostedAICR
                THEN nextHint ELSE Null
    IN  CASE prev = Null /\ next = Null -> DescendList(d, key, d.head)
          [] prev = Null /\ next # Null -> AscendList(d, key, next)
          [] OTHER                      -> DescendList(d, key, prev)

-----------------------------------------------------------------------------
(* _insert and _remove, from one Data record to the next.                  *)

CanInsert(d, id, AICR) ==
    /\ ~ isFull(d)
    /\ ~ contains(d, id)
    /\ id # Null
    /\ AICR # 0

\* The links around a new node, by the four cases of _insert.  The node at the
\* address itself starts from zero: it is not listed.
LinkNode(d, id, prev, next) ==
    CASE prev = Null /\ next = Null ->
            [d EXCEPT !.head = id, !.tail = id]
      [] prev = Null /\ next # Null ->
            [d EXCEPT !.head = id,
                      !.nodes[id].nextId = d.head,
                      !.nodes[d.head].prevId = id]
      [] prev # Null /\ next = Null ->
            [d EXCEPT !.tail = id,
                      !.nodes[id].prevId = d.tail,
                      !.nodes[d.tail].nextId = id]
      [] OTHER ->
            [d EXCEPT !.nodes[id].nextId = next,
                      !.nodes[id].prevId = prev,
                      !.nodes[prev].nextId = id,
                      !.nodes[next].prevId = id]

\* Mutant: the position is found for AICR + boost, but AICR alone is recorded.
InsertNodeUnboosted(d, id, AICR, prevHint, nextHint, boost) ==
    LET key == AICR + boost
        pos == IF ValidInsertPosition(d, key, prevHint, nextHint)
               THEN <<prevHint, nextHint>>
               ELSE FindInsertPosition(d, key, prevHint, nextHint)
    IN  [LinkNode(d, id, pos[1], pos[2]) EXCEPT
            !.nodes[id].exists = TRUE,
            !.nodes[id].oldBoostedAICR = AICR,
            !.nodes[id].boost = boost,
            !.nodes[id].since = now,
            !.size = @ + 1]

InsertNode(d, id, AICR, prevHint, nextHint, boost) ==
    LET key == AICR + boost
        pos == IF ValidInsertPosition(d, key, prevHint, nextHint)
               THEN <<prevHint, nextHint>>
               ELSE FindInsertPosition(d, key, prevHint, nextHint)
    IN  [LinkNode(d, id, pos[1], pos[2]) EXCEPT
            !.nodes[id].exists = TRUE,
            !.nodes[id].oldBoostedAICR = key,
            !.nodes[id].boost = boost,
            !.nodes[id].since = now,
            !.size = @ + 1]

\* Mutant: unlinking a middle node leaves its successor's prevId dangling.
UnlinkNodeOneWay(d, id) ==
    LET prev == d.nodes[id].prevId
        next == d.nodes[id].nextId
    IN  CASE d.size <= 1 -> [d EXCEPT !.head = Null, !.tail = Null]
          [] d.size > 1 /\ id = d.head ->
                [d EXCEPT !.head = next, !.nodes[next].prevId = Null]
          [] d.size > 1 /\ id # d.head /\ id = d.tail ->
                [d EXCEPT !.tail = prev, !.nodes[prev].nextId = Null]
          [] OTHER -> [d EXCEPT !.nodes[prev].nextId = next]

UnlinkNode(d, id) ==
    LET prev == d.nodes[id].prevId
        next == d.nodes[id].nextId
    IN  CASE d.size <= 1 -> [d EXCEPT !.head = Null, !.tail = Null]
          [] d.size > 1 /\ id = d.head ->
                [d EXCEPT !.head = next, !.nodes[next].prevId = Null]
          [] d.size > 1 /\ id # d.head /\ id = d.tail ->
                [d EXCEPT !.tail = prev, !.nodes[prev].nextId = Null]
          [] OTHER ->
                [d EXCEPT !.nodes[prev].nextId = next, !.nodes[next].prevId = prev]

RemoveNode(d, id) ==
    [UnlinkNode(d, id) EXCEPT !.nodes[id] = EmptyNode, !.size = @ - 1]

-----------------------------------------------------------------------------
(* Boosts.  The default boostMinuteDecayFactor halves a boost in 7200      *)
(* minutes, which is one tick of the clock: DecayBases has 2 for it, and 1 *)
(* for a factor of 100%.  _decPow is the power; it is taken over the whole *)
(* time since the last update, with the factor of the moment it is read.   *)

DecPow(base) ==
    LET power[n \in Nat] == IF n = 0 THEN 1 ELSE base * power[n - 1]
    IN  power

CalculateDecayedBoost(boost, since) ==
    boost \div DecPow(boostMinuteDecayFactor)[now - since]

NewBoost(fee) == fee * globalBoostFactor

\* The old boost weighs as much as the value that was in the trove, the new
\* one as much as the value added.
WeightedBoost(decayed, fee, weight) ==
    (decayed * weight[1] + NewBoost(fee) * weight[2]) \div (weight[1] + weight[2])

CanReInsert(d, id, newAICR) == contains(d, id) /\ newAICR # 0

\* Mutant: the clock restarts but the boost is not decayed first.
ReInsertUndecayed(d, id, newAICR, prevHint, nextHint) ==
    InsertNode(RemoveNode(d, id), id, newAICR, prevHint, nextHint, d.nodes[id].boost)

ReInsert(d, id, newAICR, prevHint, nextHint) ==
    LET node == d.nodes[id]
    IN  InsertNode(RemoveNode(d, id), id, newAICR, prevHint, nextHint,
               CalculateDecayedBoost(node.boost, node.since))

ReInsertWithNewBoost(d, id, newAICR, prevHint, nextHint, fee, weight) ==
    LET node == d.nodes[id]
    IN  InsertNode(RemoveNode(d, id), id, newAICR, prevHint, nextHint,
               WeightedBoost(CalculateDecayedBoost(node.boost, node.since),
                             fee, weight))

-----------------------------------------------------------------------------
(* The registry of under-collateralised troves.                            *)

UpdateUnderCollateralizedTrove(id, isUnderCollateralized) ==
    /\ contains(data, id)
    /\ IF isUnderCollateralized
       THEN /\ underCollateralizedTroves' = underCollateralizedTroves \cup {id}
            /\ underCollateralizedTrovesSize' =
                  IF id \in underCollateralizedTroves
                  THEN underCollateralizedTrovesSize
                  ELSE underCollateralizedTrovesSize + 1
       ELSE /\ underCollateralizedTroves' = underCollateralizedTroves \ {id}
            /\ underCollateralizedTrovesSize' =
                  IF id \in underCollateralizedTroves
                  THEN underCollateralizedTrovesSize - 1
                  ELSE underCollateralizedTrovesSize

ChangeGlobalBoostMultiplier(factor) ==
    /\ globalBoostFactor' = factor
    /\ UNCHANGED <<data, registryVars, boostMinuteDecayFactor, now>>

ChangeBoostMinuteDecayFactor(base) ==
    /\ boostMinuteDecayFactor' = base
    /\ UNCHANGED <<data, registryVars, globalBoostFactor, now>>

Tick ==
    /\ now < MaxTime
    /\ now' = now + 1
    /\ UNCHANGED <<data, registryVars, globalBoostFactor, boostMinuteDecayFactor>>

\* globalBoostFactor is 0 until governance sets it.
ListInit ==
    /\ data = EmptyData
    /\ underCollateralizedTroves = {}
    /\ underCollateralizedTrovesSize = 0
    /\ globalBoostFactor = 0
    /\ boostMinuteDecayFactor = 2
    /\ now = 0

=============================================================================
