------------------------ MODULE TroveRegistry_proofs ------------------------
(***************************************************************************)
(* For any set of borrowers, AICRs, fees, factors and hints: the doubly    *)
(* linked list of SortedTroves.sol, driven by its callers, stays linked,   *)
(* sorted and in agreement with the TroveOwners array, it implements the   *)
(* abstract sequence of TroveOrder, and no boost is ever revived.          *)
(*                                                                         *)
(* Linked(d, s) says that the record d is the list of the sequence s.      *)
(* Whatever the hints, the searches DescendList and AscendList end, and    *)
(* what they or ValidInsertPosition return is a gap of s that the key fits *)
(* into (FindsGap).  Linking a node there gives the list of s with the     *)
(* node inserted (InsertLinks), unlinking it the list of s without it      *)
(* (RemoveLinks), and a walk over a list is its sequence (WalkIs).  The    *)
(* inductive invariant RegInv adds the order of the keys, the array of     *)
(* owners, and bounds on the boosts.  RegNext shows at once, for every     *)
(* action, that it keeps RegInv, that it is a step of the abstract         *)
(* sequence or none, and that it revives no boost.                         *)
(***************************************************************************)
EXTENDS TroveRegistry, DataFacts

(* A list and the sequence of troves that it links. *)

\* What the list holds.
Node == [exists : BOOLEAN, nextId : Ids, prevId : Ids,
         oldBoostedAICR : Nat, boost : Nat, since : Nat]
Data == [head : Ids, tail : Ids, size : Nat, nodes : [Ids -> Node]]

\* The i-th of a list of troves, Null before the first and after the last.
At(s, i) == IF i \in 1..Len(s) THEN s[i] ELSE Null

\* The nodes are linked in the order of the sequence s.
Linked(d, s) ==
    /\ d \in Data /\ s \in Seq(Borrowers)
    /\ d.size = Len(s)
    /\ \A i, j \in 1..Len(s) : s[i] = s[j] => i = j
    /\ d.head = At(s, 1) /\ d.tail = At(s, Len(s))
    /\ \A i \in 1..Len(s) : /\ d.nodes[s[i]].exists
                            /\ d.nodes[s[i]].prevId = At(s, i - 1)
                            /\ d.nodes[s[i]].nextId = At(s, i + 1)
    /\ \A id \in Ids : (\A i \in 1..Len(s) : s[i] # id) => d.nodes[id] = EmptyNode

\* A key fits between the k-th trove and the next.
KeyFits(d, s, k, key) ==
    /\ k > 0      => d.nodes[s[k]].oldBoostedAICR >= key
    /\ k < Len(s) => key >= d.nodes[s[k + 1]].oldBoostedAICR

\* <<prev, next>> is a gap of the list that the key fits into.
IsGap(d, s, key, prev, next) ==
    \E k \in 0..Len(s) : prev = At(s, k) /\ next = At(s, k + 1) /\ KeyFits(d, s, k, key)

\* What a list is at its positions.
LEMMA Positions ==
    ASSUME NEW d, NEW s, Linked(d, s)
    PROVE  /\ Len(s) \in Nat
           /\ \A i \in 1..Len(s) : s[i] \in Borrowers /\ s[i] \in Ids /\ s[i] # Null /\ At(s, i) = s[i]
           /\ At(s, 0) = Null /\ At(s, Len(s) + 1) = Null
           /\ \A i \in 0..Len(s) + 1 : At(s, i) \in Ids
           /\ \A i \in 0..Len(s) + 1 : At(s, i) = Null <=> i \notin 1..Len(s)
<1>1. s \in Seq(Borrowers) /\ Len(s) \in Nat
  BY LenProperties DEF Linked
<1>2. \A i \in 1..Len(s) : s[i] \in Borrowers
  BY <1>1, ElementOfSeq
<1>3. Null \notin Borrowers
  BY SortedTrovesAssumption
<1>4. \A i \in 1..Len(s) : s[i] \in Ids /\ s[i] # Null /\ At(s, i) = s[i]
  BY <1>2, <1>3 DEF At, Ids
<1>5. \A i \in 0..Len(s) + 1 : i \notin 1..Len(s) => At(s, i) = Null
  BY DEF At
<1>6. 0 \notin 1..Len(s) /\ Len(s) + 1 \notin 1..Len(s) /\ 0 \in 0..Len(s) + 1 /\ Len(s) + 1 \in 0..Len(s) + 1
  BY <1>1
<1>7. Null \in Ids
  BY DEF Ids
<1>8. \A i \in 0..Len(s) + 1 : At(s, i) \in Ids /\ (At(s, i) = Null <=> i \notin 1..Len(s))
  BY <1>4, <1>5, <1>7
<1> QED
  BY <1>1, <1>2, <1>4, <1>5, <1>6, <1>8

\* A listed address is at some position; any other is the empty node.
LEMMA ListedAt ==
    ASSUME NEW d, NEW s, Linked(d, s), NEW id \in Ids
    PROVE  /\ contains(d, id) => \E i \in 1..Len(s) : s[i] = id
           /\ ~ contains(d, id) => d.nodes[id] = EmptyNode
           /\ id # Null /\ d.head = id => contains(d, id)
           /\ id # Null /\ d.tail = id => contains(d, id)
           /\ contains(d, id) => id # Null
<1>1. contains(d, id) => \E i \in 1..Len(s) : s[i] = id
  <2>1. ~ EmptyNode.exists
    BY DEF EmptyNode
  <2> QED
    BY <2>1 DEF Linked, contains
<1>2. \A i \in 1..Len(s) : contains(d, s[i])
  BY DEF Linked, contains
<1>3. ~ contains(d, id) => d.nodes[id] = EmptyNode
  BY <1>2 DEF Linked
<1>4. contains(d, id) => id # Null
  BY <1>1, Positions
<1>5. d.head = At(s, 1) /\ d.tail = At(s, Len(s))
  BY DEF Linked
<1>6. id # Null /\ d.head = id => contains(d, id)
  BY <1>2, <1>5 DEF At
<1>7. id # Null /\ d.tail = id => contains(d, id)
  BY <1>2, <1>5 DEF At
<1> QED
  BY <1>1, <1>3, <1>4, <1>6, <1>7

\* What _validInsertPosition accepts is a gap that the key fits into.
LEMMA ValidIsGap ==
    ASSUME NEW d, NEW s, Linked(d, s), NEW key \in Nat, NEW prev \in Ids, NEW next \in Ids,
           ValidInsertPosition(d, key, prev, next)
    PROVE  IsGap(d, s, key, prev, next)
<1>1. /\ Len(s) \in Nat
      /\ \A i \in 1..Len(s) : s[i] # Null /\ At(s, i) = s[i]
      /\ At(s, 0) = Null /\ At(s, Len(s) + 1) = Null
      /\ \A i \in 0..Len(s) + 1 : At(s, i) = Null <=> i \notin 1..Len(s)
  BY Positions
<1>2. /\ d.size = Len(s) /\ d.head = At(s, 1) /\ d.tail = At(s, Len(s))
      /\ \A i \in 1..Len(s) : d.nodes[s[i]].nextId = At(s, i + 1)
  BY DEF Linked
<1>3. CASE prev = Null /\ next = Null
  <2>1. Len(s) = 0
    BY <1>2, <1>3 DEF ValidInsertPosition
  <2>2. prev = At(s, 0) /\ next = At(s, 0 + 1) /\ KeyFits(d, s, 0, key) /\ 0 \in 0..Len(s)
    BY <1>1, <1>3, <2>1 DEF KeyFits
  <2> QED
    BY <2>2 DEF IsGap
<1>4. CASE prev = Null /\ next # Null
  <2>1. d.head = next /\ key >= d.nodes[next].oldBoostedAICR
    BY <1>4 DEF ValidInsertPosition
  <2>2. 1 \in 1..Len(s) /\ next = s[1]
    BY <1>2, <1>4, <2>1 DEF At
  <2>3. prev = At(s, 0) /\ next = At(s, 0 + 1) /\ KeyFits(d, s, 0, key) /\ 0 \in 0..Len(s)
    BY <1>1, <1>4, <2>1, <2>2 DEF KeyFits
  <2> QED
    BY <2>3 DEF IsGap
<1>5. CASE prev # Null /\ next = Null
  <2>1. d.tail = prev /\ key <= d.nodes[prev].oldBoostedAICR
    BY <1>5 DEF ValidInsertPosition
  <2>2. Len(s) \in 1..Len(s) /\ prev = s[Len(s)]
    BY <1>2, <1>5, <2>1 DEF At
  <2>3. d.nodes[s[Len(s)]].oldBoostedAICR >= key
    BY <2>1, <2>2
  <2>4. /\ prev = At(s, Len(s)) /\ next = At(s, Len(s) + 1)
        /\ KeyFits(d, s, Len(s), key) /\ Len(s) \in 0..Len(s)
    BY <1>1, <1>5, <2>2, <2>3 DEF KeyFits
  <2> QED
    BY <2>4 DEF IsGap
<1>6. CASE prev # Null /\ next # Null
  <2>1. /\ d.nodes[prev].nextId = next
        /\ d.nodes[prev].oldBoostedAICR >= key /\ key >= d.nodes[next].oldBoostedAICR
    BY <1>6 DEF ValidInsertPosition
  <2>2. PICK i \in 1..Len(s) : s[i] = prev
    <3>1. d.nodes[prev] # EmptyNode
      BY <1>6, <2>1 DEF EmptyNode
    <3> QED
      BY <3>1 DEF Linked
  <2>3. next = At(s, i + 1) /\ i + 1 \in 1..Len(s) /\ i \in 0..Len(s)
    <3>1. next = At(s, i + 1)
      BY <1>2, <2>1, <2>2
    <3>2. i + 1 \in 0..Len(s) + 1
      BY <1>1
    <3> QED
      BY <1>1, <1>6, <3>1, <3>2
  <2>4. next = s[i + 1] /\ prev = At(s, i)
    BY <1>1, <2>2, <2>3
  <2>5. KeyFits(d, s, i, key)
    BY <2>1, <2>2, <2>4 DEF KeyFits
  <2> QED
    BY <2>3, <2>4, <2>5 DEF IsGap
<1> QED
  BY <1>3, <1>4, <1>5, <1>6

\* The walk downwards is a function that follows nextId.
LEMMA LastAboveFollows ==
    ASSUME NEW d \in Data, NEW key \in Nat,
           NEW Stop, Stop = {p \in Ids : p = Null \/ ValidInsertPosition(d, key, p, d.nodes[p].nextId)},
           NEW g, g = [p \in Ids |-> d.nodes[p].nextId]
    PROVE  Follows(Ids, Stop, g, LastAbove(d, key))
<1>1. PICK f : Follows(Ids, Stop, g, f)
  <2>1. Stop \subseteq Ids /\ \A p \in Ids \ Stop : g[p] \in Ids
    BY DEF Data, Node
  <2> QED
    BY <2>1, FollowsExists
<1> DEFINE E(h) == [p \in Ids |-> IF p = Null \/ ValidInsertPosition(d, key, p, d.nodes[p].nextId)
                                  THEN p ELSE h[d.nodes[p].nextId]]
           F(h) == [p \in Ids |-> IF p \in Stop THEN p ELSE h[g[p]]]
<1>2. \A h : E(h) = F(h)
  OBVIOUS
<1>3. LastAbove(d, key) = CHOOSE h : h = E(h)
  BY DEF LastAbove
<1>4. f = E(f)
  BY <1>1, <1>2 DEF Follows
<1> HIDE DEF E, F
<1>5. LastAbove(d, key) = E(LastAbove(d, key))
  BY <1>3, <1>4
<1> QED
  BY <1>2, <1>5 DEF Follows, F

\* And the walk upwards one that follows prevId.
LEMMA FirstBelowFollows ==
    ASSUME NEW d \in Data, NEW key \in Nat,
           NEW Stop, Stop = {n \in Ids : n = Null \/ ValidInsertPosition(d, key, d.nodes[n].prevId, n)},
           NEW g, g = [n \in Ids |-> d.nodes[n].prevId]
    PROVE  Follows(Ids, Stop, g, FirstBelow(d, key))
<1>1. PICK f : Follows(Ids, Stop, g, f)
  <2>1. Stop \subseteq Ids /\ \A p \in Ids \ Stop : g[p] \in Ids
    BY DEF Data, Node
  <2> QED
    BY <2>1, FollowsExists
<1> DEFINE E(h) == [n \in Ids |-> IF n = Null \/ ValidInsertPosition(d, key, d.nodes[n].prevId, n)
                                  THEN n ELSE h[d.nodes[n].prevId]]
           F(h) == [p \in Ids |-> IF p \in Stop THEN p ELSE h[g[p]]]
<1>2. \A h : E(h) = F(h)
  OBVIOUS
<1>3. FirstBelow(d, key) = CHOOSE h : h = E(h)
  BY DEF FirstBelow
<1>4. f = E(f)
  BY <1>1, <1>2 DEF Follows
<1> HIDE DEF E, F
<1>5. FirstBelow(d, key) = E(FirstBelow(d, key))
  BY <1>3, <1>4
<1> QED
  BY <1>2, <1>5 DEF Follows, F

-----------------------------------------------------------------------------
(* The search for a gap ends, and ends at a gap that the key fits into. *)

\* The position of a listed trove.
Pos(s, p) == CHOOSE j \in 1..Len(s) : s[j] = p

\* It is the position at which the address stands.
LEMMA PosIs ==
    ASSUME NEW d, NEW s, Linked(d, s), NEW j \in 1..Len(s)
    PROVE  Pos(s, s[j]) = j
<1>1. \A i \in 1..Len(s) : s[i] = s[j] => i = j
  BY DEF Linked
<1> QED
  BY <1>1 DEF Pos

\* A walk downwards from a trove that is not below the key ends above a gap.
LEMMA DescendEnds ==
    ASSUME NEW d, NEW s, Linked(d, s), NEW key \in Nat,
           NEW q \in Ids, contains(d, q), key <= d.nodes[q].oldBoostedAICR
    PROVE  LET p == LastAbove(d, key)[q]
           IN  p \in Ids /\ ValidInsertPosition(d, key, p, d.nodes[p].nextId)
<1> DEFINE Stop == {p \in Ids : p = Null \/ ValidInsertPosition(d, key, p, d.nodes[p].nextId)}
           g == [p \in Ids |-> d.nodes[p].nextId]
           n == Len(s)
           T == {p \in Ids : contains(d, p) /\ key <= d.nodes[p].oldBoostedAICR}
           rank == [p \in T |-> n - Pos(s, p)]
<1>1. d \in Data
  BY DEF Linked
<1>2. Follows(Ids, Stop, g, LastAbove(d, key))
  BY <1>1, LastAboveFollows
<1>3. /\ n \in Nat
      /\ \A i \in 1..n : s[i] \in Ids /\ s[i] # Null /\ At(s, i) = s[i]
      /\ At(s, 0) = Null /\ At(s, n + 1) = Null
  BY Positions
<1>4. ASSUME NEW p \in T
      PROVE  \E i \in 1..n : s[i] = p /\ Pos(s, p) = i /\ rank[p] = n - i
  <2>1. PICK i \in 1..n : s[i] = p
    BY ListedAt
  <2>2. Pos(s, p) = i
    BY <2>1, PosIs
  <2> QED
    BY <2>1, <2>2
<1>5. \A p \in T : rank[p] \in Nat
  <2> TAKE p \in T
  <2>1. PICK i \in 1..n : rank[p] = n - i
    BY <1>4
  <2> QED
    BY <1>3, <2>1
<1>6. ASSUME NEW p \in T \ Stop
      PROVE  g[p] \in T /\ rank[g[p]] < rank[p]
  <2>1. PICK i \in 1..n : s[i] = p /\ rank[p] = n - i
    BY <1>4
  <2>2. /\ p # Null /\ g[p] = At(s, i + 1) /\ d.nodes[p].nextId = g[p]
        /\ d.tail = At(s, n) /\ key <= d.nodes[p].oldBoostedAICR
        /\ ~ ValidInsertPosition(d, key, p, g[p])
    BY <1>3, <2>1 DEF Linked
  <2>3. i # n
    <3> SUFFICES ASSUME i = n PROVE FALSE
      OBVIOUS
    <3>1. g[p] = Null /\ d.tail = p
      BY <1>3, <2>1, <2>2
    <3> QED
      BY <2>2, <3>1 DEF ValidInsertPosition
  <2>4. i + 1 \in 1..n /\ g[p] = s[i + 1]
    BY <1>3, <2>1, <2>2, <2>3
  <2>5. g[p] # Null /\ g[p] \in Ids /\ contains(d, g[p])
    BY <1>3, <2>4 DEF Linked, contains
  <2>6. d.nodes[p].oldBoostedAICR \in Nat /\ d.nodes[g[p]].oldBoostedAICR \in Nat
    BY <1>1, <2>5 DEF Data, Node
  <2>7. key <= d.nodes[g[p]].oldBoostedAICR
    <3>1. ~ (key >= d.nodes[g[p]].oldBoostedAICR)
      <4> HIDE DEF g
      <4> QED
        BY <2>2, <2>5, <2>6 DEF ValidInsertPosition
    <3> QED
      BY <2>6, <3>1
  <2>8. g[p] \in T
    BY <2>5, <2>7
  <2>9. rank[g[p]] = n - (i + 1)
    <3>1. Pos(s, s[i + 1]) = i + 1
      BY <2>4, PosIs
    <3> QED
      BY <2>4, <2>8, <3>1
  <2> QED
    BY <1>3, <2>1, <2>8, <2>9
<1>7. q \in T /\ T \subseteq Ids
  OBVIOUS
<1>10. \A p \in T \ Stop : g[p] \in T /\ rank[g[p]] < rank[p]
  BY <1>6
<1> HIDE DEF Stop, g, T, rank, n
<1>11. PICK f : f = LastAbove(d, key)
  OBVIOUS
<1>12. f[q] \in T \cap Stop
  <2>1. Follows(Ids, Stop, g, f)
    BY <1>2, <1>11
  <2> QED
    BY <2>1, <1>5, <1>7, <1>10, FollowsEnds
<1>8. LastAbove(d, key)[q] \in T \cap Stop
  BY <1>11, <1>12
<1>9. Null \notin T
  BY ListedAt DEF T
<1> QED
  BY <1>8, <1>9 DEF Stop

\* A walk upwards from a trove that is not above the key ends below a gap.
LEMMA AscendEnds ==
    ASSUME NEW d, NEW s, Linked(d, s), NEW key \in Nat,
           NEW q \in Ids, contains(d, q), key >= d.nodes[q].oldBoostedAICR
    PROVE  LET p == FirstBelow(d, key)[q]
           IN  p \in Ids /\ ValidInsertPosition(d, key, d.nodes[p].prevId, p)
<1> DEFINE Stop == {p \in Ids : p = Null \/ ValidInsertPosition(d, key, d.nodes[p].prevId, p)}
           g == [p \in Ids |-> d.nodes[p].prevId]
           n == Len(s)
           T == {p \in Ids : contains(d, p) /\ key >= d.nodes[p].oldBoostedAICR}
           rank == [p \in T |-> Pos(s, p)]
<1>1. d \in Data
  BY DEF Linked
<1>2. Follows(Ids, Stop, g, FirstBelow(d, key))
  BY <1>1, FirstBelowFollows
<1>3. /\ n \in Nat
      /\ \A i \in 1..n : s[i] \in Ids /\ s[i] # Null /\ At(s, i) = s[i]
      /\ At(s, 0) = Null /\ At(s, n + 1) = Null
  BY Positions
<1>4. ASSUME NEW p \in T
      PROVE  \E i \in 1..n : s[i] = p /\ Pos(s, p) = i /\ rank[p] = i
  <2>1. PICK i \in 1..n : s[i] = p
    BY ListedAt
  <2>2. Pos(s, p) = i
    BY <2>1, PosIs
  <2> QED
    BY <2>1, <2>2
<1>5. \A p \in T : rank[p] \in Nat
  <2> TAKE p \in T
  <2>1. PICK i \in 1..n : rank[p] = i
    BY <1>4
  <2> QED
    BY <1>3, <2>1
<1>6. ASSUME NEW p \in T \ Stop
      PROVE  g[p] \in T /\ rank[g[p]] < rank[p]
  <2>1. PICK i \in 1..n : s[i] = p /\ rank[p] = i
    BY <1>4
  <2>2. /\ p # Null /\ g[p] = At(s, i - 1) /\ d.nodes[p].prevId = g[p]
        /\ d.head = At(s, 1) /\ key >= d.nodes[p].oldBoostedAICR
        /\ ~ ValidInsertPosition(d, key, g[p], p)
    BY <1>3, <2>1 DEF Linked
  <2>3. i # 1
    <3> SUFFICES ASSUME i = 1 PROVE FALSE
      OBVIOUS
    <3>1. g[p] = Null /\ d.head = p
      BY <1>3, <2>1, <2>2
    <3> QED
      BY <2>2, <3>1 DEF ValidInsertPosition
  <2>4. i - 1 \in 1..n /\ g[p] = s[i - 1] /\ i - 1 + 1 = i
    BY <1>3, <2>1, <2>2, <2>3
  <2>5. /\ g[p] # Null /\ g[p] \in Ids /\ contains(d, g[p])
        /\ d.nodes[g[p]].nextId = p
    <3>1. g[p] # Null /\ g[p] \in Ids
      BY <1>3, <2>4
    <3>2. d.nodes[s[i - 1]].exists /\ d.nodes[s[i - 1]].nextId = At(s, i)
      BY <1>3, <2>4 DEF Linked
    <3> QED
      BY <1>3, <2>1, <2>4, <3>1, <3>2 DEF contains
  <2>6. d.nodes[p].oldBoostedAICR \in Nat /\ d.nodes[g[p]].oldBoostedAICR \in Nat
    BY <1>1, <2>5 DEF Data, Node
  <2>7. key >= d.nodes[g[p]].oldBoostedAICR
    <3>1. ~ (d.nodes[g[p]].oldBoostedAICR >= key)
      <4> HIDE DEF g
      <4> QED
        BY <2>2, <2>5, <2>6 DEF ValidInsertPosition
    <3> QED
      BY <2>6, <3>1
  <2>8. g[p] \in T
    BY <2>5, <2>7
  <2>9. rank[g[p]] = i - 1
    <3>1. Pos(s, s[i - 1]) = i - 1
      BY <2>4, PosIs
    <3> QED
      BY <2>4, <2>8, <3>1
  <2> QED
    BY <1>3, <2>1, <2>8, <2>9
<1>7. q \in T /\ T \subseteq Ids
  OBVIOUS
<1> HIDE DEF Stop, g, T, rank, n
<1>8. FirstBelow(d, key)[q] \in T \cap Stop
  BY <1>2, <1>5, <1>6, <1>7, FollowsEnds
<1>9. Null \notin T
  BY ListedAt DEF T
<1> QED
  BY <1>8, <1>9 DEF Stop

\* Where a search downwards from the head, or from a trove that is not below
\* the key, puts a key, it fits.
LEMMA DescendFinds ==
    ASSUME NEW d, NEW s, Linked(d, s), NEW key \in Nat, NEW start \in Ids,
           \/ start = d.head
           \/ contains(d, start) /\ key <= d.nodes[start].oldBoostedAICR
    PROVE  \E prev, next \in Ids : /\ DescendList(d, key, start) = <<prev, next>>
                                   /\ IsGap(d, s, key, prev, next)
<1>1. d \in Data /\ d.head = At(s, 1) /\ d.size = Len(s)
  BY DEF Linked
<1>2. /\ Len(s) \in Nat
      /\ \A i \in 1..Len(s) : s[i] \in Ids /\ s[i] # Null /\ At(s, i) = s[i]
      /\ At(s, 0) = Null /\ At(s, Len(s) + 1) = Null
  BY Positions
<1>3. Null \in Ids
  BY DEF Ids
<1>4. CASE d.head = start /\ key >= d.nodes[start].oldBoostedAICR
  <2>1. DescendList(d, key, start) = <<Null, start>>
    BY <1>4 DEF DescendList
  <2>2. 0 \in 0..Len(s) /\ Null = At(s, 0) /\ start = At(s, 0 + 1)
    BY <1>1, <1>2, <1>4
  <2>3. KeyFits(d, s, 0, key)
    BY <1>2, <1>4, <2>2 DEF KeyFits
  <2>4. IsGap(d, s, key, Null, start)
    BY <2>2, <2>3 DEF IsGap
  <2> QED
    BY <1>3, <2>1, <2>4
<1>5. CASE ~ (d.head = start /\ key >= d.nodes[start].oldBoostedAICR)
  <2>0. d.nodes[start].oldBoostedAICR \in Nat
    BY <1>1 DEF Data, Node
  <2>1. contains(d, start) /\ key <= d.nodes[start].oldBoostedAICR
    <3>1. CASE start = d.head
      <4>1. ~ (key >= d.nodes[start].oldBoostedAICR)
        BY <1>5, <3>1
      <4>2. d.nodes[start] # EmptyNode
        BY <2>0, <4>1 DEF EmptyNode
      <4>3. contains(d, start)
        BY <4>2, ListedAt
      <4> QED
        BY <2>0, <4>1, <4>3
    <3> QED
      BY <3>1
  <2>2. PICK p : p = LastAbove(d, key)[start]
    OBVIOUS
  <2>3. PICK m : m = d.nodes[p].nextId
    OBVIOUS
  <2>4. p \in Ids /\ ValidInsertPosition(d, key, p, m)
    BY <2>1, <2>2, <2>3, DescendEnds
  <2>5. m \in Ids
    BY <1>1, <2>3, <2>4 DEF Data, Node
  <2>6. IsGap(d, s, key, p, m)
    BY <2>4, <2>5, ValidIsGap
  <2>7. DescendList(d, key, start) = <<p, m>>
    BY <1>5, <2>2, <2>3 DEF DescendList
  <2> QED
    BY <2>4, <2>5, <2>6, <2>7
<1> QED
  BY <1>4, <1>5

\* And where a search upwards from a trove that is not above the key puts it.
LEMMA AscendFinds ==
    ASSUME NEW d, NEW s, Linked(d, s), NEW key \in Nat, NEW start \in Ids,
           contains(d, start), key >= d.nodes[start].oldBoostedAICR
    PROVE  \E prev, next \in Ids : /\ AscendList(d, key, start) = <<prev, next>>
                                   /\ IsGap(d, s, key, prev, next)
<1>1. d \in Data /\ d.tail = At(s, Len(s)) /\ d.size = Len(s)
  BY DEF Linked
<1>2. /\ Len(s) \in Nat
      /\ \A i \in 1..Len(s) : s[i] \in Ids /\ s[i] # Null /\ At(s, i) = s[i]
      /\ At(s, 0) = Null /\ At(s, Len(s) + 1) = Null
  BY Positions
<1>3. Null \in Ids
  BY DEF Ids
<1>4. CASE d.tail = start /\ key <= d.nodes[start].oldBoostedAICR
  <2>1. AscendList(d, key, start) = <<start, Null>>
    BY <1>4 DEF AscendList
  <2>2. Len(s) \in 0..Len(s) /\ Null = At(s, Len(s) + 1) /\ start = At(s, Len(s))
    BY <1>1, <1>2, <1>4
  <2>3. start # Null
    BY ListedAt
  <2>4. Len(s) \in 1..Len(s) /\ s[Len(s)] = start
    BY <2>2, <2>3 DEF At
  <2>5. d.nodes[start].oldBoostedAICR \in Nat
    BY <1>1 DEF Data, Node
  <2>6. KeyFits(d, s, Len(s), key)
    BY <1>2, <1>4, <2>4, <2>5 DEF KeyFits
  <2>7. IsGap(d, s, key, start, Null)
    BY <2>2, <2>6 DEF IsGap
  <2> QED
    BY <1>3, <2>1, <2>7
<1>5. CASE ~ (d.tail = start /\ key <= d.nodes[start].oldBoostedAICR)
  <2>2. PICK p : p = FirstBelow(d, key)[start]
    OBVIOUS
  <2>3. PICK m : m = d.nodes[p].prevId
    OBVIOUS
  <2>4. p \in Ids /\ ValidInsertPosition(d, key, m, p)
    BY <2>2, <2>3, AscendEnds
  <2>5. m \in Ids
    BY <1>1, <2>3, <2>4 DEF Data, Node
  <2>6. IsGap(d, s, key, m, p)
    BY <2>4, <2>5, ValidIsGap
  <2>7. AscendList(d, key, start) = <<m, p>>
    BY <1>5, <2>2, <2>3 DEF AscendList
  <2> QED
    BY <2>4, <2>5, <2>6, <2>7
<1> QED
  BY <1>4, <1>5

\* Whatever the hints, the position found is a gap the key fits into.
LEMMA FindsGap ==
    ASSUME NEW d, NEW s, Linked(d, s), NEW key \in Nat,
           NEW prevHint \in Ids, NEW nextHint \in Ids
    PROVE  \E prev, next \in Ids :
              /\ FindInsertPosition(d, key, prevHint, nextHint) = <<prev, next>>
              /\ IsGap(d, s, key, prev, next)
<1>1. d.head \in Ids /\ Null \in Ids
  BY DEF Linked, Data, Ids
<1>2. PICK prev : prev = IF contains(d, prevHint) /\ key <= d.nodes[prevHint].oldBoostedAICR
                         THEN prevHint ELSE Null
  OBVIOUS
<1>3. PICK next : next = IF contains(d, nextHint) /\ key >= d.nodes[nextHint].oldBoostedAICR
                         THEN nextHint ELSE Null
  OBVIOUS
<1>4. FindInsertPosition(d, key, prevHint, nextHint) =
          CASE prev = Null /\ next = Null -> DescendList(d, key, d.head)
            [] prev = Null /\ next # Null -> AscendList(d, key, next)
            [] OTHER                      -> DescendList(d, key, prev)
  BY <1>2, <1>3 DEF FindInsertPosition
<1>5. prev # Null => /\ prev \in Ids /\ contains(d, prev)
                     /\ key <= d.nodes[prev].oldBoostedAICR
  BY <1>2
<1>6. next # Null => /\ next \in Ids /\ contains(d, next)
                     /\ key >= d.nodes[next].oldBoostedAICR
  BY <1>3
<1>7. CASE prev = Null /\ next = Null
  <2>1. FindInsertPosition(d, key, prevHint, nextHint) = DescendList(d, key, d.head)
    BY <1>4, <1>7
  <2> QED
    BY <1>1, <2>1, DescendFinds
<1>8. CASE prev = Null /\ next # Null
  <2>1. FindInsertPosition(d, key, prevHint, nextHint) = AscendList(d, key, next)
    BY <1>4, <1>8
  <2> QED
    BY <1>6, <1>8, <2>1, AscendFinds
<1>9. CASE prev # Null
  <2>1. FindInsertPosition(d, key, prevHint, nextHint) = DescendList(d, key, prev)
    BY <1>4, <1>9
  <2> QED
    BY <1>5, <1>9, <2>1, DescendFinds
<1> QED
  BY <1>7, <1>8, <1>9

-----------------------------------------------------------------------------
(* Linking a node. *)

\* A node x when what is below prev becomes below and what is above next, above.
Neighbour(node, x, prev, next, below, above) ==
    [node EXCEPT !.nextId = IF x = prev THEN below ELSE @,
                 !.prevId = IF x = next THEN above ELSE @]

\* The links of a list e that has a new node id between prev and next in d.
LinksNode(d, e, id, prev, next) ==
    /\ e \in Data /\ e.size = d.size
    /\ e.head = IF prev = Null THEN id ELSE d.head
    /\ e.tail = IF next = Null THEN id ELSE d.tail
    /\ e.nodes[id].nextId = next /\ e.nodes[id].prevId = prev
    /\ e.nodes[Null] = d.nodes[Null]
    /\ \A x \in Ids \ {id, Null} : e.nodes[x] = Neighbour(d.nodes[x], x, prev, next, id, id)

\* What _insert writes into the links, in all of its four cases.
LEMMA LinkEffect ==
    ASSUME NEW d \in Data, NEW id \in Borrowers, d.nodes[id] = EmptyNode,
           NEW prev \in Ids \ {id}, NEW next \in Ids \ {id},
           prev = next => prev = Null,
           prev = Null /\ next # Null => d.head = next,
           next = Null /\ prev # Null => d.tail = prev,
           NEW L, L = LinkNode(d, id, prev, next)
    PROVE  LinksNode(d, L, id, prev, next)
<1> USE DEF LinksNode
<1>1. id \in Ids /\ Null \in Ids /\ id # Null
  BY SortedTrovesAssumption DEF Ids
<1>2. PICK N : N = d.nodes
  OBVIOUS
<1>3. N \in [Ids -> Node] /\ d.head \in Ids /\ d.tail \in Ids /\ d.size \in Nat
  BY <1>2 DEF Data
<1>4. \A x \in Ids : /\ N[x] \in Node
                     /\ N[x] = [exists |-> N[x].exists, nextId |-> N[x].nextId, prevId |-> N[x].prevId,
                          oldBoostedAICR |-> N[x].oldBoostedAICR, boost |-> N[x].boost, since |-> N[x].since]
  BY <1>3 DEF Node
<1>5. EmptyNode \in Node
  BY <1>1 DEF EmptyNode, Node
<1>6. \A x \in Ids : x # prev /\ x # next => Neighbour(N[x], x, prev, next, id, id) = N[x]
  BY <1>4 DEF Neighbour
<1>13. ASSUME NEW node, node = [EmptyNode EXCEPT !.nextId = next, !.prevId = prev]
       PROVE  node.nextId = next /\ node.prevId = prev
  <2>1. PICK e \in Node : e = EmptyNode
    BY <1>5
  <2>2. node = [e EXCEPT !.nextId = next, !.prevId = prev]
    BY <1>13, <2>1
  <2> QED
    BY <2>2 DEF Node
<1>7. CASE prev = Null /\ next = Null
  <2>1. L = [d EXCEPT !.head = id, !.tail = id]
    BY <1>7 DEF LinkNode
  <2>2. /\ L \in Data /\ L.size = d.size /\ L.head = id /\ L.tail = id
        /\ L.nodes = N
    BY <1>1, <1>2, <2>1 DEF Data
  <2>3. [EmptyNode EXCEPT !.nextId = next, !.prevId = prev] = EmptyNode
    <3>1. [EmptyNode EXCEPT !.nextId = Null, !.prevId = Null] = EmptyNode
      <4>1. PICK node \in Node : node = EmptyNode
        BY <1>5
      <4>2. node.nextId = Null /\ node.prevId = Null
        BY <4>1 DEF EmptyNode
      <4>3. [node EXCEPT !.nextId = Null, !.prevId = Null] = node
        BY <4>2 DEF Node
      <4> QED
        BY <4>1, <4>3
    <3> QED
      BY <1>7, <3>1
  <2>20. L.nodes[id].nextId = next /\ L.nodes[id].prevId = prev
    BY <1>1, <1>2, <1>13, <2>2, <2>3
  <2> QED
    BY <1>1, <1>2, <1>6, <1>7, <2>2, <2>3, <2>20
<1>8. CASE prev = Null /\ next # Null
  <2>1. L = [d EXCEPT !.head = id, !.nodes[id].nextId = next, !.nodes[next].prevId = id]
    BY <1>8 DEF LinkNode
  <2>2. PICK M : M = [[N EXCEPT ![id] = [N[id] EXCEPT !.nextId = next]]
                         EXCEPT ![next] = [N[next] EXCEPT !.prevId = id]]
    OBVIOUS
  <2>3. L.nodes = M
    BY <1>1, <1>2, <1>3, <2>1, <2>2 DEF Data
  <2>4. M \in [Ids -> Node]
    <3>1. [N[id] EXCEPT !.nextId = next] \in Node /\ [N[next] EXCEPT !.prevId = id] \in Node
      BY <1>1, <1>3 DEF Node
    <3> QED
      BY <1>3, <2>2, <3>1
  <2>5. L \in Data /\ L.size = d.size /\ L.head = id /\ L.tail = d.tail
    BY <1>1, <1>2, <2>1, <2>3, <2>4 DEF Data
  <2>6. M[id] = [EmptyNode EXCEPT !.nextId = next, !.prevId = prev]
    <3>1. M[id] = [EmptyNode EXCEPT !.nextId = next]
      BY <1>1, <1>2, <1>3, <2>2
    <3> QED
      BY <1>8, <3>1 DEF EmptyNode
  <2>7. M[next] = Neighbour(N[next], next, prev, next, id, id)
    <3>1. M[next] = [N[next] EXCEPT !.prevId = id]
      BY <1>1, <1>3, <2>2
    <3> QED
      BY <1>4, <1>8, <3>1 DEF Neighbour
  <2>8. \A x \in Ids : x # id /\ x # next => M[x] = N[x]
    BY <1>3, <2>2
  <2>20. L.nodes[id].nextId = next /\ L.nodes[id].prevId = prev
    BY <1>13, <2>3, <2>6
  <2> QED
    BY <1>1, <1>2, <1>6, <1>8, <2>3, <2>5, <2>6, <2>7, <2>8, <2>20
<1>9. CASE prev # Null /\ next = Null
  <2>1. L = [d EXCEPT !.tail = id, !.nodes[id].prevId = prev, !.nodes[prev].nextId = id]
    BY <1>9 DEF LinkNode
  <2>2. PICK M : M = [[N EXCEPT ![id] = [N[id] EXCEPT !.prevId = prev]]
                         EXCEPT ![prev] = [N[prev] EXCEPT !.nextId = id]]
    OBVIOUS
  <2>3. L.nodes = M
    BY <1>1, <1>2, <1>3, <2>1, <2>2 DEF Data
  <2>4. M \in [Ids -> Node]
    <3>1. [N[id] EXCEPT !.prevId = prev] \in Node /\ [N[prev] EXCEPT !.nextId = id] \in Node
      BY <1>1, <1>3 DEF Node
    <3> QED
      BY <1>3, <2>2, <3>1
  <2>5. L \in Data /\ L.size = d.size /\ L.head = d.head /\ L.tail = id
    BY <1>1, <1>2, <2>1, <2>3, <2>4 DEF Data
  <2>6. M[id] = [EmptyNode EXCEPT !.nextId = next, !.prevId = prev]
    <3>1. M[id] = [EmptyNode EXCEPT !.prevId = prev]
      BY <1>1, <1>2, <1>3, <2>2
    <3> QED
      BY <1>9, <3>1 DEF EmptyNode
  <2>7. M[prev] = Neighbour(N[prev], prev, prev, next, id, id)
    <3>1. M[prev] = [N[prev] EXCEPT !.nextId = id]
      BY <1>1, <1>3, <2>2
    <3> QED
      BY <1>4, <1>9, <3>1 DEF Neighbour
  <2>8. \A x \in Ids : x # id /\ x # prev => M[x] = N[x]
    BY <1>3, <2>2
  <2>20. L.nodes[id].nextId = next /\ L.nodes[id].prevId = prev
    BY <1>13, <2>3, <2>6
  <2> QED
    BY <1>1, <1>2, <1>6, <1>9, <2>3, <2>5, <2>6, <2>7, <2>8, <2>20
<1>10. CASE prev # Null /\ next # Null
  <2>1. L = [d EXCEPT !.nodes[id].nextId = next, !.nodes[id].prevId = prev,
                      !.nodes[prev].nextId = id, !.nodes[next].prevId = id]
    BY <1>10 DEF LinkNode
  <2>2. PICK K : K = [N EXCEPT ![id] = [N[id] EXCEPT !.nextId = next, !.prevId = prev]]
    OBVIOUS
  <2>3. PICK M : M = [[K EXCEPT ![prev] = [N[prev] EXCEPT !.nextId = id]]
                         EXCEPT ![next] = [N[next] EXCEPT !.prevId = id]]
    OBVIOUS
  <2>4. K \in [Ids -> Node] /\ K[prev] = N[prev] /\ K[next] = N[next]
    <3>1. [N[id] EXCEPT !.nextId = next, !.prevId = prev] \in Node
      <4>1. PICK node \in Node : node = N[id]
        BY <1>1, <1>4
      <4>2. [node EXCEPT !.nextId = next] \in Node
        BY DEF Node
      <4>3. [[node EXCEPT !.nextId = next] EXCEPT !.prevId = prev] \in Node
        BY <4>2 DEF Node
      <4> QED
        BY <4>1, <4>3
    <3> QED
      BY <1>3, <2>2, <3>1
  <2>5. L.nodes = M
    <3>1. PICK d1 : d1 = [d EXCEPT !.nodes[id].nextId = next, !.nodes[id].prevId = prev]
      OBVIOUS
    <3>2. d1.nodes = K /\ d1 \in Data
      BY <1>1, <1>2, <1>3, <2>2, <2>4, <3>1 DEF Data
    <3>3. L = [d1 EXCEPT !.nodes[prev].nextId = id, !.nodes[next].prevId = id]
      BY <2>1, <3>1
    <3> QED
      BY <1>10, <2>3, <2>4, <3>2, <3>3 DEF Data
  <2>6. M \in [Ids -> Node]
    <3>1. [N[prev] EXCEPT !.nextId = id] \in Node /\ [N[next] EXCEPT !.prevId = id] \in Node
      BY <1>1, <1>3 DEF Node
    <3> QED
      BY <2>3, <2>4, <3>1
  <2>7. L \in Data /\ L.size = d.size /\ L.head = d.head /\ L.tail = d.tail
    BY <1>1, <1>2, <2>1, <2>5, <2>6 DEF Data
  <2>8. M[id] = [EmptyNode EXCEPT !.nextId = next, !.prevId = prev]
    BY <1>1, <1>2, <1>3, <2>2, <2>3, <2>4
  <2>9. M[prev] = Neighbour(N[prev], prev, prev, next, id, id)
    <3>1. M[prev] = [N[prev] EXCEPT !.nextId = id]
      BY <1>10, <2>3, <2>4
    <3> QED
      BY <1>4, <1>10, <3>1 DEF Neighbour
  <2>10. M[next] = Neighbour(N[next], next, prev, next, id, id)
    <3>1. M[next] = [N[next] EXCEPT !.prevId = id]
      BY <1>10, <2>3, <2>4
    <3> QED
      BY <1>4, <1>10, <3>1 DEF Neighbour
  <2>11. \A x \in Ids : x # id /\ x # prev /\ x # next => M[x] = N[x]
    BY <1>3, <2>2, <2>3, <2>4
  <2>20. L.nodes[id].nextId = next /\ L.nodes[id].prevId = prev
    BY <1>13, <2>5, <2>8
  <2> QED
    BY <1>1, <1>2, <1>6, <1>10, <2>5, <2>7, <2>8, <2>9, <2>10, <2>11, <2>20
<1> QED
  BY <1>7, <1>8, <1>9, <1>10

\* A list in which a node's own fields were written.
Written(d, id, key, boost, since) ==
    [d EXCEPT !.nodes[id].exists = TRUE,
              !.nodes[id].oldBoostedAICR = key,
              !.nodes[id].boost = boost,
              !.nodes[id].since = since,
              !.size = @ + 1]

\* What that changes from d to e.
WritesNode(d, e, id, key, boost, since) ==
    /\ e \in Data /\ e.size = d.size + 1 /\ e.head = d.head /\ e.tail = d.tail
    /\ e.nodes[id].exists
    /\ e.nodes[id].nextId = d.nodes[id].nextId
    /\ e.nodes[id].prevId = d.nodes[id].prevId
    /\ e.nodes[id].oldBoostedAICR = key
    /\ e.nodes[id].boost = boost /\ e.nodes[id].since = since
    /\ \A x \in Ids : x # id => e.nodes[x] = d.nodes[x]

\* What _insert writes besides the links.
LEMMA NodeEffect ==
    ASSUME NEW L \in Data, NEW id \in Ids, NEW key \in Nat, NEW boost \in Nat, NEW since \in Nat,
           NEW D, D = Written(L, id, key, boost, since)
    PROVE  WritesNode(L, D, id, key, boost, since)
<1>1. PICK N : N = L.nodes
  OBVIOUS
<1>2. N \in [Ids -> Node] /\ L.size \in Nat /\ L.head \in Ids /\ L.tail \in Ids
  BY <1>1 DEF Data
<1>3. PICK node \in Node : node = N[id]
  BY <1>2
<1>4. PICK n1 \in Node : n1 = [node EXCEPT !.exists = TRUE]
  BY DEF Node
<1>5. PICK n2 \in Node : n2 = [n1 EXCEPT !.oldBoostedAICR = key]
  BY DEF Node
<1>6. PICK n3 \in Node : n3 = [n2 EXCEPT !.boost = boost]
  BY DEF Node
<1>7. PICK n4 \in Node : n4 = [n3 EXCEPT !.since = since]
  BY DEF Node
<1>8. PICK d1 \in Data : d1 = [L EXCEPT !.nodes = [N EXCEPT ![id] = n4]]
  BY <1>2 DEF Data
<1>9. D = [d1 EXCEPT !.size = @ + 1]
  <2>1. PICK e1 \in Data : e1 = [L EXCEPT !.nodes[id].exists = TRUE]
    BY <1>1, <1>2, <1>3, <1>4 DEF Data
  <2>2. e1.nodes = [N EXCEPT ![id] = n1]
    BY <1>1, <1>2, <1>3, <1>4, <2>1 DEF Data
  <2>3. PICK e2 \in Data : e2 = [e1 EXCEPT !.nodes[id].oldBoostedAICR = key]
    <3>1. [e1 EXCEPT !.nodes[id].oldBoostedAICR = key] = [e1 EXCEPT !.nodes = [N EXCEPT ![id] = n2]]
      BY <1>2, <1>5, <2>2 DEF Data
    <3>2. [e1 EXCEPT !.nodes = [N EXCEPT ![id] = n2]] \in Data
      BY <1>2 DEF Data
    <3> QED
      BY <3>1, <3>2
  <2>4. e2.nodes = [N EXCEPT ![id] = n2]
    BY <1>2, <1>5, <2>2, <2>3 DEF Data
  <2>5. PICK e3 \in Data : e3 = [e2 EXCEPT !.nodes[id].boost = boost]
    <3>1. [e2 EXCEPT !.nodes[id].boost = boost] = [e2 EXCEPT !.nodes = [N EXCEPT ![id] = n3]]
      BY <1>2, <1>6, <2>4 DEF Data
    <3>2. [e2 EXCEPT !.nodes = [N EXCEPT ![id] = n3]] \in Data
      BY <1>2 DEF Data
    <3> QED
      BY <3>1, <3>2
  <2>6. e3.nodes = [N EXCEPT ![id] = n3]
    BY <1>2, <1>6, <2>4, <2>5 DEF Data
  <2>7. PICK e4 \in Data : e4 = [e3 EXCEPT !.nodes[id].since = since]
    <3>1. [e3 EXCEPT !.nodes[id].since = since] = [e3 EXCEPT !.nodes = [N EXCEPT ![id] = n4]]
      BY <1>2, <1>7, <2>6 DEF Data
    <3>2. [e3 EXCEPT !.nodes = [N EXCEPT ![id] = n4]] \in Data
      BY <1>2 DEF Data
    <3> QED
      BY <3>1, <3>2
  <2>8. e4.nodes = [N EXCEPT ![id] = n4]
    BY <1>2, <1>7, <2>6, <2>7 DEF Data
  <2>9. D = [e4 EXCEPT !.size = @ + 1]
    BY <2>1, <2>3, <2>5, <2>7 DEF Written
  <2>10. e4.head = L.head /\ e4.tail = L.tail /\ e4.size = L.size
    BY <2>1, <2>3, <2>5, <2>7 DEF Data
  <2>11. e4 = d1
    BY <1>8, <2>8, <2>10 DEF Data
  <2> QED
    BY <2>9, <2>11
<1>10. /\ D \in Data /\ D.size = L.size + 1 /\ D.head = L.head /\ D.tail = L.tail
       /\ D.nodes = [N EXCEPT ![id] = n4]
  <2>1. PICK n \in Nat : n = d1.size + 1
    BY DEF Data
  <2>2. D = [d1 EXCEPT !.size = n]
    BY <1>9, <2>1
  <2>3. /\ D \in Data /\ D.size = n /\ D.head = d1.head /\ D.tail = d1.tail
        /\ D.nodes = d1.nodes
    BY <2>2 DEF Data
  <2>4. d1.nodes = [N EXCEPT ![id] = n4]
    BY <1>8 DEF Data
  <2>5. d1.size = L.size /\ d1.head = L.head /\ d1.tail = L.tail
    BY <1>8 DEF Data
  <2> QED
    BY <2>1, <2>3, <2>4, <2>5
<1>11. D.nodes[id] = n4 /\ \A x \in Ids : x # id => D.nodes[x] = L.nodes[x]
  BY <1>1, <1>2, <1>10
<1>12. /\ n4.exists /\ n4.nextId = node.nextId /\ n4.prevId = node.prevId
       /\ n4.oldBoostedAICR = key /\ n4.boost = boost /\ n4.since = since
  <2>1. n1.exists /\ n1.nextId = node.nextId /\ n1.prevId = node.prevId
    BY <1>4 DEF Node
  <2>2. n2.exists /\ n2.nextId = node.nextId /\ n2.prevId = node.prevId /\ n2.oldBoostedAICR = key
    BY <1>5, <2>1 DEF Node
  <2>3. /\ n3.exists /\ n3.nextId = node.nextId /\ n3.prevId = node.prevId
        /\ n3.oldBoostedAICR = key /\ n3.boost = boost
    BY <1>6, <2>2 DEF Node
  <2> QED
    BY <1>7, <2>3 DEF Node
<1> QED
  BY <1>1, <1>3, <1>10, <1>11, <1>12 DEF WritesNode

\* The fields of such a node.
LEMMA NeighbourFields ==
    ASSUME NEW node \in Node, NEW x, NEW prev, NEW next,
           NEW below \in Ids, NEW above \in Ids,
           NEW r, r = Neighbour(node, x, prev, next, below, above)
    PROVE  /\ r.exists <=> node.exists
           /\ r.nextId = IF x = prev THEN below ELSE node.nextId
           /\ r.prevId = IF x = next THEN above ELSE node.prevId
           /\ r.oldBoostedAICR = node.oldBoostedAICR
           /\ r.boost = node.boost /\ r.since = node.since
           /\ x # prev /\ x # next => r = node
<1>1. PICK p \in Ids : p = IF x = next THEN above ELSE node.prevId
  BY DEF Node
<1>2. PICK n \in Ids : n = IF x = prev THEN below ELSE node.nextId
  BY DEF Node
<1>3. r = [node EXCEPT !.nextId = n, !.prevId = p]
  BY <1>1, <1>2 DEF Neighbour, Node
<1>4. /\ r.exists = node.exists /\ r.nextId = n /\ r.prevId = p
      /\ r.oldBoostedAICR = node.oldBoostedAICR
      /\ r.boost = node.boost /\ r.since = node.since
  BY <1>3 DEF Node
<1>5. x # prev /\ x # next => r = node
  BY <1>1, <1>2, <1>3 DEF Node
<1> QED
  BY <1>1, <1>2, <1>4, <1>5

\* From d to e the trove id gets other values, and no other trove does.
Rekeyed(d, e, id, key, boost, since) ==
    /\ e.nodes[id].oldBoostedAICR = key
    /\ e.nodes[id].boost = boost
    /\ e.nodes[id].since = since
    /\ \A x \in Ids \ {id} : /\ e.nodes[x].oldBoostedAICR = d.nodes[x].oldBoostedAICR
                             /\ e.nodes[x].boost = d.nodes[x].boost
                             /\ e.nodes[x].since = d.nodes[x].since
                             /\ e.nodes[x].exists <=> d.nodes[x].exists

\* A new node in a gap: the list is the sequence with the new trove put into
\* the gap, and nothing else of any other trove changes.
LEMMA InsertLinks ==
    ASSUME NEW d, NEW s, Linked(d, s), NEW id \in Borrowers, ~ contains(d, id),
           NEW k \in 0..Len(s), NEW prev, prev = At(s, k), NEW next, next = At(s, k + 1),
           NEW key \in Nat, NEW boost \in Nat, NEW since \in Nat,
           NEW D, D = Written(LinkNode(d, id, prev, next), id, key, boost, since)
    PROVE  /\ Linked(D, InsertAt(s, k + 1, id))
           /\ Rekeyed(d, D, id, key, boost, since) /\ contains(D, id)
<1>1. PICK n \in Nat : n = Len(s)
  BY Positions
<1>2. /\ \A i \in 1..n : s[i] \in Borrowers /\ s[i] \in Ids /\ s[i] # Null /\ At(s, i) = s[i]
      /\ At(s, 0) = Null /\ At(s, n + 1) = Null
      /\ \A i \in 0..n + 1 : At(s, i) \in Ids
      /\ \A i \in 0..n + 1 : At(s, i) = Null <=> i \notin 1..n
  BY <1>1, Positions
<1>3. /\ d \in Data /\ s \in Seq(Borrowers) /\ d.size = n
      /\ \A i, j \in 1..n : s[i] = s[j] => i = j
      /\ d.head = At(s, 1) /\ d.tail = At(s, n)
      /\ \A i \in 1..n : /\ d.nodes[s[i]].exists
                         /\ d.nodes[s[i]].prevId = At(s, i - 1)
                         /\ d.nodes[s[i]].nextId = At(s, i + 1)
      /\ \A x \in Ids : (\A i \in 1..n : s[i] # x) => d.nodes[x] = EmptyNode
  BY <1>1 DEF Linked
<1>4. id \in Ids /\ Null \in Ids /\ id # Null /\ d.nodes[id] = EmptyNode
      /\ \A i \in 1..n : s[i] # id
  BY <1>3, SortedTrovesAssumption, ListedAt DEF Ids, contains
<1>5. k \in 0..n /\ k + 1 \in 0..n + 1 /\ k \in 0..n + 1
  BY <1>1
<1>6. prev \in Ids \ {id} /\ next \in Ids \ {id}
  <2>1. \A i \in 0..n + 1 : At(s, i) \in Ids /\ At(s, i) # id
    BY <1>2, <1>4
  <2> QED
    BY <1>5, <2>1
<1>7. /\ prev = Null <=> k = 0
      /\ next = Null <=> k = n
  BY <1>2, <1>5
<1>8. k > 0 => prev = s[k] /\ k \in 1..n
  BY <1>2, <1>5
<1>9. k < n => next = s[k + 1] /\ k + 1 \in 1..n
  BY <1>2, <1>5
<1>10. prev = next => prev = Null
  <2> SUFFICES ASSUME prev = next, prev # Null
               PROVE  FALSE
    OBVIOUS
  <2>1. k \in 1..n /\ k + 1 \in 1..n /\ s[k] = s[k + 1]
    BY <1>5, <1>7, <1>8, <1>9
  <2>2. k = k + 1
    BY <1>3, <2>1
  <2> QED
    BY <1>5, <2>2
<1>11. prev = Null /\ next # Null => d.head = next
  BY <1>3, <1>5, <1>7
<1>12. next = Null /\ prev # Null => d.tail = prev
  BY <1>3, <1>5, <1>7
<1>13. PICK L : L = LinkNode(d, id, prev, next)
  OBVIOUS
<1>14. /\ L \in Data /\ L.size = d.size
       /\ L.head = IF prev = Null THEN id ELSE d.head
       /\ L.tail = IF next = Null THEN id ELSE d.tail
       /\ L.nodes[id].nextId = next /\ L.nodes[id].prevId = prev
       /\ L.nodes[Null] = d.nodes[Null]
       /\ \A x \in Ids \ {id, Null} : L.nodes[x] = Neighbour(d.nodes[x], x, prev, next, id, id)
  <2>1. d \in Data
    BY <1>3
  <2>2. d.nodes[id] = EmptyNode
    BY <1>4
  <2>3. LinksNode(d, L, id, prev, next)
    BY <1>6, <1>10, <1>11, <1>12, <1>13, <2>1, <2>2, LinkEffect
  <2> QED
    BY <2>3 DEF LinksNode
<1>15. /\ D \in Data /\ D.size = L.size + 1 /\ D.head = L.head /\ D.tail = L.tail
       /\ D.nodes[id].exists
       /\ D.nodes[id].nextId = L.nodes[id].nextId
       /\ D.nodes[id].prevId = L.nodes[id].prevId
       /\ D.nodes[id].oldBoostedAICR = key
       /\ D.nodes[id].boost = boost /\ D.nodes[id].since = since
       /\ \A x \in Ids : x # id => D.nodes[x] = L.nodes[x]
  <2>1. D = Written(L, id, key, boost, since)
    BY <1>13
  <2>2. L \in Data /\ id \in Ids
    BY <1>4, <1>14
  <2>3. WritesNode(L, D, id, key, boost, since)
    BY <2>1, <2>2, NodeEffect
  <2> QED
    BY <2>3 DEF WritesNode
<1>16. D.nodes[id].nextId = next /\ D.nodes[id].prevId = prev
  BY <1>14, <1>15
<1>17. ASSUME NEW x \in Ids \ {id, Null}
       PROVE  /\ D.nodes[x].exists <=> d.nodes[x].exists
              /\ D.nodes[x].nextId = IF x = prev THEN id ELSE d.nodes[x].nextId
              /\ D.nodes[x].prevId = IF x = next THEN id ELSE d.nodes[x].prevId
              /\ D.nodes[x].oldBoostedAICR = d.nodes[x].oldBoostedAICR
              /\ D.nodes[x].boost = d.nodes[x].boost /\ D.nodes[x].since = d.nodes[x].since
              /\ x # prev /\ x # next => D.nodes[x] = d.nodes[x]
  <2>1. PICK node \in Node : node = d.nodes[x]
    BY <1>3 DEF Data
  <2>2. D.nodes[x] = Neighbour(node, x, prev, next, id, id)
    BY <1>14, <1>15, <2>1
  <2>3. PICK r : r = D.nodes[x]
    OBVIOUS
  <2>4. /\ r.exists <=> node.exists
        /\ r.nextId = IF x = prev THEN id ELSE node.nextId
        /\ r.prevId = IF x = next THEN id ELSE node.prevId
        /\ r.oldBoostedAICR = node.oldBoostedAICR
        /\ r.boost = node.boost /\ r.since = node.since
        /\ x # prev /\ x # next => r = node
    <3>1. r = Neighbour(node, x, prev, next, id, id) /\ id \in Ids
      BY <1>4, <2>2, <2>3
    <3> QED
      BY <3>1, NeighbourFields
  <2> QED
    BY <2>1, <2>3, <2>4
<1>18. PICK t : t = InsertAt(s, k + 1, id)
  OBVIOUS
<1>19. /\ t \in Seq(Borrowers) /\ Len(t) = n + 1
       /\ \A j \in 1..(n + 1) : t[j] =
             IF j <= k THEN s[j] ELSE IF j = k + 1 THEN id ELSE s[j - 1]
  <2>1. s \in Seq(Borrowers) /\ k \in 0..Len(s) /\ id \in Borrowers
    BY <1>3
  <2>2. /\ InsertAt(s, k + 1, id) \in Seq(Borrowers) /\ Len(InsertAt(s, k + 1, id)) = Len(s) + 1
        /\ \A j \in 1..(Len(s) + 1) : InsertAt(s, k + 1, id)[j] =
              IF j <= k THEN s[j] ELSE IF j = k + 1 THEN id ELSE s[j - 1]
    BY <2>1, InsertAtProperties
  <2> QED
    BY <1>1, <1>18, <2>2
<1>20. \A j \in 0..(n + 2) : At(t, j) =
          IF j <= k THEN At(s, j) ELSE IF j = k + 1 THEN id ELSE At(s, j - 1)
  <2> TAKE j \in 0..(n + 2)
  <2>1. CASE j <= k
    <3>1. j = 0 \/ (j \in 1..n /\ j \in 1..(n + 1))
      BY <1>5, <2>1
    <3>2. j = 0 => At(t, j) = Null
      BY DEF At
    <3>3. j \in 1..n /\ j \in 1..(n + 1) => At(t, j) = s[j]
      BY <1>19, <2>1 DEF At
    <3> QED
      BY <1>2, <2>1, <3>1, <3>2, <3>3
  <2>2. CASE j = k + 1
    <3>1. j \in 1..(n + 1) /\ ~ (j <= k)
      BY <1>5, <2>2
    <3> QED
      BY <1>19, <2>2, <3>1 DEF At
  <2>3. CASE j > k + 1
    <3>1. ~ (j <= k) /\ j # k + 1
      BY <1>5, <2>3
    <3>2. CASE j = n + 2
      <4>1. j \notin 1..(n + 1) /\ j - 1 = n + 1
        BY <3>2
      <4> QED
        BY <1>2, <1>19, <3>1, <4>1 DEF At
    <3>3. CASE j # n + 2
      <4>1. j \in 1..(n + 1) /\ j - 1 \in 1..n
        BY <1>5, <2>3, <3>3
      <4> QED
        BY <1>2, <1>19, <3>1, <4>1 DEF At
    <3> QED
      BY <3>2, <3>3
  <2> QED
    BY <1>5, <2>1, <2>2, <2>3
<1>21. D.head = At(t, 1) /\ D.tail = At(t, n + 1)
  <2>1. D.head = At(t, 1)
    <3>1. 1 \in 0..(n + 2) /\ (1 <= k <=> k # 0) /\ (1 = k + 1 <=> k = 0)
      BY <1>5
    <3> QED
      BY <1>3, <1>7, <1>14, <1>15, <1>20, <3>1
  <2>2. D.tail = At(t, n + 1)
    <3>1. n + 1 \in 0..(n + 2) /\ ~ (n + 1 <= k) /\ (n + 1 = k + 1 <=> k = n) /\ n + 1 - 1 = n
      BY <1>5
    <3>2. At(t, n + 1) = IF k = n THEN id ELSE At(s, n)
      BY <1>20, <3>1
    <3>3. D.tail = IF k = n THEN id ELSE d.tail
      BY <1>7, <1>14, <1>15
    <3> QED
      BY <1>3, <3>2, <3>3
  <2> QED
    BY <2>1, <2>2
<1>22. \A i, j \in 1..(n + 1) : t[i] = t[j] => i = j
  <2> SUFFICES ASSUME NEW i \in 1..(n + 1), NEW j \in 1..(n + 1), t[i] = t[j]
               PROVE  i = j
    OBVIOUS
  <2> DEFINE old(x) == IF x <= k THEN x ELSE x - 1
  <2>1. ASSUME NEW x \in 1..(n + 1), x # k + 1
        PROVE  old(x) \in 1..n /\ t[x] = s[old(x)] /\ t[x] # id
    <3>1. old(x) \in 1..n
      BY <1>5, <2>1
    <3>2. t[x] = s[old(x)]
      BY <1>19, <2>1
    <3> QED
      BY <1>4, <3>1, <3>2
  <2>2. t[k + 1] = id
    <3>1. k + 1 \in 1..(n + 1) /\ ~ (k + 1 <= k)
      BY <1>5
    <3> QED
      BY <1>19, <3>1
  <2>3. CASE i = k + 1 \/ j = k + 1
    BY <2>1, <2>2, <2>3
  <2>4. CASE i # k + 1 /\ j # k + 1
    <3>0. old(i) \in 1..n /\ old(j) \in 1..n /\ s[old(i)] = s[old(j)]
      BY <2>1, <2>4
    <3>1. old(i) = old(j)
      <4> HIDE DEF old
      <4> QED
        BY <1>3, <3>0
    <3> QED
      BY <1>5, <2>4, <3>1
  <2> QED
    BY <2>3, <2>4
<1>23. ASSUME NEW j \in 1..(n + 1)
       PROVE  /\ D.nodes[t[j]].exists
              /\ D.nodes[t[j]].prevId = At(t, j - 1)
              /\ D.nodes[t[j]].nextId = At(t, j + 1)
  <2>0. j - 1 \in 0..(n + 2) /\ j + 1 \in 0..(n + 2)
    OBVIOUS
  <2>1. CASE j = k + 1
    <3>1. t[j] = id /\ j - 1 = k /\ j + 1 = k + 2 /\ ~ (k + 2 <= k) /\ k + 2 # k + 1 /\ k + 2 - 1 = k + 1 /\ k <= k
      BY <1>5, <1>19, <2>1
    <3>2. At(t, j - 1) = prev
      BY <1>20, <2>0, <3>1
    <3>3. At(t, j + 1) = next
      BY <1>20, <2>0, <3>1
    <3> QED
      BY <1>15, <1>16, <3>1, <3>2, <3>3
  <2>2. CASE j <= k
    <3>1. j \in 1..n /\ t[j] = s[j] /\ k \in 1..n /\ k > 0
      BY <1>5, <1>19, <2>2
    <3>2. s[j] \in Ids \ {id, Null}
      BY <1>2, <1>4, <3>1
    <3>3. s[j] = prev <=> j = k
      BY <1>3, <1>8, <3>1
    <3>4. s[j] # next
      <4>1. CASE k = n
        BY <1>7, <3>2, <4>1
      <4>2. CASE k # n
        <5>1. k < n /\ j # k + 1
          BY <1>5, <2>2, <4>2
        <5> QED
          BY <1>3, <1>9, <3>1, <5>1
      <4> QED
        BY <4>1, <4>2
    <3>5. At(t, j - 1) = At(s, j - 1)
      <4>1. j - 1 <= k
        BY <1>5, <2>2
      <4> QED
        BY <1>20, <2>0, <4>1
    <3>6. At(t, j + 1) = IF j = k THEN id ELSE At(s, j + 1)
      <4>1. (j # k => j + 1 <= k) /\ (j = k => ~ (j + 1 <= k) /\ j + 1 = k + 1)
        BY <1>5, <2>2
      <4> QED
        BY <1>20, <2>0, <4>1
    <3>7. /\ D.nodes[s[j]].exists <=> d.nodes[s[j]].exists
          /\ D.nodes[s[j]].nextId = IF s[j] = prev THEN id ELSE d.nodes[s[j]].nextId
          /\ D.nodes[s[j]].prevId = IF s[j] = next THEN id ELSE d.nodes[s[j]].prevId
      BY <1>17, <3>2
    <3>8. /\ d.nodes[s[j]].exists
          /\ d.nodes[s[j]].prevId = At(s, j - 1)
          /\ d.nodes[s[j]].nextId = At(s, j + 1)
      BY <1>3, <3>1
    <3>9. D.nodes[t[j]].exists
      BY <3>1, <3>7, <3>8
    <3>10. D.nodes[t[j]].prevId = At(t, j - 1)
      BY <3>1, <3>3, <3>4, <3>5, <3>7, <3>8
    <3>11. D.nodes[t[j]].nextId = At(t, j + 1)
      BY <3>1, <3>3, <3>4, <3>6, <3>7, <3>8
    <3> QED
      BY <3>9, <3>10, <3>11
  <2>3. CASE j > k + 1
    <3>0. PICK i \in 1..n : i = j - 1 /\ i > k
      BY <1>5, <2>3
    <3>1. t[j] = s[i] /\ k < n /\ k + 1 \in 1..n
      <4>1. ~ (j <= k) /\ j # k + 1 /\ k < n /\ k + 1 \in 1..n
        BY <1>5, <2>3
      <4> QED
        BY <1>19, <3>0, <4>1
    <3>2. s[i] \in Ids \ {id, Null}
      BY <1>2, <1>4
    <3>3. s[i] = next <=> i = k + 1
      BY <1>3, <1>9, <3>1
    <3>4. s[i] # prev
      <4>1. CASE k = 0
        BY <1>7, <3>2, <4>1
      <4>2. CASE k # 0
        <5>1. k > 0 /\ i # k
          BY <1>5, <3>0, <4>2
        <5> QED
          BY <1>3, <1>8, <5>1
      <4> QED
        BY <4>1, <4>2
    <3>5. At(t, j - 1) = IF i = k + 1 THEN id ELSE At(s, i - 1)
      <4>1. ~ (i <= k) /\ j - 1 = i
        BY <1>5, <3>0
      <4> QED
        BY <1>20, <2>0, <4>1
    <3>6. At(t, j + 1) = At(s, i + 1)
      <4>1. ~ (j + 1 <= k) /\ j + 1 # k + 1 /\ j + 1 - 1 = i + 1
        BY <1>5, <3>0
      <4> QED
        BY <1>20, <2>0, <4>1
    <3>7. /\ D.nodes[s[i]].exists <=> d.nodes[s[i]].exists
          /\ D.nodes[s[i]].nextId = IF s[i] = prev THEN id ELSE d.nodes[s[i]].nextId
          /\ D.nodes[s[i]].prevId = IF s[i] = next THEN id ELSE d.nodes[s[i]].prevId
      BY <1>17, <3>2
    <3>8. /\ d.nodes[s[i]].exists
          /\ d.nodes[s[i]].prevId = At(s, i - 1)
          /\ d.nodes[s[i]].nextId = At(s, i + 1)
      BY <1>3
    <3>9. D.nodes[t[j]].exists
      BY <3>1, <3>7, <3>8
    <3>10. D.nodes[t[j]].prevId = At(t, j - 1)
      BY <3>1, <3>3, <3>4, <3>5, <3>7, <3>8
    <3>11. D.nodes[t[j]].nextId = At(t, j + 1)
      BY <3>1, <3>3, <3>4, <3>6, <3>7, <3>8
    <3> QED
      BY <3>9, <3>10, <3>11
  <2>4. j = k + 1 \/ j <= k \/ j > k + 1
    BY <1>5
  <2> QED
    BY <2>1, <2>2, <2>3, <2>4
<1>24. ASSUME NEW x \in Ids, \A j \in 1..(n + 1) : t[j] # x
       PROVE  D.nodes[x] = EmptyNode
  <2>1. x # id
    <3>1. k + 1 \in 1..(n + 1) /\ ~ (k + 1 <= k)
      BY <1>5
    <3> QED
      BY <1>19, <1>24, <3>1
  <2>2. ASSUME NEW i \in 1..n PROVE s[i] # x
    <3>1. CASE i <= k
      <4>1. i \in 1..(n + 1) /\ t[i] = s[i]
        BY <1>19, <3>1
      <4> QED
        BY <1>24, <4>1
    <3>2. CASE i > k
      <4>1. i + 1 \in 1..(n + 1) /\ ~ (i + 1 <= k) /\ i + 1 # k + 1 /\ i + 1 - 1 = i
        BY <1>5, <3>2
      <4>2. t[i + 1] = s[i]
        BY <1>19, <4>1
      <4> QED
        BY <1>24, <4>1, <4>2
    <3> QED
      BY <1>5, <3>1, <3>2
  <2>3. d.nodes[x] = EmptyNode
    BY <1>3, <2>2
  <2>4. CASE x = Null
    <3>1. D.nodes[Null] = L.nodes[Null]
      BY <1>4, <1>15
    <3>2. L.nodes[Null] = d.nodes[Null]
      BY <1>14
    <3> QED
      BY <2>3, <2>4, <3>1, <3>2
  <2>5. CASE x # Null
    <3>1. x # prev
      <4>1. k = 0 \/ k > 0
        BY <1>5
      <4> QED
        BY <1>7, <1>8, <2>2, <2>5, <4>1
    <3>2. x # next
      <4>1. k = n \/ k < n
        BY <1>5
      <4> QED
        BY <1>7, <1>9, <2>2, <2>5, <4>1
    <3>3. x \in Ids \ {id, Null}
      BY <2>1, <2>5
    <3>4. x # prev /\ x # next => D.nodes[x] = d.nodes[x]
      BY <1>17, <3>3
    <3> QED
      BY <2>3, <3>1, <3>2, <3>4
  <2> QED
    BY <2>4, <2>5
<1>25. Linked(D, t)
  <2>1. D.size = Len(t)
    BY <1>3, <1>14, <1>15, <1>19
  <2>2. \A i, j \in 1..Len(t) : t[i] = t[j] => i = j
    BY <1>19, <1>22
  <2>3. D.head = At(t, 1) /\ D.tail = At(t, Len(t))
    BY <1>19, <1>21
  <2>4. \A j \in 1..Len(t) : /\ D.nodes[t[j]].exists
                            /\ D.nodes[t[j]].prevId = At(t, j - 1)
                            /\ D.nodes[t[j]].nextId = At(t, j + 1)
    BY <1>19, <1>23
  <2>5. \A x \in Ids : (\A j \in 1..Len(t) : t[j] # x) => D.nodes[x] = EmptyNode
    BY <1>19, <1>24
  <2>6. D \in Data /\ t \in Seq(Borrowers)
    BY <1>15, <1>19
  <2> QED
    BY <2>1, <2>2, <2>3, <2>4, <2>5, <2>6 DEF Linked
<1>26. \A x \in Ids \ {id} : /\ D.nodes[x].oldBoostedAICR = d.nodes[x].oldBoostedAICR
                             /\ D.nodes[x].boost = d.nodes[x].boost
                             /\ D.nodes[x].since = d.nodes[x].since
                             /\ D.nodes[x].exists <=> d.nodes[x].exists
  <2>1. D.nodes[Null] = d.nodes[Null]
    BY <1>4, <1>14, <1>15
  <2> QED
    BY <1>17, <2>1
<1> QED
  BY <1>15, <1>18, <1>25, <1>26 DEF Rekeyed, contains

-----------------------------------------------------------------------------
(* Unlinking a node. *)

\* The links of a list e without the node id that is between prev and next in d.
UnlinksNode(d, e, id, prev, next) ==
    /\ e \in Data /\ e.size = d.size
    /\ e.head = IF prev = Null THEN next ELSE d.head
    /\ e.tail = IF next = Null THEN prev ELSE d.tail
    /\ e.nodes[Null] = d.nodes[Null]
    /\ \A x \in Ids \ {id, Null} :
          e.nodes[x] = Neighbour(d.nodes[x], x, prev, next, next, prev)

\* What _remove writes into the links, in all of its four cases.
LEMMA UnlinkEffect ==
    ASSUME NEW d \in Data, NEW id \in Borrowers,
           NEW prev \in Ids \ {id}, NEW next \in Ids \ {id},
           d.nodes[id].prevId = prev, d.nodes[id].nextId = next,
           prev = next => prev = Null,
           d.size <= 1 <=> (prev = Null /\ next = Null),
           id = d.head <=> prev = Null,
           id = d.tail <=> next = Null,
           NEW L, L = UnlinkNode(d, id)
    PROVE  UnlinksNode(d, L, id, prev, next)
<1> USE DEF UnlinksNode
<1>1. id \in Ids /\ Null \in Ids /\ id # Null
  BY SortedTrovesAssumption DEF Ids
<1>2. PICK N : N = d.nodes
  OBVIOUS
<1>3. N \in [Ids -> Node] /\ d.head \in Ids /\ d.tail \in Ids /\ d.size \in Nat
  BY <1>2 DEF Data
<1>4. \A x \in Ids : /\ N[x] \in Node
                     /\ N[x] = [exists |-> N[x].exists, nextId |-> N[x].nextId, prevId |-> N[x].prevId,
                          oldBoostedAICR |-> N[x].oldBoostedAICR, boost |-> N[x].boost, since |-> N[x].since]
  BY <1>3 DEF Node
<1>5. \A x \in Ids : x # prev /\ x # next => Neighbour(N[x], x, prev, next, next, prev) = N[x]
  <2> SUFFICES ASSUME NEW x \in Ids, x # prev, x # next
               PROVE  Neighbour(N[x], x, prev, next, next, prev) = N[x]
    OBVIOUS
  <2>1. PICK node \in Node : node = N[x]
    BY <1>4
  <2>2. [node EXCEPT !.nextId = node.nextId, !.prevId = node.prevId] = node
    BY DEF Node
  <2> QED
    BY <2>1, <2>2 DEF Neighbour
<1>6. d.size <= 1 <=> ~ (d.size > 1)
  BY <1>3
<1>7. CASE prev = Null /\ next = Null
  <2>1. L = [d EXCEPT !.head = Null, !.tail = Null]
    BY <1>6, <1>7 DEF UnlinkNode
  <2>2. /\ L \in Data /\ L.size = d.size /\ L.head = Null /\ L.tail = Null
        /\ L.nodes = N
    BY <1>1, <1>2, <2>1 DEF Data
  <2> QED
    BY <1>1, <1>2, <1>5, <1>7, <2>2
<1>8. CASE prev = Null /\ next # Null
  <2>1. L = [d EXCEPT !.head = next, !.nodes[next].prevId = Null]
    BY <1>6, <1>8 DEF UnlinkNode
  <2>2. PICK M : M = [N EXCEPT ![next] = [N[next] EXCEPT !.prevId = Null]]
    OBVIOUS
  <2>3. L.nodes = M
    BY <1>1, <1>2, <1>3, <2>1, <2>2 DEF Data
  <2>4. M \in [Ids -> Node]
    <3>1. [N[next] EXCEPT !.prevId = Null] \in Node
      BY <1>1, <1>3 DEF Node
    <3> QED
      BY <1>3, <2>2, <3>1
  <2>5. L \in Data /\ L.size = d.size /\ L.head = next /\ L.tail = d.tail
    BY <1>1, <1>2, <2>1, <2>3, <2>4 DEF Data
  <2>6. M[next] = Neighbour(N[next], next, prev, next, next, prev)
    <3>1. M[next] = [N[next] EXCEPT !.prevId = Null]
      BY <1>1, <1>3, <2>2
    <3> QED
      BY <1>4, <1>8, <3>1 DEF Neighbour
  <2>7. \A x \in Ids : x # next => M[x] = N[x]
    BY <1>3, <2>2
  <2> QED
    BY <1>1, <1>2, <1>5, <1>8, <2>3, <2>5, <2>6, <2>7
<1>9. CASE prev # Null /\ next = Null
  <2>1. L = [d EXCEPT !.tail = prev, !.nodes[prev].nextId = Null]
    BY <1>6, <1>9 DEF UnlinkNode
  <2>2. PICK M : M = [N EXCEPT ![prev] = [N[prev] EXCEPT !.nextId = Null]]
    OBVIOUS
  <2>3. L.nodes = M
    BY <1>1, <1>2, <1>3, <2>1, <2>2 DEF Data
  <2>4. M \in [Ids -> Node]
    <3>1. [N[prev] EXCEPT !.nextId = Null] \in Node
      BY <1>1, <1>3 DEF Node
    <3> QED
      BY <1>3, <2>2, <3>1
  <2>5. L \in Data /\ L.size = d.size /\ L.head = d.head /\ L.tail = prev
    BY <1>1, <1>2, <2>1, <2>3, <2>4 DEF Data
  <2>6. M[prev] = Neighbour(N[prev], prev, prev, next, next, prev)
    <3>1. M[prev] = [N[prev] EXCEPT !.nextId = Null]
      BY <1>1, <1>3, <2>2
    <3> QED
      BY <1>4, <1>9, <3>1 DEF Neighbour
  <2>7. \A x \in Ids : x # prev => M[x] = N[x]
    BY <1>3, <2>2
  <2> QED
    BY <1>1, <1>2, <1>5, <1>9, <2>3, <2>5, <2>6, <2>7
<1>10. CASE prev # Null /\ next # Null
  <2>1. L = [d EXCEPT !.nodes[prev].nextId = next, !.nodes[next].prevId = prev]
    BY <1>6, <1>10 DEF UnlinkNode
  <2>3. PICK M : M = [[N EXCEPT ![prev] = [N[prev] EXCEPT !.nextId = next]]
                         EXCEPT ![next] = [N[next] EXCEPT !.prevId = prev]]
    OBVIOUS
  <2>5. L.nodes = M
    BY <1>1, <1>2, <1>3, <1>10, <2>1, <2>3 DEF Data
  <2>6. M \in [Ids -> Node]
    <3>1. [N[prev] EXCEPT !.nextId = next] \in Node /\ [N[next] EXCEPT !.prevId = prev] \in Node
      BY <1>3 DEF Node
    <3> QED
      BY <1>3, <2>3, <3>1
  <2>7. L \in Data /\ L.size = d.size /\ L.head = d.head /\ L.tail = d.tail
    BY <1>1, <1>2, <2>1, <2>5, <2>6 DEF Data
  <2>9. M[prev] = Neighbour(N[prev], prev, prev, next, next, prev)
    <3>1. M[prev] = [N[prev] EXCEPT !.nextId = next]
      BY <1>3, <1>10, <2>3
    <3> QED
      BY <1>4, <1>10, <3>1 DEF Neighbour
  <2>10. M[next] = Neighbour(N[next], next, prev, next, next, prev)
    <3>1. M[next] = [N[next] EXCEPT !.prevId = prev]
      BY <1>3, <1>10, <2>3
    <3> QED
      BY <1>4, <1>10, <3>1 DEF Neighbour
  <2>11. \A x \in Ids : x # prev /\ x # next => M[x] = N[x]
    BY <1>3, <2>3
  <2> QED
    BY <1>1, <1>2, <1>5, <1>10, <2>5, <2>7, <2>9, <2>10, <2>11
<1> QED
  BY <1>7, <1>8, <1>9, <1>10

\* A node taken out: the list is the sequence without the trove.
LEMMA RemoveLinks ==
    ASSUME NEW d, NEW s, Linked(d, s), NEW i \in 1..Len(s), NEW id, id = s[i],
           NEW D, D = RemoveNode(d, id)
    PROVE  /\ Linked(D, RemoveAt(s, i))
           /\ Rekeyed(d, D, id, 0, 0, 0) /\ ~ contains(D, id)
<1>1. PICK n \in Nat : n = Len(s)
  BY Positions
<1>2. /\ \A j \in 1..n : s[j] \in Borrowers /\ s[j] \in Ids /\ s[j] # Null /\ At(s, j) = s[j]
      /\ At(s, 0) = Null /\ At(s, n + 1) = Null
      /\ \A j \in 0..n + 1 : At(s, j) \in Ids
      /\ \A j \in 0..n + 1 : At(s, j) = Null <=> j \notin 1..n
  BY <1>1, Positions
<1>3. /\ d \in Data /\ s \in Seq(Borrowers) /\ d.size = n
      /\ \A l, j \in 1..n : s[l] = s[j] => l = j
      /\ d.head = At(s, 1) /\ d.tail = At(s, n)
      /\ \A j \in 1..n : /\ d.nodes[s[j]].exists
                         /\ d.nodes[s[j]].prevId = At(s, j - 1)
                         /\ d.nodes[s[j]].nextId = At(s, j + 1)
      /\ \A x \in Ids : (\A j \in 1..n : s[j] # x) => d.nodes[x] = EmptyNode
  BY <1>1 DEF Linked
<1>4. i \in 1..n /\ i - 1 \in 0..n + 1 /\ i + 1 \in 0..n + 1 /\ 1 \in 1..n /\ n \in 1..n
  BY <1>1
<1>5. id \in Borrowers /\ id \in Ids /\ Null \in Ids /\ id # Null
  BY <1>2, <1>4 DEF Ids
<1>6. PICK prev : prev = At(s, i - 1)
  OBVIOUS
<1>7. PICK next : next = At(s, i + 1)
  OBVIOUS
<1>8. d.nodes[id].prevId = prev /\ d.nodes[id].nextId = next
  BY <1>3, <1>4, <1>6, <1>7
<1>9. /\ prev = Null <=> i = 1
      /\ next = Null <=> i = n
  <2>1. /\ i - 1 \notin 1..n <=> i = 1
        /\ i + 1 \notin 1..n <=> i = n
    BY <1>4
  <2> QED
    BY <1>2, <1>4, <1>6, <1>7, <2>1
<1>10. i > 1 => prev = s[i - 1] /\ i - 1 \in 1..n
  BY <1>2, <1>4, <1>6
<1>11. i < n => next = s[i + 1] /\ i + 1 \in 1..n
  BY <1>2, <1>4, <1>7
<1>12. prev \in Ids \ {id} /\ next \in Ids \ {id}
  <2>1. prev # id
    <3>1. CASE i = 1
      BY <1>5, <1>9, <3>1
    <3>2. CASE i # 1
      <4>1. i > 1 /\ i - 1 # i
        BY <1>4, <3>2
      <4> QED
        BY <1>3, <1>4, <1>10, <4>1
    <3> QED
      BY <3>1, <3>2
  <2>2. next # id
    <3>1. CASE i = n
      BY <1>5, <1>9, <3>1
    <3>2. CASE i # n
      <4>1. i < n /\ i + 1 # i
        BY <1>4, <3>2
      <4> QED
        BY <1>3, <1>4, <1>11, <4>1
    <3> QED
      BY <3>1, <3>2
  <2> QED
    BY <1>2, <1>4, <1>6, <1>7, <2>1, <2>2
<1>13. prev = next => prev = Null
  <2> SUFFICES ASSUME prev = next, prev # Null PROVE FALSE
    OBVIOUS
  <2>1. i > 1 /\ i < n /\ i - 1 # i + 1
    BY <1>4, <1>9
  <2> QED
    BY <1>3, <1>10, <1>11, <2>1
<1>14. d.size <= 1 <=> (prev = Null /\ next = Null)
  BY <1>3, <1>4, <1>9
<1>15. /\ id = d.head <=> prev = Null
       /\ id = d.tail <=> next = Null
  <2>1. d.head = s[1] /\ d.tail = s[n]
    BY <1>2, <1>3, <1>4
  <2>2. (s[i] = s[1] <=> i = 1) /\ (s[i] = s[n] <=> i = n)
    BY <1>3, <1>4
  <2> QED
    BY <1>9, <2>1, <2>2
<1>16. PICK L : L = UnlinkNode(d, id)
  OBVIOUS
<1>17. /\ L \in Data /\ L.size = d.size
       /\ L.head = IF prev = Null THEN next ELSE d.head
       /\ L.tail = IF next = Null THEN prev ELSE d.tail
       /\ L.nodes[Null] = d.nodes[Null]
       /\ \A x \in Ids \ {id, Null} :
             L.nodes[x] = Neighbour(d.nodes[x], x, prev, next, next, prev)
  <2>1. d \in Data
    BY <1>3
  <2>2. UnlinksNode(d, L, id, prev, next)
    BY <1>5, <1>8, <1>12, <1>13, <1>14, <1>15, <1>16, <2>1, UnlinkEffect
  <2> QED
    BY <2>2 DEF UnlinksNode
<1>18. /\ D \in Data /\ D.size = n - 1 /\ D.head = L.head /\ D.tail = L.tail
       /\ D.nodes[id] = EmptyNode
       /\ \A x \in Ids : x # id => D.nodes[x] = L.nodes[x]
  <2>1. D = [L EXCEPT !.nodes[id] = EmptyNode, !.size = @ - 1]
    BY <1>16 DEF RemoveNode
  <2>2. EmptyNode \in Node
    BY <1>5 DEF EmptyNode, Node
  <2>3. PICK N \in [Ids -> Node] : N = [L.nodes EXCEPT ![id] = EmptyNode]
    BY <1>17, <2>2 DEF Data
  <2>4. PICK m \in Nat : m = L.size - 1
    BY <1>3, <1>4, <1>17
  <2>5. D = [L EXCEPT !.nodes = N, !.size = m]
    BY <2>1, <2>3, <2>4
  <2>6. D \in Data /\ D.size = m /\ D.head = L.head /\ D.tail = L.tail /\ D.nodes = N
    BY <1>17, <2>5 DEF Data
  <2>7. N[id] = EmptyNode /\ \A x \in Ids : x # id => N[x] = L.nodes[x]
    BY <1>5, <1>17, <2>3 DEF Data
  <2> QED
    BY <1>3, <1>17, <2>4, <2>6, <2>7
<1>19. ASSUME NEW x \in Ids \ {id, Null}
       PROVE  /\ D.nodes[x].exists <=> d.nodes[x].exists
              /\ D.nodes[x].nextId = IF x = prev THEN next ELSE d.nodes[x].nextId
              /\ D.nodes[x].prevId = IF x = next THEN prev ELSE d.nodes[x].prevId
              /\ D.nodes[x].oldBoostedAICR = d.nodes[x].oldBoostedAICR
              /\ D.nodes[x].boost = d.nodes[x].boost /\ D.nodes[x].since = d.nodes[x].since
              /\ x # prev /\ x # next => D.nodes[x] = d.nodes[x]
  <2>1. PICK node \in Node : node = d.nodes[x]
    BY <1>3 DEF Data
  <2>2. D.nodes[x] = Neighbour(node, x, prev, next, next, prev)
    BY <1>17, <1>18, <2>1
  <2>3. PICK r : r = D.nodes[x]
    OBVIOUS
  <2>4. /\ r.exists <=> node.exists
        /\ r.nextId = IF x = prev THEN next ELSE node.nextId
        /\ r.prevId = IF x = next THEN prev ELSE node.prevId
        /\ r.oldBoostedAICR = node.oldBoostedAICR
        /\ r.boost = node.boost /\ r.since = node.since
        /\ x # prev /\ x # next => r = node
    <3>1. r = Neighbour(node, x, prev, next, next, prev) /\ prev \in Ids /\ next \in Ids
      BY <1>12, <2>2, <2>3
    <3> QED
      BY <3>1, NeighbourFields
  <2> QED
    BY <2>1, <2>3, <2>4
<1>20. PICK t : t = RemoveAt(s, i)
  OBVIOUS
<1>21. /\ t \in Seq(Borrowers) /\ Len(t) = n - 1
       /\ \A j \in 1..(n - 1) : t[j] = IF j < i THEN s[j] ELSE s[j + 1]
  <2>1. s \in Seq(Borrowers) /\ i \in 1..Len(s)
    BY <1>3
  <2>2. /\ RemoveAt(s, i) \in Seq(Borrowers) /\ Len(RemoveAt(s, i)) = Len(s) - 1
        /\ \A j \in 1..(Len(s) - 1) : RemoveAt(s, i)[j] = IF j < i THEN s[j] ELSE s[j + 1]
    BY <2>1, RemoveAtProperties
  <2> QED
    BY <1>1, <1>20, <2>2
<1>22. \A j \in 0..n : At(t, j) = IF j < i THEN At(s, j) ELSE At(s, j + 1)
  <2> TAKE j \in 0..n
  <2>1. CASE j < i
    <3>1. j = 0 \/ (j \in 1..n /\ j \in 1..(n - 1))
      BY <1>4, <2>1
    <3>2. j = 0 => At(t, j) = Null
      BY DEF At
    <3>3. j \in 1..n /\ j \in 1..(n - 1) => At(t, j) = s[j]
      BY <1>21, <2>1 DEF At
    <3> QED
      BY <1>2, <2>1, <3>1, <3>2, <3>3
  <2>2. CASE j >= i
    <3>1. ~ (j < i)
      BY <1>4, <2>2
    <3>2. CASE j = n
      <4>1. j \notin 1..(n - 1) /\ j + 1 = n + 1
        BY <3>2
      <4> QED
        BY <1>2, <1>21, <3>1, <4>1 DEF At
    <3>3. CASE j # n
      <4>1. j \in 1..(n - 1) /\ j + 1 \in 1..n
        BY <1>4, <2>2, <3>3
      <4> QED
        BY <1>2, <1>21, <3>1, <4>1 DEF At
    <3> QED
      BY <3>2, <3>3
  <2> QED
    BY <1>4, <2>1, <2>2
<1>23. D.head = At(t, 1) /\ D.tail = At(t, n - 1)
  <2>1. D.head = At(t, 1)
    <3>1. 1 \in 0..n /\ (1 < i <=> i # 1) /\ (i = 1 => i + 1 = 1 + 1)
      BY <1>4
    <3>2. At(t, 1) = IF i = 1 THEN At(s, 1 + 1) ELSE At(s, 1)
      BY <1>22, <3>1
    <3>3. D.head = IF i = 1 THEN next ELSE d.head
      BY <1>9, <1>17, <1>18
    <3>4. i = 1 => next = At(s, 1 + 1)
      BY <1>7
    <3> QED
      BY <1>3, <3>2, <3>3, <3>4
  <2>2. D.tail = At(t, n - 1)
    <3>1. n - 1 \in 0..n /\ (n - 1 < i <=> i = n) /\ n - 1 + 1 = n
      BY <1>4
    <3>2. At(t, n - 1) = IF i = n THEN At(s, n - 1) ELSE At(s, n)
      BY <1>22, <3>1
    <3>3. D.tail = IF i = n THEN prev ELSE d.tail
      BY <1>9, <1>17, <1>18
    <3>4. i = n => prev = At(s, n - 1)
      BY <1>6
    <3> QED
      BY <1>3, <3>2, <3>3, <3>4
  <2> QED
    BY <2>1, <2>2
<1> DEFINE old(x) == IF x < i THEN x ELSE x + 1
<1>24. ASSUME NEW x \in 1..(n - 1)
       PROVE  old(x) \in 1..n /\ old(x) # i /\ t[x] = s[old(x)]
  <2>1. old(x) \in 1..n /\ old(x) # i
    BY <1>4
  <2>2. t[x] = s[old(x)]
    BY <1>21
  <2> QED
    BY <2>1, <2>2
<1>25. \A j, l \in 1..(n - 1) : t[j] = t[l] => j = l
  <2> SUFFICES ASSUME NEW j \in 1..(n - 1), NEW l \in 1..(n - 1), t[j] = t[l]
               PROVE  j = l
    OBVIOUS
  <2>1. old(j) \in 1..n /\ old(l) \in 1..n /\ s[old(j)] = s[old(l)]
    BY <1>24
  <2>2. old(j) = old(l)
    <3> HIDE DEF old
    <3> QED
      BY <1>3, <2>1
  <2> QED
    BY <1>4, <2>2
<1>26. ASSUME NEW j \in 1..(n - 1)
       PROVE  /\ D.nodes[t[j]].exists
              /\ D.nodes[t[j]].prevId = At(t, j - 1)
              /\ D.nodes[t[j]].nextId = At(t, j + 1)
  <2>0. j - 1 \in 0..n /\ j + 1 \in 0..n
    OBVIOUS
  <2>1. PICK m \in 1..n : m = old(j) /\ m # i /\ t[j] = s[m]
    BY <1>24
  <2>2. s[m] # id
    BY <1>3, <1>4, <2>1
  <2>3. s[m] \in Ids \ {id, Null}
    BY <1>2, <2>2
  <2>4. /\ D.nodes[s[m]].exists <=> d.nodes[s[m]].exists
        /\ D.nodes[s[m]].nextId = IF s[m] = prev THEN next ELSE d.nodes[s[m]].nextId
        /\ D.nodes[s[m]].prevId = IF s[m] = next THEN prev ELSE d.nodes[s[m]].prevId
    BY <1>19, <2>3
  <2>5. /\ d.nodes[s[m]].exists
        /\ d.nodes[s[m]].prevId = At(s, m - 1)
        /\ d.nodes[s[m]].nextId = At(s, m + 1)
    BY <1>3
  <2>6. s[m] = prev <=> m = i - 1
    <3>1. CASE i = 1
      <4>1. m # i - 1 /\ prev = Null
        BY <1>9, <3>1
      <4> QED
        BY <2>3, <4>1
    <3>2. CASE i # 1
      <4>1. i > 1
        BY <1>4, <3>2
      <4> QED
        BY <1>3, <1>10, <4>1
    <3> QED
      BY <3>1, <3>2
  <2>7. s[m] = next <=> m = i + 1
    <3>1. CASE i = n
      <4>1. m # i + 1 /\ next = Null
        BY <1>9, <3>1
      <4> QED
        BY <2>3, <4>1
    <3>2. CASE i # n
      <4>1. i < n
        BY <1>4, <3>2
      <4> QED
        BY <1>3, <1>11, <4>1
    <3> QED
      BY <3>1, <3>2
  <2>8. At(t, j - 1) = IF m = i + 1 THEN At(s, i - 1) ELSE At(s, m - 1)
    <3>1. At(t, j - 1) = IF j - 1 < i THEN At(s, j - 1) ELSE At(s, j - 1 + 1)
      BY <1>22, <2>0
    <3>2. CASE j < i
      <4>1. m = j /\ j - 1 < i /\ m # i + 1
        BY <1>4, <2>1, <3>2
      <4> QED
        BY <3>1, <4>1
    <3>3. CASE j = i
      <4>1. m = i + 1 /\ j - 1 < i
        BY <1>4, <2>1, <3>3
      <4> QED
        BY <3>1, <3>3, <4>1
    <3>4. CASE j > i
      <4>1. m = j + 1 /\ m # i + 1 /\ ~ (j - 1 < i) /\ j - 1 + 1 = j /\ m - 1 = j
        BY <1>4, <2>1, <3>4
      <4> QED
        BY <3>1, <4>1
    <3>5. j < i \/ j = i \/ j > i
      BY <1>4
    <3> QED
      BY <3>2, <3>3, <3>4, <3>5
  <2>9. At(t, j + 1) = IF m = i - 1 THEN At(s, i + 1) ELSE At(s, m + 1)
    <3>1. At(t, j + 1) = IF j + 1 < i THEN At(s, j + 1) ELSE At(s, j + 1 + 1)
      BY <1>22, <2>0
    <3>2. CASE j + 1 < i
      <4>1. m = j /\ m # i - 1
        BY <1>4, <2>1, <3>2
      <4> QED
        BY <3>1, <3>2, <4>1
    <3>3. CASE j + 1 = i
      <4>1. m = i - 1 /\ ~ (j + 1 < i) /\ j + 1 + 1 = i + 1
        BY <1>4, <2>1, <3>3
      <4> QED
        BY <3>1, <4>1
    <3>4. CASE j + 1 > i
      <4>1. m = j + 1 /\ m # i - 1 /\ ~ (j + 1 < i)
        BY <1>4, <2>1, <3>4
      <4> QED
        BY <3>1, <4>1
    <3>5. j + 1 < i \/ j + 1 = i \/ j + 1 > i
      BY <1>4
    <3> QED
      BY <3>2, <3>3, <3>4, <3>5
  <2>10. D.nodes[t[j]].exists
    BY <2>1, <2>4, <2>5
  <2>11. D.nodes[t[j]].prevId = At(t, j - 1)
    BY <1>6, <2>1, <2>4, <2>5, <2>7, <2>8
  <2>12. D.nodes[t[j]].nextId = At(t, j + 1)
    BY <1>7, <2>1, <2>4, <2>5, <2>6, <2>9
  <2> QED
    BY <2>10, <2>11, <2>12
<1>27. ASSUME NEW x \in Ids, \A j \in 1..(n - 1) : t[j] # x
       PROVE  D.nodes[x] = EmptyNode
  <2>1. CASE x = id
    BY <1>18, <2>1
  <2>2. CASE x # id
    <3>1. ASSUME NEW j \in 1..n PROVE s[j] # x
      <4>1. CASE j < i
        <5>1. j \in 1..(n - 1) /\ t[j] = s[j]
          BY <1>4, <1>21, <4>1
        <5> QED
          BY <1>27, <5>1
      <4>2. CASE j = i
        BY <2>2, <4>2
      <4>3. CASE j > i
        <5>1. j - 1 \in 1..(n - 1) /\ ~ (j - 1 < i) /\ j - 1 + 1 = j
          BY <1>4, <4>3
        <5>2. t[j - 1] = s[j]
          BY <1>21, <5>1
        <5> QED
          BY <1>27, <5>1, <5>2
      <4>4. j < i \/ j = i \/ j > i
        BY <1>4
      <4> QED
        BY <4>1, <4>2, <4>3, <4>4
    <3>2. d.nodes[x] = EmptyNode
      BY <1>3, <3>1
    <3>3. CASE x = Null
      <4>1. D.nodes[Null] = L.nodes[Null]
        BY <1>5, <1>18
      <4>2. L.nodes[Null] = d.nodes[Null]
        BY <1>17
      <4> QED
        BY <3>2, <3>3, <4>1, <4>2
    <3>4. CASE x # Null
      <4>1. x # prev
        <5>1. i = 1 \/ i > 1
          BY <1>4
        <5> QED
          BY <1>9, <1>10, <3>1, <3>4, <5>1
      <4>2. x # next
        <5>1. i = n \/ i < n
          BY <1>4
        <5> QED
          BY <1>9, <1>11, <3>1, <3>4, <5>1
      <4>3. x \in Ids \ {id, Null}
        BY <2>2, <3>4
      <4>4. x # prev /\ x # next => D.nodes[x] = d.nodes[x]
        BY <1>19, <4>3
      <4> QED
        BY <3>2, <4>1, <4>2, <4>4
    <3> QED
      BY <3>3, <3>4
  <2> QED
    BY <2>1, <2>2
<1>28. Linked(D, t)
  BY <1>18, <1>21, <1>23, <1>25, <1>26, <1>27 DEF Linked
<1>29. Rekeyed(d, D, id, 0, 0, 0)
  <2>1. D.nodes[Null] = d.nodes[Null]
    BY <1>5, <1>17, <1>18
  <2>2. D.nodes[id].oldBoostedAICR = 0 /\ D.nodes[id].boost = 0 /\ D.nodes[id].since = 0
    BY <1>18 DEF EmptyNode
  <2> QED
    BY <1>19, <2>1, <2>2 DEF Rekeyed
<1>30. ~ contains(D, id)
  BY <1>18 DEF contains, EmptyNode
<1> QED
  BY <1>20, <1>28, <1>29, <1>30

-----------------------------------------------------------------------------
(* Insertion and re-insertion, from one list to the next. *)

\* From d to e the trove id is put into a gap of the sequence s.
Inserts(d, e, s, id, key, boost, since) ==
    /\ \E k \in 0..Len(s) : /\ KeyFits(d, s, k, key)
                            /\ Linked(e, InsertAt(s, k + 1, id))
    /\ Rekeyed(d, e, id, key, boost, since) /\ contains(e, id)

\* _insert, with any hints, puts a trove that is not listed into a gap that its
\* key fits into.
LEMMA InsertNodeInserts ==
    ASSUME NEW d, NEW s, Linked(d, s), NEW id \in Borrowers, ~ contains(d, id),
           NEW AICR \in Nat, NEW prevHint \in Ids, NEW nextHint \in Ids,
           NEW boost \in Nat, now \in Nat
    PROVE  Inserts(d, InsertNode(d, id, AICR, prevHint, nextHint, boost), s, id,
                   AICR + boost, boost, now)
<1>1. PICK key \in Nat : key = AICR + boost
  OBVIOUS
<1>2. PICK since \in Nat : since = now
  OBVIOUS
<1>3. PICK pos : pos = IF ValidInsertPosition(d, key, prevHint, nextHint)
                       THEN <<prevHint, nextHint>>
                       ELSE FindInsertPosition(d, key, prevHint, nextHint)
  OBVIOUS
<1>4. PICK prev \in Ids, next \in Ids : pos = <<prev, next>> /\ IsGap(d, s, key, prev, next)
  <2>1. CASE ValidInsertPosition(d, key, prevHint, nextHint)
    <3>1. IsGap(d, s, key, prevHint, nextHint)
      BY <2>1, ValidIsGap
    <3> QED
      BY <1>3, <2>1, <3>1
  <2>2. CASE ~ ValidInsertPosition(d, key, prevHint, nextHint)
    <3>1. \E p, m \in Ids : /\ FindInsertPosition(d, key, prevHint, nextHint) = <<p, m>>
                            /\ IsGap(d, s, key, p, m)
      BY FindsGap
    <3> QED
      BY <1>3, <2>2, <3>1
  <2> QED
    BY <2>1, <2>2
<1>5. PICK k \in 0..Len(s) : /\ prev = At(s, k) /\ next = At(s, k + 1)
                             /\ KeyFits(d, s, k, key)
  BY <1>4 DEF IsGap
<1>6. PICK D : D = Written(LinkNode(d, id, prev, next), id, key, boost, since)
  OBVIOUS
<1>7. /\ Linked(D, InsertAt(s, k + 1, id))
      /\ Rekeyed(d, D, id, key, boost, since) /\ contains(D, id)
  BY <1>5, <1>6, InsertLinks
<1>8. InsertNode(d, id, AICR, prevHint, nextHint, boost) = D
  <2>1. pos[1] = prev /\ pos[2] = next
    BY <1>4
  <2>2. InsertNode(d, id, AICR, prevHint, nextHint, boost)
           = [LinkNode(d, id, pos[1], pos[2]) EXCEPT
                 !.nodes[id].exists = TRUE,
                 !.nodes[id].oldBoostedAICR = key,
                 !.nodes[id].boost = boost,
                 !.nodes[id].since = since,
                 !.size = @ + 1]
    BY <1>1, <1>2, <1>3 DEF InsertNode
  <2> QED
    BY <1>6, <2>1, <2>2 DEF Written
<1>9. Inserts(d, D, s, id, key, boost, since)
  BY <1>5, <1>7 DEF Inserts
<1> QED
  BY <1>1, <1>2, <1>8, <1>9

\* From d to e the trove id is taken out of the sequence s and put into a gap of
\* what is left.
Moves(d, e, s, id, key, boost, since) ==
    /\ \E i \in 1..Len(s) :
          /\ s[i] = id
          /\ \E k \in 0..Len(RemoveAt(s, i)) :
                /\ KeyFits(d, RemoveAt(s, i), k, key)
                /\ Linked(e, InsertAt(RemoveAt(s, i), k + 1, id))
    /\ Rekeyed(d, e, id, key, boost, since) /\ contains(e, id)

\* _reInsert removes a listed trove and inserts it again.
LEMMA ReInsertMoves ==
    ASSUME NEW d, NEW s, Linked(d, s), NEW id \in Borrowers, contains(d, id),
           NEW AICR \in Nat, NEW prevHint \in Ids, NEW nextHint \in Ids,
           NEW boost \in Nat, now \in Nat
    PROVE  Moves(d, InsertNode(RemoveNode(d, id), id, AICR, prevHint, nextHint, boost), s, id,
                 AICR + boost, boost, now)
<1>1. PICK i \in 1..Len(s) : s[i] = id
  <2>1. id \in Ids
    BY DEF Ids
  <2> QED
    BY <2>1, ListedAt
<1>2. PICK r : r = RemoveNode(d, id)
  OBVIOUS
<1>3. PICK t : t = RemoveAt(s, i)
  OBVIOUS
<1>4. Linked(r, t) /\ Rekeyed(d, r, id, 0, 0, 0)
  BY <1>1, <1>2, <1>3, RemoveLinks
<1>5. /\ t \in Seq(Borrowers) /\ Len(s) \in Nat /\ Len(t) = Len(s) - 1
      /\ \A j \in 1..(Len(s) - 1) : t[j] = IF j < i THEN s[j] ELSE s[j + 1]
  <2>1. s \in Seq(Borrowers) /\ i \in 1..Len(s)
    BY DEF Linked
  <2>2. /\ RemoveAt(s, i) \in Seq(Borrowers) /\ Len(RemoveAt(s, i)) = Len(s) - 1
        /\ \A j \in 1..(Len(s) - 1) : RemoveAt(s, i)[j] = IF j < i THEN s[j] ELSE s[j + 1]
    BY <2>1, RemoveAtProperties
  <2> QED
    BY <1>3, <2>1, <2>2, LenProperties
<1>6. \A j \in 1..Len(t) : t[j] \in Ids \ {id}
  <2> TAKE j \in 1..Len(t)
  <2>1. t[j] \in Ids
    BY <1>4, Positions
  <2>2. t[j] # id
    <3>1. PICK m \in 1..Len(s) : m # i /\ t[j] = s[m]
      <4>1. CASE j < i
        <5>1. j \in 1..Len(s) /\ j \in 1..(Len(s) - 1) /\ j # i
          BY <1>5, <4>1
        <5> QED
          BY <1>5, <4>1, <5>1
      <4>2. CASE ~ (j < i)
        <5>1. j + 1 \in 1..Len(s) /\ j \in 1..(Len(s) - 1) /\ j + 1 # i
          BY <1>5, <4>2
        <5> QED
          BY <1>5, <4>2, <5>1
      <4> QED
        BY <4>1, <4>2
    <3>2. s[m] = s[i] => m = i
      BY DEF Linked
    <3> QED
      BY <1>1, <3>1, <3>2
  <2> QED
    BY <2>1, <2>2
<1>7. ~ contains(r, id)
  <2>1. id \in Ids
    BY DEF Ids
  <2>2. contains(r, id) => \E j \in 1..Len(t) : t[j] = id
    BY <1>4, <2>1, ListedAt
  <2> QED
    BY <1>6, <2>2
<1>8. PICK e : e = InsertNode(r, id, AICR, prevHint, nextHint, boost)
  OBVIOUS
<1>9. PICK key \in Nat : key = AICR + boost
  OBVIOUS
<1>10. Inserts(r, e, t, id, key, boost, now)
  BY <1>4, <1>7, <1>8, <1>9, InsertNodeInserts
<1>11. PICK k \in 0..Len(t) : KeyFits(r, t, k, key) /\ Linked(e, InsertAt(t, k + 1, id))
  BY <1>10 DEF Inserts
<1>12. KeyFits(d, t, k, key)
  <2>1. \A j \in 1..Len(t) : r.nodes[t[j]].oldBoostedAICR = d.nodes[t[j]].oldBoostedAICR
    BY <1>4, <1>6 DEF Rekeyed
  <2>2. Len(t) \in Nat /\ (k > 0 => k \in 1..Len(t)) /\ (k < Len(t) => k + 1 \in 1..Len(t))
    BY <1>5, LenProperties
  <2> QED
    BY <1>11, <2>1, <2>2 DEF KeyFits
<1>13. Rekeyed(d, e, id, key, boost, now) /\ contains(e, id)
  <2>1. Rekeyed(r, e, id, key, boost, now) /\ contains(e, id)
    BY <1>10 DEF Inserts
  <2> QED
    BY <1>4, <2>1 DEF Rekeyed
<1>14. Moves(d, e, s, id, key, boost, now)
  BY <1>1, <1>3, <1>11, <1>12, <1>13 DEF Moves
<1> QED
  BY <1>2, <1>8, <1>9, <1>14

-----------------------------------------------------------------------------

\* The walk over nextId meets the list in order.
LEMMA WalkMeets ==
    ASSUME NEW d, NEW s, Linked(d, s)
    PROVE  LET step[i \in 1..d.size] ==
                  IF i = 1 THEN d.head ELSE d.nodes[step[i - 1]].nextId
           IN  [i \in 1..d.size |-> step[i]] = s
<1>1. PICK n \in Nat : n = Len(s)
  BY Positions
<1>2. /\ d.size = n /\ s \in Seq(Borrowers) /\ d.head = At(s, 1)
      /\ \A i \in 1..n : d.nodes[s[i]].nextId = At(s, i + 1) /\ At(s, i) = s[i]
  BY <1>1, Positions DEF Linked
<1> DEFINE E(h) == [i \in 1..d.size |-> IF i = 1 THEN d.head ELSE d.nodes[h[i - 1]].nextId]
           step == CHOOSE h : h = E(h)
<1>3. s = [i \in 1..n |-> s[i]]
  BY <1>1, <1>2
<1>4. ASSUME NEW i \in 1..n PROVE s[i] = E(s)[i]
  <2>1. E(s)[i] = IF i = 1 THEN d.head ELSE d.nodes[s[i - 1]].nextId
    BY <1>2
  <2>2. CASE i = 1
    <3>1. At(s, 1) = s[1]
      BY <1>2, <2>2
    <3> QED
      BY <1>2, <2>1, <2>2, <3>1
  <2>3. CASE i # 1
    <3>1. i - 1 \in 1..n /\ i - 1 + 1 = i
      BY <2>3
    <3>2. d.nodes[s[i - 1]].nextId = s[i]
      BY <1>2, <3>1
    <3> QED
      BY <2>1, <2>3, <3>2
  <2> QED
    BY <2>2, <2>3
<1>5. s = E(s)
  BY <1>2, <1>3, <1>4
<1>6. step = E(step)
  <2> HIDE DEF E
  <2> QED
    BY <1>5
<1>7. PICK f : f = step
  OBVIOUS
<1>8. f = E(f)
  <2> HIDE DEF E, step
  <2> QED
    BY <1>6, <1>7
<1> HIDE DEF step
<1>9. ASSUME NEW i \in 1..n PROVE f[i] = IF i = 1 THEN d.head ELSE d.nodes[f[i - 1]].nextId
  <2>1. E(f)[i] = IF i = 1 THEN d.head ELSE d.nodes[f[i - 1]].nextId
    BY <1>2
  <2> QED
    BY <1>8, <2>1
<1>10. \A i \in 1..n : f[i] = s[i]
  <2> DEFINE B == {i \in 1..n : f[i] # s[i]}
  <2> SUFFICES ASSUME B # {} PROVE FALSE
    OBVIOUS
  <2>1. PICK m \in B : \A x \in B : m <= x
    <3>1. B \subseteq Nat
      OBVIOUS
    <3> HIDE DEF B
    <3> QED
      BY <3>1, LeastNumber
  <2>2. s[m] = IF m = 1 THEN d.head ELSE d.nodes[s[m - 1]].nextId
    <3>1. E(s)[m] = IF m = 1 THEN d.head ELSE d.nodes[s[m - 1]].nextId
      BY <1>2
    <3> QED
      BY <1>4, <3>1
  <2>3. f[m] = IF m = 1 THEN d.head ELSE d.nodes[f[m - 1]].nextId
    BY <1>9
  <2>4. m # 1
    BY <2>2, <2>3
  <2>5. m - 1 \in 1..n /\ m - 1 \notin B
    BY <2>1, <2>4
  <2>6. f[m - 1] = s[m - 1]
    BY <2>5
  <2> QED
    BY <2>2, <2>3, <2>6
<1>11. [i \in 1..d.size |-> step[i]] = s
  BY <1>2, <1>3, <1>7, <1>10
<1> QED
  BY <1>11 DEF step, E

-----------------------------------------------------------------------------
(* Boosts. *)

\* A finite set of numbers has a largest one.
LEMMA LargestIs ==
    ASSUME NEW S, IsFiniteSet(S), S \subseteq Nat, S # {}
    PROVE  LargestOf(S) \in S /\ \A x \in S : LargestOf(S) >= x
<1> DEFINE f == [x \in S |-> x]
<1>1. PICK n : n = SumFunctionOnSet(f, S)
  OBVIOUS
<1>2. n \in Nat /\ \A x \in S : f[x] <= n
  <2>1. \A x \in S : f[x] \in Nat
    OBVIOUS
  <2> HIDE DEF f
  <2> QED
    BY <1>1, <2>1, SumNat
<1>3. S \subseteq 0..n
  <2> SUFFICES ASSUME NEW x \in S PROVE x \in 0..n
    OBVIOUS
  <2>1. f[x] = x /\ x \in Nat
    OBVIOUS
  <2> QED
    BY <1>2, <2>1
<1>4. \E m \in S : \A x \in S : x <= m
  BY <1>2, <1>3, LargestNumber
<1>5. \E m \in S : \A x \in S : m >= x
  <2>1. PICK m \in S : \A x \in S : x <= m
    BY <1>4
  <2>2. \A x \in S : m >= x
    <3> SUFFICES ASSUME NEW x \in S PROVE m >= x
      OBVIOUS
    <3>1. x \in Nat /\ m \in Nat /\ x <= m
      BY <2>1
    <3> QED
      BY <3>1
  <2> QED
    BY <2>2
<1> QED
  BY <1>5 DEF LargestOf

\* No fee, no factor and so no boost is above the largest.
LEMMA LargestBoost ==
    /\ MaxFee \in Nat /\ MaxBoost \in Nat
    /\ \A fee \in BoostFees : fee \in Nat /\ fee <= MaxFee
    /\ \A factor \in BoostFactors \cup {0} : factor \in Nat /\ MaxFee * factor <= MaxBoost
<1>1. PICK top : top = LargestOf(BoostFactors \cup {0})
  OBVIOUS
<1>2. /\ BoostFees \cup {0} \subseteq Nat /\ IsFiniteSet(BoostFees \cup {0})
      /\ BoostFactors \cup {0} \subseteq Nat /\ IsFiniteSet(BoostFactors \cup {0})
  BY SortedTrovesAssumption, FS_AddElement
<1>3. MaxFee \in BoostFees \cup {0} /\ \A x \in BoostFees \cup {0} : MaxFee >= x
  BY <1>2, LargestIs DEF MaxFee
<1>4. top \in BoostFactors \cup {0} /\ \A x \in BoostFactors \cup {0} : top >= x
  BY <1>1, <1>2, LargestIs
<1>5. MaxFee \in Nat /\ top \in Nat /\ MaxBoost = MaxFee * top
  BY <1>1, <1>2, <1>3, <1>4 DEF MaxBoost
<1>6. MaxBoost \in Nat
  BY <1>5, NatProduct
<1>7. ASSUME NEW fee \in BoostFees PROVE fee \in Nat /\ fee <= MaxFee
  <2>1. fee \in Nat /\ MaxFee >= fee
    BY <1>2, <1>3
  <2> QED
    BY <1>5, <2>1
<1>8. ASSUME NEW factor \in BoostFactors \cup {0}
      PROVE  factor \in Nat /\ MaxFee * factor <= MaxBoost
  <2>1. factor \in Nat /\ factor <= top
    BY <1>2, <1>4
  <2>2. MaxFee * factor <= MaxFee * top
    BY <1>5, <2>1, TimesMonotone
  <2> QED
    BY <1>5, <2>1, <2>2
<1> QED
  BY <1>5, <1>6, <1>7, <1>8

\* The powers of a base are positive and grow.
LEMMA PowersOfBase ==
    ASSUME NEW base \in DecayBases, NEW p, p = DecPow(base)
    PROVE  /\ p[0] = 1
           /\ \A n \in Nat : p[n] \in Nat \ {0} /\ p[n] <= p[n + 1]
<1>0. base \in Nat \ {0}
  BY SortedTrovesAssumption
<1> DEFINE E(h) == [n \in Nat |-> IF n = 0 THEN 1 ELSE base * h[n - 1]]
<1>1. PICK q : q = E(q)
  BY <1>0, PowersExist DEF Powers
<1>2. p = CHOOSE h : h = E(h)
  BY DEF DecPow
<1>3. p = E(p)
  <2> HIDE DEF E
  <2> QED
    BY <1>1, <1>2
<1>4. p[0] = 1 /\ \A n \in Nat : n # 0 => p[n] = base * p[n - 1]
  <2>1. \A n \in Nat : E(p)[n] = IF n = 0 THEN 1 ELSE base * p[n - 1]
    OBVIOUS
  <2> HIDE DEF E
  <2>2. \A n \in Nat : p[n] = IF n = 0 THEN 1 ELSE base * p[n - 1]
    BY <1>3, <2>1
  <2> QED
    BY <2>2
<1> HIDE DEF E
<1>5. \A n \in Nat : p[n] \in Nat \ {0}
  <2> DEFINE B == {n \in Nat : p[n] \notin Nat \ {0}}
  <2> SUFFICES ASSUME B # {} PROVE FALSE
    OBVIOUS
  <2>1. PICK m \in B : \A x \in B : m <= x
    <3>1. B \subseteq Nat
      OBVIOUS
    <3> HIDE DEF B
    <3> QED
      BY <3>1, LeastNumber
  <2>2. m # 0
    BY <1>4
  <2>3. m - 1 \in Nat /\ m - 1 \notin B
    BY <2>1, <2>2
  <2>4. p[m - 1] \in Nat \ {0}
    BY <2>3
  <2>5. base * p[m - 1] \in Nat \ {0}
    BY <1>0, <2>4, PositiveProduct
  <2>6. p[m] = base * p[m - 1]
    BY <1>4, <2>2
  <2> QED
    BY <2>5, <2>6
<1>6. ASSUME NEW n \in Nat PROVE p[n] <= p[n + 1]
  <2>1. n + 1 \in Nat /\ n + 1 # 0 /\ n + 1 - 1 = n
    OBVIOUS
  <2>2. p[n + 1] = base * p[n]
    BY <1>4, <2>1
  <2>3. PICK x \in Nat : x = p[n]
    BY <1>5
  <2>4. 1 * x <= base * x
    <3>1. 1 \in Int /\ base \in Int /\ 1 <= base
      BY <1>0
    <3> QED
      BY <3>1, TimesMonotone
  <2> QED
    BY <2>2, <2>3, <2>4
<1> QED
  BY <1>4, <1>5, <1>6

\* A boost divided by a positive number is a number up to the boost, and the
\* larger the divisor, the smaller it is.
LEMMA DividedBoost ==
    ASSUME NEW boost \in Nat, NEW d \in Nat \ {0}
    PROVE  boost \div d \in 0..boost
<1>1. boost \div d \in Nat
  BY QuotientNat
<1>2. boost <= boost * d
  <2>1. 1 \in Int /\ d \in Int /\ 1 <= d
    OBVIOUS
  <2>2. boost * 1 <= boost * d
    BY <2>1, TimesMonotone
  <2> QED
    BY <2>2
<1>3. boost \div d <= boost
  BY <1>2, QuotientAtMost
<1> QED
  BY <1>1, <1>3

\* Dividing by more leaves no more.
LEMMA DividedFurther ==
    ASSUME NEW boost \in Nat, NEW d \in Nat \ {0}, NEW e \in Nat \ {0}, d <= e
    PROVE  boost \div e <= boost \div d
<1>1. PICK q \in Nat : q = boost \div d
  BY QuotientNat
<1>2. boost < (q + 1) * d
  BY <1>1, QuotientBounds
<1>3. (q + 1) * d <= (q + 1) * e
  BY TimesMonotone
<1>4. PICK r \in Nat : r = boost \div e
  BY QuotientNat
<1>5. r * e <= boost
  BY <1>4, QuotientBounds
<1>6. (q + 1) * d \in Int /\ (q + 1) * e \in Int /\ r * e \in Int
  OBVIOUS
<1>7. r * e < (q + 1) * e
  BY <1>2, <1>3, <1>5, <1>6
<1>8. r < q + 1
  <2> SUFFICES ASSUME q + 1 <= r PROVE FALSE
    OBVIOUS
  <2>1. (q + 1) * e <= r * e
    BY TimesMonotone
  <2> QED
    BY <1>6, <1>7, <2>1
<1> QED
  BY <1>1, <1>4, <1>8

\* A weighted mean is not above both values.
LEMMA MeanBetween ==
    ASSUME NEW a \in Nat, NEW b \in Nat, NEW v \in Nat, NEW w \in Nat, v + w > 0,
           NEW m \in Nat, a <= m, b <= m
    PROVE  (a * v + b * w) \div (v + w) \in 0..m
<1>1. a * v <= m * v /\ b * w <= m * w
  BY TimesMonotone
<1>2. m * v + m * w = m * (v + w)
  OBVIOUS
<1>3. a * v \in Nat /\ b * w \in Nat /\ m * v \in Nat /\ m * w \in Nat
  BY NatProduct
<1>4. PICK x \in Nat : x = a * v + b * w
  BY <1>3
<1>5. PICK n \in Nat \ {0} : n = v + w
  OBVIOUS
<1>6. x <= m * n
  BY <1>1, <1>2, <1>3, <1>4, <1>5
<1>7. x \div n \in Nat /\ x \div n <= m
  BY <1>6, QuotientNat, QuotientAtMost
<1> QED
  BY <1>4, <1>5, <1>7

\* What is left of a boost is not more than the boost.
LEMMA DecayedAtMost ==
    ASSUME NEW boost \in Nat, NEW since \in Nat, since <= now, now \in Nat,
           boostMinuteDecayFactor \in DecayBases
    PROVE  CalculateDecayedBoost(boost, since) \in 0..boost
<1>1. PICK base \in DecayBases : base = boostMinuteDecayFactor
  OBVIOUS
<1>2. PICK t \in Nat : t = now - since
  OBVIOUS
<1>3. PICK p : p = DecPow(base)
  OBVIOUS
<1>4. p[t] \in Nat \ {0}
  BY <1>3, PowersOfBase
<1>5. boost \div p[t] \in 0..boost
  BY <1>4, DividedBoost
<1> QED
  BY <1>1, <1>2, <1>3, <1>5 DEF CalculateDecayedBoost

\* A boost that a fee is added to is not above both what was left of it and
\* the new fee's boost.
LEMMA WeightedAtMost ==
    ASSUME NEW decayed \in Nat, NEW fee \in BoostFees, NEW w \in VCWeights,
           globalBoostFactor \in BoostFactors \cup {0},
           NEW new, new = MaxFee * globalBoostFactor,
           NEW r, r = WeightedBoost(decayed, fee, w)
    PROVE  /\ r \in Nat /\ new \in Nat /\ new <= MaxBoost
           /\ r <= decayed \/ r <= NewBoost(fee)
           /\ NewBoost(fee) \in Nat /\ NewBoost(fee) <= new
<1>1. PICK factor \in BoostFactors \cup {0} : factor = globalBoostFactor
  OBVIOUS
<1>2. /\ factor \in Nat /\ MaxFee \in Nat /\ MaxBoost \in Nat
      /\ fee \in Nat /\ fee <= MaxFee /\ MaxFee * factor <= MaxBoost
  BY LargestBoost
<1>3. new \in Nat /\ new <= MaxBoost
  BY <1>1, <1>2, NatProduct
<1>4. PICK x \in Nat : x = fee * factor
  BY <1>2, NatProduct
<1>5. x <= new
  <2>1. fee * factor <= MaxFee * factor
    BY <1>2, TimesMonotone
  <2> QED
    BY <1>1, <1>4, <2>1
<1>6. NewBoost(fee) = x
  BY <1>1, <1>4 DEF NewBoost
<1>7. PICK v \in Nat, u \in Nat : v = w[1] /\ u = w[2] /\ v + u > 0
  BY SortedTrovesAssumption
<1>8. r = (decayed * v + x * u) \div (v + u)
  BY <1>6, <1>7 DEF WeightedBoost
<1>9. CASE decayed <= x
  <2>1. r \in 0..x
    <3>1. x \in Nat /\ decayed \in Nat /\ decayed <= x /\ x <= x
      BY <1>4, <1>9
    <3>2. (decayed * v + x * u) \div (v + u) \in 0..x
      BY <1>7, <3>1, MeanBetween
    <3> QED
      BY <1>8, <3>2
  <2> QED
    BY <1>3, <1>5, <1>6, <2>1
<1>10. CASE x <= decayed
  <2>1. r \in 0..decayed
    <3>1. x \in Nat /\ decayed \in Nat /\ decayed <= decayed /\ x <= decayed
      BY <1>4, <1>10
    <3>2. (decayed * v + x * u) \div (v + u) \in 0..decayed
      BY <1>7, <3>1, MeanBetween
    <3> QED
      BY <1>8, <3>2
  <2> QED
    BY <1>3, <1>5, <1>6, <2>1
<1> QED
  BY <1>9, <1>10

-----------------------------------------------------------------------------
(* The array of owners. *)

\* The array, the indexes and the statuses say the same.
OwnersInv == OwnersTypeOK /\ OwnersIndexed

\* Nobody owns a trove at first.
LEMMA OwnersInvInit == OwnersInit => OwnersInv
    BY DEF OwnersInit, OwnersInv, OwnersTypeOK, OwnersIndexed, Status

\* Appending a new owner gives it the index one past the old last slot.
LEMMA AddKeepsOwnersInv ==
    ASSUME OwnersInv, NEW b \in Borrowers, AddTroveOwner(b)
    PROVE  OwnersInv' /\ Len(TroveOwners') = Len(TroveOwners) + 1
<1> USE DEF OwnersInv, OwnersTypeOK, OwnersIndexed
<1>1. /\ TroveOwners' \in Seq(Borrowers)
      /\ Len(TroveOwners') = Len(TroveOwners) + 1
      /\ Len(TroveOwners) \in Nat
      /\ \A i \in 1..Len(TroveOwners) : TroveOwners'[i] = TroveOwners[i]
      /\ TroveOwners'[Len(TroveOwners) + 1] = b
    BY AppendProperties, LenProperties DEF AddTroveOwner
<1>2. OwnersTypeOK'
    BY <1>1 DEF AddTroveOwner, Status
<1>3. \A i \in 1..Len(TroveOwners) : TroveOwners[i] # b
    BY DEF AddTroveOwner
<1>4. ASSUME NEW c \in Borrowers, status'[c] = "active"
      PROVE  /\ arrayIndex'[c] < Len(TroveOwners')
             /\ TroveOwners'[arrayIndex'[c] + 1] = c
    <2>1. CASE c = b
        BY <1>1, <2>1 DEF AddTroveOwner
    <2>2. CASE c # b
        BY <1>1, <1>4, <2>2 DEF AddTroveOwner
    <2>3. QED
        BY <2>1, <2>2
<1>5. ASSUME NEW i \in 1..Len(TroveOwners')
      PROVE  /\ status'[TroveOwners'[i]] = "active"
             /\ arrayIndex'[TroveOwners'[i]] = i - 1
    <2>1. CASE i = Len(TroveOwners) + 1
        BY <1>1, <2>1 DEF AddTroveOwner
    <2>2. CASE i \in 1..Len(TroveOwners)
        <3>1. TroveOwners[i] \in Borrowers /\ TroveOwners[i] # b
            BY <1>3, <2>2, ElementOfSeq
        <3>2. QED
            BY <1>1, <2>2, <3>1 DEF AddTroveOwner
    <2>3. QED
        BY <1>1, <2>1, <2>2
<1>6. QED
    BY <1>1, <1>2, <1>4, <1>5

\* Moving the last owner into the freed slot and popping: the moved owner's
\* index is the freed one, everybody else's is unchanged.
LEMMA RemoveKeepsOwnersInv ==
    ASSUME OwnersInv, NEW b \in Borrowers, RemoveTroveOwner(b)
    PROVE  OwnersInv' /\ Len(TroveOwners') = Len(TroveOwners) - 1
<1> USE DEF OwnersInv, OwnersTypeOK, OwnersIndexed
<1> DEFINE n == Len(TroveOwners)
           k == arrayIndex[b] + 1
           last == TroveOwners[n]
           moved == [TroveOwners EXCEPT ![k] = last]
<1>1. /\ n \in Nat /\ n > 1 /\ k \in 1..n
      /\ n = Len(TroveOwners) /\ k - 1 = arrayIndex[b]
      /\ TroveOwners[k] = b /\ TroveOwners[n] = last /\ last \in Borrowers
    BY LenProperties, ElementOfSeq DEF RemoveTroveOwner
<1>2. /\ status[last] = "active" /\ arrayIndex[last] = n - 1
      /\ k - 1 \in Nat
      /\ \A c \in Borrowers : arrayIndex[c] \in Nat
    BY <1>1
<1>3. /\ moved \in Seq(Borrowers)
      /\ Len(moved) = n
      /\ \A j \in 1..n : moved[j] = IF j = k THEN last ELSE TroveOwners[j]
    BY <1>1, ExceptSeq
<1>4. /\ TroveOwners' \in Seq(Borrowers)
      /\ Len(TroveOwners') = n - 1
      /\ \A j \in 1..(n - 1) : TroveOwners'[j] = IF j = k THEN last ELSE TroveOwners[j]
    <2>1. TroveOwners' = Front(moved)
        BY DEF RemoveTroveOwner
    <2>2. moved # <<>>
        BY <1>1, <1>3, EmptySeq
    <2> HIDE DEF moved, n, k, last
    <2>3. /\ Front(moved) \in Seq(Borrowers)
          /\ Len(Front(moved)) = Len(moved) - 1
          /\ \A j \in 1..(Len(moved) - 1) : Front(moved)[j] = moved[j]
        BY <1>3, <2>2, FrontProperties
    <2>4. QED
        BY <1>1, <1>3, <2>1, <2>3
<1>5. /\ status' = [status EXCEPT ![b] = "closed"]
      /\ arrayIndex' = [arrayIndex EXCEPT ![last] = k - 1]
      /\ k - 1 = arrayIndex[b]
    BY <1>1 DEF RemoveTroveOwner
<1>6. OwnersTypeOK'
    BY <1>1, <1>4, <1>5 DEF Status
<1> HIDE DEF moved, n, k, last
<1>7. ASSUME NEW c \in Borrowers, status'[c] = "active"
      PROVE  /\ arrayIndex'[c] < Len(TroveOwners')
             /\ TroveOwners'[arrayIndex'[c] + 1] = c
    <2>1. c # b /\ status[c] = "active"
        BY <1>5, <1>7
    <2>2. CASE c = last
        <3>1. k # n
            BY <1>1, <2>1, <2>2
        <3>2. arrayIndex'[c] = k - 1 /\ k - 1 < n - 1 /\ k \in 1..(n - 1)
            BY <1>1, <1>5, <1>2, <2>2, <3>1
        <3>3. TroveOwners'[k] = c /\ k - 1 + 1 = k
            BY <1>1, <1>4, <2>2, <3>2
        <3>4. QED
            BY <1>4, <3>2, <3>3
    <2>3. CASE c # last
        <3>1. /\ arrayIndex'[c] = arrayIndex[c]
              /\ arrayIndex[c] + 1 \in 1..n
              /\ TroveOwners[arrayIndex[c] + 1] = c
            BY <1>1, <1>2, <1>5, <2>1, <2>3
        <3>2. arrayIndex[c] + 1 # n /\ arrayIndex[c] + 1 # k
            BY <1>1, <1>2, <2>1, <2>3, <3>1
        <3>3. arrayIndex[c] + 1 \in 1..(n - 1) /\ arrayIndex[c] < n - 1
            BY <1>1, <1>2, <3>1, <3>2
        <3>4. QED
            BY <1>4, <3>1, <3>2, <3>3
    <2>4. QED
        BY <2>2, <2>3
<1>8. ASSUME NEW i \in 1..Len(TroveOwners')
      PROVE  /\ status'[TroveOwners'[i]] = "active"
             /\ arrayIndex'[TroveOwners'[i]] = i - 1
    <2>1. i \in 1..(n - 1) /\ i \in 1..n
        BY <1>1, <1>4
    <2>2. CASE i = k
        <3>1. TroveOwners'[i] = last
            BY <1>4, <2>1, <2>2
        <3>2. last # b
            BY <1>1, <1>2, <2>1, <2>2
        <3>3. QED
            BY <1>1, <1>5, <1>2, <2>2, <3>1, <3>2
    <2>3. CASE i # k
        <3>1. TroveOwners'[i] = TroveOwners[i]
            BY <1>4, <2>1, <2>3
        <3>2. /\ TroveOwners[i] \in Borrowers
              /\ status[TroveOwners[i]] = "active"
              /\ arrayIndex[TroveOwners[i]] = i - 1
            BY <1>1, <2>1, ElementOfSeq
        <3>3. TroveOwners[i] # b
            BY <1>1, <1>2, <2>1, <2>3, <3>2
        <3>4. TroveOwners[i] # last
            BY <1>1, <1>2, <2>1, <2>3, <3>2
        <3>5. QED
            BY <1>5, <3>1, <3>2, <3>3, <3>4
    <2>4. QED
        BY <2>2, <2>3
<1>9. QED
    BY <1>1, <1>4, <1>6, <1>7, <1>8

\* Both operations keep it.
LEMMA OwnersInvNext == OwnersInv /\ [OwnersNext]_ownerVars => OwnersInv'
<1> SUFFICES ASSUME OwnersInv, [OwnersNext]_ownerVars
             PROVE  OwnersInv'
    OBVIOUS
<1>1. CASE UNCHANGED ownerVars
    BY <1>1 DEF ownerVars, OwnersInv, OwnersTypeOK, OwnersIndexed
<1>2. ASSUME NEW b \in Borrowers, AddTroveOwner(b)
      PROVE  OwnersInv'
    BY <1>2, AddKeepsOwnersInv
<1>3. ASSUME NEW b \in Borrowers, RemoveTroveOwner(b)
      PROVE  OwnersInv'
    BY <1>3, RemoveKeepsOwnersInv
<1>4. QED
    BY <1>1, <1>2, <1>3 DEF OwnersNext

\* In every reachable state TroveOwners enumerates exactly the active troves
\* and every active trove's arrayIndex is its slot (TroveManager.sol, _closeTrove
\* and _removeTroveOwner), however many borrowers there are.
THEOREM OwnersCorrect == OwnersSpec => []OwnersIndexed
<1>1. OwnersInit => OwnersInv
    BY OwnersInvInit
<1>2. OwnersInv /\ [OwnersNext]_ownerVars => OwnersInv'
    BY OwnersInvNext
<1>3. OwnersInv => OwnersIndexed
    BY DEF OwnersInv
<1>4. QED
    BY <1>1, <1>2, <1>3, PTL DEF OwnersSpec

\* _requireMoreThanOneTroveInSystem: once a trove exists, the array is never
\* empty again.
THEOREM OwnersNeverEmptied == OwnersSpec => NeverEmptied
<1>1. OwnersInv /\ [OwnersNext]_ownerVars
          => [TroveOwners # <<>> => TroveOwners' # <<>>]_ownerVars
    <2> SUFFICES ASSUME OwnersInv, OwnersNext, TroveOwners # <<>>
                 PROVE  TroveOwners' # <<>>
        BY DEF ownerVars
    <2> USE DEF OwnersInv, OwnersTypeOK
    <2>1. ASSUME NEW b \in Borrowers, AddTroveOwner(b)
          PROVE  TroveOwners' # <<>>
        BY <2>1, AppendProperties DEF AddTroveOwner
    <2>2. ASSUME NEW b \in Borrowers, RemoveTroveOwner(b)
          PROVE  TroveOwners' # <<>>
        <3> DEFINE moved == [TroveOwners EXCEPT
                        ![arrayIndex[b] + 1] = TroveOwners[Len(TroveOwners)]]
        <3>1. TroveOwners' = Front(moved) /\ Len(TroveOwners) > 1
            BY <2>2 DEF RemoveTroveOwner
        <3>2. /\ Len(TroveOwners) \in Nat
              /\ arrayIndex[b] + 1 \in 1..Len(TroveOwners)
              /\ TroveOwners[Len(TroveOwners)] \in Borrowers
            BY <2>2, LenProperties, ElementOfSeq DEF RemoveTroveOwner
        <3>3. moved \in Seq(Borrowers) /\ Len(moved) = Len(TroveOwners)
            BY <3>2, ExceptSeq
        <3> HIDE DEF moved
        <3>4. moved # <<>>
            BY <3>1, <3>2, <3>3, EmptySeq
        <3>5. TroveOwners' \in Seq(Borrowers) /\ Len(TroveOwners') > 0
            BY <3>1, <3>2, <3>3, <3>4, FrontProperties
        <3>6. QED
            BY <3>5, EmptySeq
    <2>3. QED
        BY <2>1, <2>2 DEF OwnersNext
<1>2. QED
    BY <1>1, OwnersInvInit, OwnersInvNext, PTL DEF OwnersSpec, NeverEmptied

-----------------------------------------------------------------------------
(* The walk and its order. *)

\* The walk over a list is the sequence that it links.
LEMMA WalkIs == ASSUME NEW s, Linked(data, s) PROVE Walk = s
  BY WalkMeets DEF Walk

\* So is the walk after a step.
LEMMA NextWalkIs == ASSUME NEW s, Linked(data', s) PROVE Walk' = s
  BY WalkMeets DEF Walk

\* The keys of a sequence of troves descend.
Descends(d, s) ==
    \A i, j \in 1..Len(s) :
        i <= j => d.nodes[s[i]].oldBoostedAICR >= d.nodes[s[j]].oldBoostedAICR

\* Into a descending sequence a trove comes at a gap its key fits into.
LEMMA InsertDescends ==
    ASSUME NEW d, NEW s, Linked(d, s), Descends(d, s), NEW id \in Borrowers,
           \A j \in 1..Len(s) : s[j] # id,
           NEW k \in 0..Len(s), NEW key \in Nat, KeyFits(d, s, k, key),
           NEW e, NEW boost, NEW since, Rekeyed(d, e, id, key, boost, since)
    PROVE  Descends(e, InsertAt(s, k + 1, id))
<1>1. PICK n \in Nat : n = Len(s)
  BY Positions
<1>2. k \in 0..n /\ \A j \in 1..n : s[j] \in Ids \ {id}
  BY <1>1, Positions
<1>3. PICK t : t = InsertAt(s, k + 1, id)
  OBVIOUS
<1>4. /\ Len(t) = n + 1
      /\ \A j \in 1..(n + 1) : t[j] =
            IF j <= k THEN s[j] ELSE IF j = k + 1 THEN id ELSE s[j - 1]
  <2>1. s \in Seq(Borrowers) /\ k \in 0..Len(s) /\ id \in Borrowers
    BY DEF Linked
  <2>2. /\ Len(InsertAt(s, k + 1, id)) = Len(s) + 1
        /\ \A j \in 1..(Len(s) + 1) : InsertAt(s, k + 1, id)[j] =
              IF j <= k THEN s[j] ELSE IF j = k + 1 THEN id ELSE s[j - 1]
    BY <2>1, InsertAtProperties
  <2> QED
    BY <1>1, <1>3, <2>2
<1>5. PICK K : K = [x \in Ids |-> e.nodes[x].oldBoostedAICR]
  OBVIOUS
<1>6. id \in Ids /\ K[id] = key
  BY <1>5 DEF Rekeyed, Ids
<1>7. \A j \in 1..n : K[s[j]] = d.nodes[s[j]].oldBoostedAICR /\ K[s[j]] \in Nat
  <2>1. \A x \in Ids : d.nodes[x].oldBoostedAICR \in Nat
    BY DEF Linked, Data, Node
  <2> QED
    BY <1>2, <1>5, <2>1 DEF Rekeyed
<1>8. \A i, j \in 1..n : i <= j => K[s[i]] >= K[s[j]]
  BY <1>1, <1>7 DEF Descends
<1>9. /\ k > 0 => K[s[k]] >= key /\ k \in 1..n
      /\ k < n => key >= K[s[k + 1]] /\ k + 1 \in 1..n
  BY <1>1, <1>2, <1>7 DEF KeyFits
<1>10. \A j \in 1..(n + 1) : t[j] \in Ids
  BY <1>2, <1>4, <1>6
<1>11. ASSUME NEW i \in 1..(n + 1), NEW j \in 1..(n + 1), i <= j
       PROVE  K[t[i]] >= K[t[j]]
  <2>1. CASE j <= k
    <3>1. t[i] = s[i] /\ t[j] = s[j] /\ i \in 1..n /\ j \in 1..n
      BY <1>2, <1>4, <1>11, <2>1
    <3> QED
      BY <1>8, <1>11, <3>1
  <2>2. CASE j = k + 1
    <3>1. t[j] = id
      BY <1>2, <1>4, <2>2
    <3>2. CASE i = j
      BY <1>6, <3>1, <3>2
    <3>3. CASE i # j
      <4>1. i <= k /\ i \in 1..n /\ k \in 1..n /\ k > 0 /\ t[i] = s[i]
        BY <1>2, <1>4, <1>11, <2>2, <3>3
      <4>2. K[s[i]] >= K[s[k]] /\ K[s[k]] >= key
        BY <1>8, <1>9, <4>1
      <4> QED
        BY <1>6, <1>7, <3>1, <4>1, <4>2
    <3> QED
      BY <3>2, <3>3
  <2>3. CASE j > k + 1
    <3>1. t[j] = s[j - 1] /\ j - 1 \in 1..n /\ k < n /\ k + 1 \in 1..n /\ k + 1 <= j - 1
      BY <1>2, <1>4, <2>3
    <3>2. CASE i <= k
      <4>1. t[i] = s[i] /\ i \in 1..n /\ i <= j - 1
        BY <1>2, <1>4, <2>3, <3>2
      <4> QED
        BY <1>8, <3>1, <4>1
    <3>3. CASE i = k + 1
      <4>1. t[i] = id
        BY <1>2, <1>4, <3>3
      <4>2. key >= K[s[k + 1]] /\ K[s[k + 1]] >= K[s[j - 1]]
        BY <1>8, <1>9, <3>1
      <4> QED
        BY <1>6, <1>7, <3>1, <4>1, <4>2
    <3>4. CASE i > k + 1
      <4>1. t[i] = s[i - 1] /\ i - 1 \in 1..n /\ i - 1 <= j - 1
        BY <1>2, <1>4, <1>11, <3>4
      <4> QED
        BY <1>8, <3>1, <4>1
    <3>5. i <= k \/ i = k + 1 \/ i > k + 1
      BY <1>2
    <3> QED
      BY <3>2, <3>3, <3>4, <3>5
  <2>4. j <= k \/ j = k + 1 \/ j > k + 1
    BY <1>2
  <2> QED
    BY <2>1, <2>2, <2>3, <2>4
<1>12. Descends(e, t)
  BY <1>4, <1>5, <1>10, <1>11 DEF Descends
<1> QED
  BY <1>3, <1>12

\* What is left of a descending sequence descends.
LEMMA RemoveDescends ==
    ASSUME NEW d, NEW s, Linked(d, s), Descends(d, s), NEW i \in 1..Len(s)
    PROVE  /\ Descends(d, RemoveAt(s, i))
           /\ \A j \in 1..Len(RemoveAt(s, i)) : RemoveAt(s, i)[j] # s[i]
<1>1. PICK n \in Nat : n = Len(s)
  BY Positions
<1>2. PICK t : t = RemoveAt(s, i)
  OBVIOUS
<1>3. Len(t) = n - 1 /\ \A j \in 1..(n - 1) : t[j] = IF j < i THEN s[j] ELSE s[j + 1]
  <2>1. s \in Seq(Borrowers) /\ i \in 1..Len(s)
    BY DEF Linked
  <2>2. /\ Len(RemoveAt(s, i)) = Len(s) - 1
        /\ \A j \in 1..(Len(s) - 1) : RemoveAt(s, i)[j] = IF j < i THEN s[j] ELSE s[j + 1]
    BY <2>1, RemoveAtProperties
  <2> QED
    BY <1>1, <1>2, <2>2
<1> DEFINE old(j) == IF j < i THEN j ELSE j + 1
<1>4. ASSUME NEW j \in 1..(n - 1) PROVE old(j) \in 1..n /\ old(j) # i /\ t[j] = s[old(j)]
  <2>1. old(j) \in 1..n /\ old(j) # i
    BY <1>1
  <2> QED
    BY <1>3, <2>1
<1>5. ASSUME NEW j \in 1..(n - 1), NEW l \in 1..(n - 1), j <= l
      PROVE  d.nodes[t[j]].oldBoostedAICR >= d.nodes[t[l]].oldBoostedAICR
  <2>1. old(j) <= old(l)
    BY <1>1, <1>5
  <2>2. t[j] = s[old(j)] /\ t[l] = s[old(l)] /\ old(j) \in 1..n /\ old(l) \in 1..n
    BY <1>4
  <2> HIDE DEF old
  <2> QED
    BY <1>1, <2>1, <2>2 DEF Descends
<1>6. ASSUME NEW j \in 1..(n - 1) PROVE t[j] # s[i]
  <2>1. t[j] = s[old(j)] /\ old(j) \in 1..n /\ old(j) # i
    BY <1>4
  <2> HIDE DEF old
  <2> QED
    BY <1>1, <2>1 DEF Linked
<1> QED
  BY <1>2, <1>3, <1>5, <1>6 DEF Descends

-----------------------------------------------------------------------------
(* The steps of the list are steps of the abstract sequence. *)

\* The keys of the abstract sequence change as the nodes' keys do.
LEMMA KeysOf ==
    ASSUME NEW d, NEW e, NEW b \in Borrowers, NEW key, NEW boost, NEW since,
           Rekeyed(d, e, b, key, boost, since)
    PROVE  [c \in Borrowers |-> e.nodes[c].oldBoostedAICR] =
               [[c \in Borrowers |-> d.nodes[c].oldBoostedAICR] EXCEPT ![b] = key]
  BY DEF Rekeyed, Ids

\* A trove that is put into a gap enters the abstract sequence there.
LEMMA InsertionEnters ==
    ASSUME Linked(data, Walk), NEW b \in Borrowers, ~ contains(data, b),
           NEW key, NEW boost, NEW since,
           Inserts(data, data', Walk, b, key, boost, since), UNCHANGED registryVars
    PROVE  Order!Enter(b, key)
<1>1. PICK k \in 0..Len(Walk) : /\ KeyFits(data, Walk, k, key)
                                /\ Linked(data', InsertAt(Walk, k + 1, b))
  BY DEF Inserts
<1>2. Walk' = InsertAt(Walk, k + 1, b)
  BY <1>1, NextWalkIs
<1>3. PICK s : s = Walk
  OBVIOUS
<1>4. Linked(data, s)
  BY <1>3
<1>5. PICK n \in Nat : n = Len(s)
  BY <1>4, Positions
<1>6. \A i \in 1..n : s[i] \in Borrowers /\ s[i] # b
  <2>1. \A i \in 1..n : contains(data, s[i])
    BY <1>4, <1>5 DEF Linked, contains
  <2> QED
    BY <1>4, <1>5, <2>1, Positions
<1>7. PICK K : K = [c \in Borrowers |-> data.nodes[c].oldBoostedAICR]
  OBVIOUS
<1>8. b \notin Order!Listed
  BY <1>3, <1>5, <1>6 DEF Order!Listed, Order!Elements
<1>9. Order!Fits(s, K, k, key)
  <2>1. k \in 0..n /\ (k > 0 => k \in 1..n) /\ (k < n => k + 1 \in 1..n)
    BY <1>3, <1>5
  <2>2. \A i \in 1..n : K[s[i]] = data.nodes[s[i]].oldBoostedAICR
    BY <1>6, <1>7
  <2> QED
    BY <1>1, <1>3, <1>5, <2>1, <2>2 DEF KeyFits, Order!Fits
<1>10. Order!InsertAt(s, k + 1, b) = InsertAt(s, k + 1, b)
  BY DEF Order!InsertAt, InsertAt
<1>11. [c \in Borrowers |-> data'.nodes[c].oldBoostedAICR] = [K EXCEPT ![b] = key]
  BY <1>7, KeysOf DEF Inserts
<1>12. UNCHANGED <<underCollateralizedTroves, underCollateralizedTrovesSize>>
  BY DEF registryVars
<1> QED
  BY <1>1, <1>2, <1>3, <1>7, <1>8, <1>9, <1>10, <1>11, <1>12 DEF Order!Enter

\* A trove that is taken out and put back moves.
LEMMA ReinsertionMoves ==
    ASSUME Linked(data, Walk), NEW b \in Borrowers,
           NEW key, NEW boost, NEW since,
           Moves(data, data', Walk, b, key, boost, since), UNCHANGED registryVars
    PROVE  Order!Move(b, key)
<1>1. PICK i \in 1..Len(Walk) :
          /\ Walk[i] = b
          /\ \E k \in 0..Len(RemoveAt(Walk, i)) :
                /\ KeyFits(data, RemoveAt(Walk, i), k, key)
                /\ Linked(data', InsertAt(RemoveAt(Walk, i), k + 1, b))
  BY DEF Moves
<1>2. PICK s : s = Walk
  OBVIOUS
<1>3. PICK t : t = RemoveAt(s, i)
  OBVIOUS
<1>4. PICK k \in 0..Len(t) : /\ KeyFits(data, t, k, key)
                             /\ Linked(data', InsertAt(t, k + 1, b))
  BY <1>1, <1>2, <1>3
<1>5. Walk' = InsertAt(t, k + 1, b)
  BY <1>4, NextWalkIs
<1>6. t \in Seq(Borrowers) /\ Len(t) \in Nat
  <2>1. s \in Seq(Borrowers) /\ i \in 1..Len(s)
    BY <1>1, <1>2 DEF Linked
  <2>2. RemoveAt(s, i) \in Seq(Borrowers)
    BY <2>1, RemoveAtProperties
  <2> QED
    BY <1>3, <2>2, LenProperties
<1>7. PICK K : K = [c \in Borrowers |-> data.nodes[c].oldBoostedAICR]
  OBVIOUS
<1>8. Order!Fits(t, K, k, key)
  <2>1. (k > 0 => k \in 1..Len(t)) /\ (k < Len(t) => k + 1 \in 1..Len(t))
    BY <1>6
  <2>2. \A j \in 1..Len(t) : K[t[j]] = data.nodes[t[j]].oldBoostedAICR
    BY <1>6, <1>7, ElementOfSeq
  <2> QED
    BY <1>4, <2>1, <2>2 DEF KeyFits, Order!Fits
<1>9. Order!InsertAt(t, k + 1, b) = InsertAt(t, k + 1, b)
  BY DEF Order!InsertAt, InsertAt
<1>10. Order!RemoveAt(s, i) = t
  BY <1>3 DEF Order!RemoveAt, RemoveAt
<1>11. [c \in Borrowers |-> data'.nodes[c].oldBoostedAICR] = [K EXCEPT ![b] = key]
  <2>1. PICK d : d = data
    OBVIOUS
  <2>2. PICK e : e = data'
    OBVIOUS
  <2>3. Rekeyed(d, e, b, key, boost, since)
    BY <2>1, <2>2 DEF Moves
  <2>4. [c \in Borrowers |-> e.nodes[c].oldBoostedAICR] =
            [[c \in Borrowers |-> d.nodes[c].oldBoostedAICR] EXCEPT ![b] = key]
    BY <2>3 DEF Rekeyed, Ids
  <2> QED
    BY <1>7, <2>1, <2>2, <2>4
<1>12. UNCHANGED <<underCollateralizedTroves, underCollateralizedTrovesSize>>
  BY DEF registryVars
<1> QED
  BY <1>1, <1>2, <1>4, <1>5, <1>7, <1>8, <1>9, <1>10, <1>11, <1>12 DEF Order!Move

\* A trove that is closed leaves.
LEMMA RemovalLeaves ==
    ASSUME Linked(data, Walk), NEW b \in Borrowers, contains(data, b),
           data' = RemoveNode(data, b),
           UpdateUnderCollateralizedTrove(b, FALSE)
    PROVE  /\ Order!Leave(b)
           /\ Linked(data', Walk')
           /\ Rekeyed(data, data', b, 0, 0, 0) /\ ~ contains(data', b)
           /\ \E i \in 1..Len(Walk) : Walk[i] = b /\ Walk' = RemoveAt(Walk, i)
<1>1. PICK s : s = Walk
  OBVIOUS
<1>2. PICK i \in 1..Len(s) : s[i] = b
  <2>1. b \in Ids
    BY DEF Ids
  <2> QED
    BY <1>1, <2>1, ListedAt
<1>3. PICK d : d = data
  OBVIOUS
<1>4. PICK e : e = data'
  OBVIOUS
<1>5. Linked(e, RemoveAt(s, i)) /\ Rekeyed(d, e, b, 0, 0, 0) /\ ~ contains(e, b)
  <2>1. Linked(d, s) /\ e = RemoveNode(d, b)
    BY <1>1, <1>3, <1>4
  <2> QED
    BY <1>2, <2>1, RemoveLinks
<1>6. Walk' = RemoveAt(s, i)
  BY <1>4, <1>5, NextWalkIs
<1>7. PICK K : K = [c \in Borrowers |-> data.nodes[c].oldBoostedAICR]
  OBVIOUS
<1>8. [c \in Borrowers |-> data'.nodes[c].oldBoostedAICR] = [K EXCEPT ![b] = 0]
  <2>1. [c \in Borrowers |-> e.nodes[c].oldBoostedAICR] =
            [[c \in Borrowers |-> d.nodes[c].oldBoostedAICR] EXCEPT ![b] = 0]
    BY <1>5 DEF Rekeyed, Ids
  <2> QED
    BY <1>3, <1>4, <1>7, <2>1
<1>9. Order!RemoveAt(s, i) = RemoveAt(s, i)
  BY DEF Order!RemoveAt, RemoveAt
<1>10. /\ underCollateralizedTroves' = underCollateralizedTroves \ {b}
       /\ underCollateralizedTrovesSize' =
             IF b \in underCollateralizedTroves THEN underCollateralizedTrovesSize - 1
                                                ELSE underCollateralizedTrovesSize
  BY DEF UpdateUnderCollateralizedTrove
<1>11. Order!Leave(b)
  BY <1>1, <1>2, <1>6, <1>7, <1>8, <1>9, <1>10 DEF Order!Leave
<1> QED
  BY <1>1, <1>2, <1>3, <1>4, <1>5, <1>6, <1>11

\* The nodes are linked in the order of the walk, and the keys descend along it.
ListInv == Linked(data, Walk) /\ Descends(data, Walk)

\* An insertion into a gap keeps the list, and lists one trove more.
LEMMA InsertionKeeps ==
    ASSUME ListInv, NEW b \in Borrowers, ~ contains(data, b),
           NEW key \in Nat, NEW boost, NEW since,
           Inserts(data, data', Walk, b, key, boost, since)
    PROVE  /\ ListInv' /\ data'.size = data.size + 1
           /\ \A c \in Borrowers : contains(data', c) <=> contains(data, c) \/ c = b
<1>1. PICK k \in 0..Len(Walk) : /\ KeyFits(data, Walk, k, key)
                                /\ Linked(data', InsertAt(Walk, k + 1, b))
  BY DEF Inserts
<1>2. Walk' = InsertAt(Walk, k + 1, b)
  BY <1>1, NextWalkIs
<1>3. PICK s : s = Walk
  OBVIOUS
<1>4. PICK d : d = data
  OBVIOUS
<1>5. PICK e : e = data'
  OBVIOUS
<1>6. Linked(d, s) /\ Descends(d, s) /\ ~ contains(d, b)
  BY <1>3, <1>4 DEF ListInv
<1>7. /\ k \in 0..Len(s) /\ KeyFits(d, s, k, key)
      /\ Linked(e, InsertAt(s, k + 1, b))
      /\ Rekeyed(d, e, b, key, boost, since) /\ contains(e, b)
  BY <1>1, <1>3, <1>4, <1>5 DEF Inserts
<1>8. \A j \in 1..Len(s) : s[j] # b
  BY <1>6 DEF Linked, contains
<1>9. Descends(e, InsertAt(s, k + 1, b))
  BY <1>6, <1>7, <1>8, InsertDescends
<1>10. ListInv'
  BY <1>2, <1>3, <1>5, <1>7, <1>9 DEF ListInv
<1>11. e.size = d.size + 1
  <2>1. s \in Seq(Borrowers) /\ d.size = Len(s)
    BY <1>6 DEF Linked
  <2>2. Len(InsertAt(s, k + 1, b)) = Len(s) + 1
    BY <1>7, <2>1, InsertAtProperties
  <2> QED
    BY <1>7, <2>1, <2>2 DEF Linked
<1>12. \A c \in Borrowers : contains(e, c) <=> contains(d, c) \/ c = b
  BY <1>7 DEF Rekeyed, contains, Ids
<1> QED
  BY <1>4, <1>5, <1>10, <1>11, <1>12

\* A re-insertion keeps the list, and lists the same troves.
LEMMA ReinsertionKeeps ==
    ASSUME ListInv, NEW b \in Borrowers, contains(data, b),
           NEW key \in Nat, NEW boost, NEW since,
           Moves(data, data', Walk, b, key, boost, since)
    PROVE  /\ ListInv' /\ data'.size = data.size
           /\ \A c \in Borrowers : contains(data', c) <=> contains(data, c)
<1>1. PICK s : s = Walk
  OBVIOUS
<1>2. PICK d : d = data
  OBVIOUS
<1>3. PICK e : e = data'
  OBVIOUS
<1>4. Linked(d, s) /\ Descends(d, s) /\ contains(d, b)
  BY <1>1, <1>2 DEF ListInv
<1>5. Moves(d, e, s, b, key, boost, since)
  BY <1>1, <1>2, <1>3
<1>6. PICK i \in 1..Len(s) :
          /\ s[i] = b
          /\ \E k \in 0..Len(RemoveAt(s, i)) :
                /\ KeyFits(d, RemoveAt(s, i), k, key)
                /\ Linked(e, InsertAt(RemoveAt(s, i), k + 1, b))
  BY <1>5 DEF Moves
<1>7. PICK t : t = RemoveAt(s, i)
  OBVIOUS
<1>8. PICK k \in 0..Len(t) : KeyFits(d, t, k, key) /\ Linked(e, InsertAt(t, k + 1, b))
  BY <1>6, <1>7
<1>9. Walk' = InsertAt(t, k + 1, b)
  BY <1>3, <1>8, NextWalkIs
<1>10. PICK r : r = RemoveNode(d, b)
  OBVIOUS
<1>11. Linked(r, t) /\ Rekeyed(d, r, b, 0, 0, 0)
  BY <1>4, <1>6, <1>7, <1>10, RemoveLinks
<1>12. Descends(d, t) /\ \A j \in 1..Len(t) : t[j] # b
  BY <1>4, <1>6, <1>7, RemoveDescends
<1>13. \A j \in 1..Len(t) : t[j] \in Ids \ {b}
  BY <1>11, <1>12, Positions
<1>14. Rekeyed(r, e, b, key, boost, since) /\ contains(e, b)
  BY <1>5, <1>11 DEF Moves, Rekeyed
<1>15. Descends(r, t) /\ KeyFits(r, t, k, key)
  <2>1. \A j \in 1..Len(t) : r.nodes[t[j]].oldBoostedAICR = d.nodes[t[j]].oldBoostedAICR
    BY <1>11, <1>13 DEF Rekeyed
  <2>2. Len(t) \in Nat /\ (k > 0 => k \in 1..Len(t)) /\ (k < Len(t) => k + 1 \in 1..Len(t))
    BY <1>11, Positions
  <2> QED
    BY <1>8, <1>12, <2>1, <2>2 DEF Descends, KeyFits
<1>16. Descends(e, InsertAt(t, k + 1, b))
  BY <1>11, <1>12, <1>14, <1>15, InsertDescends
<1>17. ListInv'
  BY <1>3, <1>8, <1>9, <1>16 DEF ListInv
<1>18. e.size = d.size
  <2>1. s \in Seq(Borrowers) /\ d.size = Len(s) /\ Len(s) \in Nat
    BY <1>4, Positions DEF Linked
  <2>2. t \in Seq(Borrowers) /\ Len(t) = Len(s) - 1
    BY <1>7, <2>1, RemoveAtProperties
  <2>3. Len(InsertAt(t, k + 1, b)) = Len(t) + 1
    <3>1. t \in Seq(Borrowers) /\ k \in 0..Len(t)
      BY <2>2
    <3> QED
      BY <3>1, InsertAtProperties
  <2> QED
    BY <1>8, <2>1, <2>2, <2>3 DEF Linked
<1>19. \A c \in Borrowers : contains(e, c) <=> contains(d, c)
  BY <1>4, <1>5 DEF Moves, Rekeyed, contains, Ids
<1> QED
  BY <1>2, <1>3, <1>17, <1>18, <1>19

\* A removal keeps the list, lists one trove less and empties its node.
LEMMA RemovalKeeps ==
    ASSUME ListInv, NEW b \in Borrowers, contains(data, b),
           data' = RemoveNode(data, b)
    PROVE  /\ ListInv' /\ data'.size = data.size - 1
           /\ \A c \in Borrowers : contains(data', c) <=> contains(data, c) /\ c # b
           /\ Rekeyed(data, data', b, 0, 0, 0)
<1>1. PICK s : s = Walk
  OBVIOUS
<1>2. PICK d : d = data
  OBVIOUS
<1>3. PICK e : e = data'
  OBVIOUS
<1>4. Linked(d, s) /\ Descends(d, s) /\ contains(d, b)
  BY <1>1, <1>2 DEF ListInv
<1>5. PICK i \in 1..Len(s) : s[i] = b
  <2>1. b \in Ids
    BY DEF Ids
  <2> QED
    BY <1>4, <2>1, ListedAt
<1>6. PICK t : t = RemoveAt(s, i)
  OBVIOUS
<1>7. Linked(e, t) /\ Rekeyed(d, e, b, 0, 0, 0) /\ ~ contains(e, b)
  BY <1>2, <1>3, <1>4, <1>5, <1>6, RemoveLinks
<1>8. Descends(d, t) /\ \A j \in 1..Len(t) : t[j] # b
  BY <1>4, <1>5, <1>6, RemoveDescends
<1>9. Descends(e, t)
  <2>1. \A j \in 1..Len(t) : t[j] \in Ids \ {b}
    BY <1>7, <1>8, Positions
  <2>2. \A j \in 1..Len(t) : e.nodes[t[j]].oldBoostedAICR = d.nodes[t[j]].oldBoostedAICR
    BY <1>7, <2>1 DEF Rekeyed
  <2> QED
    BY <1>8, <2>2 DEF Descends
<1>10. Walk' = t
  BY <1>3, <1>7, NextWalkIs
<1>11. ListInv'
  BY <1>3, <1>7, <1>9, <1>10 DEF ListInv
<1>12. e.size = d.size - 1
  <2>1. s \in Seq(Borrowers) /\ d.size = Len(s)
    BY <1>4 DEF Linked
  <2>2. Len(t) = Len(s) - 1
    BY <1>6, <2>1, RemoveAtProperties
  <2> QED
    BY <1>7, <2>1, <2>2 DEF Linked
<1>13. \A c \in Borrowers : contains(e, c) <=> contains(d, c) /\ c # b
  BY <1>7 DEF Rekeyed, contains, Ids
<1> QED
  BY <1>2, <1>3, <1>7, <1>11, <1>12, <1>13

-----------------------------------------------------------------------------
(* The inductive invariant. *)

\* The troves that TroveManager calls active are those in the list.
ActiveListed == \A b \in Borrowers : status[b] = "active" <=> contains(data, b)

\* Boosts are bounded by the largest fee at the largest factor, and no clock is ahead.
BoostInv ==
    /\ now \in Nat
    /\ boostMinuteDecayFactor \in DecayBases
    /\ globalBoostFactor \in BoostFactors \cup {0}
    /\ \A x \in Ids : data.nodes[x].boost <= MaxBoost /\ data.nodes[x].since <= now

\* The inductive invariant.
RegInv ==
    /\ OwnersInv
    /\ ListInv
    /\ ActiveListed
    /\ data.size = Len(TroveOwners)
    /\ BoostInv
    /\ batch \in Seq(Borrowers)

\* What a step promises: the invariant, and a step of the abstract list or none.
Maps ==
    \/ UNCHANGED Order!orderVars
    \/ \E b \in Borrowers :
          \/ \E k \in {a + x : a \in AICRs \ {0}, x \in 0..MaxBoost} :
                Order!Enter(b, k) \/ Order!Move(b, k)
          \/ Order!Leave(b)
          \/ Order!Flag(b)
          \/ Order!Unflag(b)

\* And that it revives no boost.
Revives ==
    \E b \in Borrowers :
       /\ contains(data, b) /\ contains(data, b)'
       /\ boostMinuteDecayFactor' = boostMinuteDecayFactor
       /\ DecayedBoost(b)' > DecayedBoost(b)
       /\ ~ \E fee \in BoostFees : DecayedBoost(b)' <= NewBoost(fee) /\ Pays(b, fee)

\* The boosts of the other troves keep their worth while no time passes.
LEMMA OtherBoosts ==
    ASSUME BoostInv, NEW b \in Borrowers, NEW key, NEW boost \in 0..MaxBoost, NEW since \in Nat,
           since <= now, Rekeyed(data, data', b, key, boost, since), UNCHANGED boostVars
    PROVE  /\ BoostInv'
           /\ \A c \in Borrowers : c # b => DecayedBoost(c)' = DecayedBoost(c)
<1>1. UNCHANGED <<globalBoostFactor, boostMinuteDecayFactor, now>>
  BY DEF boostVars
<1>2. \A x \in Ids \ {b} : /\ data'.nodes[x].boost = data.nodes[x].boost
                           /\ data'.nodes[x].since = data.nodes[x].since
  BY DEF Rekeyed
<1>3. data'.nodes[b].boost = boost /\ data'.nodes[b].since = since
  BY DEF Rekeyed
<1>4. MaxBoost \in Nat
  BY LargestBoost
<1>5. BoostInv'
  <2>1. ASSUME NEW x \in Ids PROVE data'.nodes[x].boost <= MaxBoost /\ data'.nodes[x].since <= now'
    <3>1. CASE x = b
      BY <1>1, <1>3, <1>4, <3>1
    <3>2. CASE x # b
      BY <1>1, <1>2, <3>2 DEF BoostInv
    <3> QED
      BY <3>1, <3>2
  <2> QED
    BY <1>1, <2>1 DEF BoostInv
<1>6. ASSUME NEW c \in Borrowers, c # b PROVE DecayedBoost(c)' = DecayedBoost(c)
  <2>1. c \in Ids \ {b}
    BY <1>6 DEF Ids
  <2> QED
    BY <1>1, <1>2, <2>1 DEF DecayedBoost, CalculateDecayedBoost
<1> QED
  BY <1>5, <1>6

\* A boost written at this moment is worth what was written.
LEMMA FreshBoost ==
    ASSUME BoostInv, NEW b \in Borrowers, NEW key, NEW boost \in Nat,
           Rekeyed(data, data', b, key, boost, now), UNCHANGED boostVars
    PROVE  DecayedBoost(b)' = boost
<1>1. PICK base \in DecayBases : base = boostMinuteDecayFactor' /\ now' = now /\ now \in Nat
  BY DEF BoostInv, boostVars
<1>2. DecPow(base)[0] = 1
  BY PowersOfBase
<1>3. data'.nodes[b].boost = boost /\ now' - data'.nodes[b].since = 0
  BY <1>1 DEF Rekeyed
<1>4. DecayedBoost(b)' = boost \div DecPow(base)[0]
  BY <1>1, <1>3 DEF DecayedBoost, CalculateDecayedBoost
<1>5. boost \div 1 = boost
  OBVIOUS
<1> QED
  BY <1>2, <1>4, <1>5

\* What is left of a listed boost is a number up to the largest boost.
LEMMA DecayedSound ==
    ASSUME BoostInv, ListInv, NEW b \in Borrowers
    PROVE  DecayedBoost(b) \in 0..MaxBoost
<1>1. PICK boost \in Nat : boost = data.nodes[b].boost /\ boost <= MaxBoost
  BY DEF BoostInv, ListInv, Linked, Data, Node, Ids
<1>2. PICK since \in Nat : since = data.nodes[b].since /\ since <= now
  BY DEF BoostInv, ListInv, Linked, Data, Node, Ids
<1>3. CalculateDecayedBoost(boost, since) \in 0..boost
  BY <1>2, DecayedAtMost DEF BoostInv
<1>4. MaxBoost \in Nat
  BY LargestBoost
<1> QED
  BY <1>1, <1>2, <1>3, <1>4 DEF DecayedBoost

-----------------------------------------------------------------------------
(* One lemma for every action. *)

\* The keys of the abstract sequence are the numbers a list is given.
LEMMA KeyIsGiven ==
    ASSUME NEW AICR \in AICRs, AICR # 0, NEW boost \in 0..MaxBoost
    PROVE  /\ boost \in Nat /\ AICR \in Nat /\ AICR + boost \in Nat
           /\ AICR + boost \in {a + x : a \in AICRs \ {0}, x \in 0..MaxBoost}
<1>1. MaxBoost \in Nat /\ AICR \in Nat
  BY LargestBoost, SortedTrovesAssumption
<1> QED
  BY <1>1

\* While no boost changes, a step revives none.
LEMMA SameBoosts ==
    ASSUME BoostInv, ListInv, UNCHANGED <<data, boostVars>>
    PROVE  ~ Revives
<1>1. \A b \in Borrowers : DecayedBoost(b)' = DecayedBoost(b)
  BY DEF boostVars, DecayedBoost, CalculateDecayedBoost
<1>2. \A b \in Borrowers : DecayedBoost(b) \in Nat
  BY DecayedSound, LargestBoost
<1>3. \A b \in Borrowers : ~ (DecayedBoost(b)' > DecayedBoost(b))
  BY <1>1, <1>2
<1> QED
  BY <1>3 DEF Revives

\* A list that does not change keeps what is said of it.
LEMMA SameList ==
    ASSUME RegInv, UNCHANGED <<data, ownerVars>>, BoostInv', batch' \in Seq(Borrowers)
    PROVE  RegInv' /\ Walk' = Walk
<1>1. Walk' = Walk
  BY DEF Walk
<1>2. PICK s : s = Walk
  OBVIOUS
<1>3. ListInv'
  BY <1>1 DEF RegInv, ListInv
<1>4. OwnersInv' /\ ActiveListed' /\ data'.size = Len(TroveOwners')
  BY DEF RegInv, ownerVars, OwnersInv, OwnersTypeOK, OwnersIndexed, ActiveListed, contains
<1> QED
  BY <1>1, <1>3, <1>4 DEF RegInv

\* openTrove.
LEMMA OpenStep ==
    ASSUME RegInv, NEW b \in Borrowers, NEW AICR \in AICRs, NEW p \in Ids, NEW n \in Ids,
           NEW fee \in BoostFees, OpenTrove(b, AICR, p, n, fee)
    PROVE  RegInv' /\ Maps /\ ~ Revives
<1>1. /\ AddTroveOwner(b) /\ AICR # 0 /\ ~ contains(data, b)
      /\ data' = InsertNode(data, b, AICR, p, n, NewBoost(fee))
      /\ UNCHANGED <<registryVars, boostVars, batch>>
  BY DEF OpenTrove, CanInsert
<1>2. now \in Nat /\ BoostInv /\ ListInv /\ globalBoostFactor \in BoostFactors \cup {0}
  BY DEF RegInv, BoostInv
<1>3. PICK boost \in 0..MaxBoost : boost = NewBoost(fee)
  <2>1. PICK factor \in BoostFactors \cup {0} : factor = globalBoostFactor
    BY <1>2
  <2>2. /\ MaxFee \in Nat /\ MaxBoost \in Nat /\ fee \in Nat /\ fee <= MaxFee
        /\ factor \in Nat /\ MaxFee * factor <= MaxBoost
    BY LargestBoost
  <2>3. fee * factor <= MaxFee * factor
    BY <2>2, TimesMonotone
  <2>4. fee * factor \in Nat /\ MaxFee * factor \in Nat
    BY <2>2, NatProduct
  <2>5. fee * factor \in 0..MaxBoost
    BY <2>2, <2>3, <2>4
  <2> QED
    BY <2>1, <2>5 DEF NewBoost
<1>4. /\ boost \in Nat /\ AICR \in Nat /\ AICR + boost \in Nat
      /\ AICR + boost \in {a + x : a \in AICRs \ {0}, x \in 0..MaxBoost}
  BY <1>1, KeyIsGiven
<1>5. PICK key \in Nat : key = AICR + boost
  BY <1>4
<1>6. Inserts(data, data', Walk, b, key, boost, now)
  <2>1. PICK s : s = Walk
    OBVIOUS
  <2>2. PICK d : d = data
    OBVIOUS
  <2>3. Linked(d, s) /\ ~ contains(d, b)
    BY <1>1, <1>2, <2>1, <2>2 DEF ListInv
  <2>4. Inserts(d, InsertNode(d, b, AICR, p, n, boost), s, b, AICR + boost, boost, now)
    BY <1>2, <1>4, <2>3, InsertNodeInserts
  <2> QED
    BY <1>1, <1>3, <1>5, <2>1, <2>2, <2>4
<1>7. Order!Enter(b, key)
  BY <1>1, <1>2, <1>6, InsertionEnters DEF ListInv
<1>8. /\ ListInv' /\ data'.size = data.size + 1
      /\ \A c \in Borrowers : contains(data', c) <=> contains(data, c) \/ c = b
  BY <1>1, <1>2, <1>6, InsertionKeeps
<1>9. Rekeyed(data, data', b, key, boost, now)
  BY <1>6 DEF Inserts
<1>10. /\ BoostInv'
       /\ \A c \in Borrowers : c # b => DecayedBoost(c)' = DecayedBoost(c)
  BY <1>1, <1>2, <1>9, OtherBoosts
<1>11. OwnersInv' /\ Len(TroveOwners') = Len(TroveOwners) + 1
  BY <1>1, AddKeepsOwnersInv DEF RegInv
<1>12. ActiveListed'
  <2>1. \A c \in Borrowers : status'[c] = "active" <=> status[c] = "active" \/ c = b
    BY <1>1 DEF AddTroveOwner, RegInv, OwnersInv, OwnersTypeOK
  <2>2. \A c \in Borrowers : status[c] = "active" <=> contains(data, c)
    BY DEF RegInv, ActiveListed
  <2>3. \A c \in Borrowers : status'[c] = "active" <=> contains(data', c)
    BY <1>8, <2>1, <2>2
  <2> QED
    BY <2>3 DEF ActiveListed
<1>13. RegInv'
  <2>1. data'.size = Len(TroveOwners') /\ batch' \in Seq(Borrowers)
    BY <1>1, <1>8, <1>11 DEF RegInv
  <2> QED
    BY <1>8, <1>10, <1>11, <1>12, <2>1 DEF RegInv
<1>14. Maps
  BY <1>4, <1>5, <1>7 DEF Maps
<1>15. ~ Revives
  <2>1. \A c \in Borrowers : DecayedBoost(c) \in Nat
    BY <1>2, DecayedSound, LargestBoost
  <2>2. \A c \in Borrowers : c # b => ~ (DecayedBoost(c)' > DecayedBoost(c))
    BY <1>10, <2>1
  <2> QED
    BY <1>1, <2>2 DEF Revives
<1> QED
  BY <1>13, <1>14, <1>15

\* Every re-insertion: the boost that is written is no more than what was left
\* of it, or than the boost of a fee.
LEMMA ReinsertionStep ==
    ASSUME RegInv, NEW b \in Borrowers, contains(data, b), NEW AICR \in AICRs, AICR # 0,
           NEW boost \in 0..MaxBoost, Moves(data, data', Walk, b, AICR + boost, boost, now),
           UNCHANGED <<registryVars, boostVars, ownerVars>>, batch' \in Seq(Borrowers),
           boost <= DecayedBoost(b) \/ \E fee \in BoostFees : boost <= NewBoost(fee) /\ Pays(b, fee)
    PROVE  RegInv' /\ Maps /\ ~ Revives
<1>1. /\ boost \in Nat /\ AICR + boost \in Nat
      /\ AICR + boost \in {a + x : a \in AICRs \ {0}, x \in 0..MaxBoost}
  BY KeyIsGiven
<1>2. PICK key \in Nat : key = AICR + boost
  BY <1>1
<1>3. Moves(data, data', Walk, b, key, boost, now) /\ now \in Nat /\ BoostInv /\ ListInv
  BY <1>2 DEF RegInv, BoostInv
<1>4. Order!Move(b, key)
  BY <1>3, ReinsertionMoves DEF ListInv
<1>5. /\ ListInv' /\ data'.size = data.size
      /\ \A c \in Borrowers : contains(data', c) <=> contains(data, c)
  BY <1>3, ReinsertionKeeps
<1>6. Rekeyed(data, data', b, key, boost, now)
  BY <1>3 DEF Moves
<1>7. /\ BoostInv'
      /\ \A c \in Borrowers : c # b => DecayedBoost(c)' = DecayedBoost(c)
  BY <1>3, <1>6, OtherBoosts
<1>8. DecayedBoost(b)' = boost
  BY <1>1, <1>3, <1>6, FreshBoost
<1>9. RegInv'
  <2>1. OwnersInv' /\ ActiveListed' /\ data'.size = Len(TroveOwners')
    <3>1. UNCHANGED <<TroveOwners, arrayIndex, status>>
      BY DEF ownerVars
    <3>2. OwnersInv'
      BY <3>1 DEF RegInv, OwnersInv, OwnersTypeOK, OwnersIndexed
    <3>3. \A c \in Borrowers : status'[c] = "active" <=> contains(data', c)
      BY <1>5, <3>1 DEF RegInv, ActiveListed
    <3> QED
      BY <1>5, <3>1, <3>2, <3>3 DEF RegInv, ActiveListed
  <2> QED
    BY <1>5, <1>7, <2>1 DEF RegInv
<1>10. Maps
  BY <1>1, <1>2, <1>4 DEF Maps
<1>11. ~ Revives
  <2>1. \A c \in Borrowers : DecayedBoost(c) \in Nat
    BY <1>3, DecayedSound, LargestBoost
  <2>2. \A c \in Borrowers : c # b => ~ (DecayedBoost(c)' > DecayedBoost(c))
    BY <1>7, <2>1
  <2>3. \/ ~ (DecayedBoost(b)' > DecayedBoost(b))
        \/ \E fee \in BoostFees : DecayedBoost(b)' <= NewBoost(fee) /\ Pays(b, fee)
    <3>1. CASE boost <= DecayedBoost(b)
      BY <1>1, <1>8, <2>1, <3>1
    <3>2. CASE \E fee \in BoostFees : boost <= NewBoost(fee) /\ Pays(b, fee)
      BY <1>8, <3>2
    <3> QED
      BY <3>1, <3>2
  <2> QED
    BY <2>2, <2>3 DEF Revives
<1> QED
  BY <1>9, <1>10, <1>11

\* What is left of a boost is no more than the boost: every re-insertion without
\* a fee (a partial redemption, updateTroves) is such a re-insertion.
LEMMA ReInsertStep ==
    ASSUME RegInv, NEW b \in Borrowers, contains(data, b), NEW AICR \in AICRs, AICR # 0,
           NEW p \in Ids, NEW n \in Ids, data' = ReInsert(data, b, AICR, p, n),
           UNCHANGED <<registryVars, boostVars, ownerVars>>, batch' \in Seq(Borrowers)
    PROVE  RegInv' /\ Maps /\ ~ Revives
<1>1. PICK boost \in 0..MaxBoost : boost = DecayedBoost(b)
  BY DecayedSound DEF RegInv
<1>2. boost \in Nat /\ AICR \in Nat
  BY KeyIsGiven
<1>3. Moves(data, data', Walk, b, AICR + boost, boost, now)
  <2>1. PICK s : s = Walk
    OBVIOUS
  <2>2. PICK d : d = data
    OBVIOUS
  <2>3. Linked(d, s) /\ contains(d, b) /\ now \in Nat
    BY <2>1, <2>2 DEF RegInv, ListInv, BoostInv
  <2>4. Moves(d, InsertNode(RemoveNode(d, b), b, AICR, p, n, boost), s, b, AICR + boost, boost, now)
    BY <1>2, <2>3, ReInsertMoves
  <2>5. data' = InsertNode(RemoveNode(d, b), b, AICR, p, n, boost)
    BY <1>1, <2>2 DEF ReInsert, DecayedBoost
  <2> QED
    BY <2>1, <2>2, <2>4, <2>5
<1>4. boost <= DecayedBoost(b)
  BY <1>1, <1>2
<1> QED
  BY <1>3, <1>4, ReinsertionStep

\* adjustTrove: the new boost is a mean of what is left and the new fee's boost.
LEMMA AdjustStep ==
    ASSUME RegInv, NEW b \in Borrowers, NEW AICR \in AICRs, NEW p \in Ids, NEW n \in Ids,
           NEW fee \in BoostFees, NEW w \in VCWeights, AdjustTrove(b, AICR, p, n, fee, w)
    PROVE  RegInv' /\ Maps /\ ~ Revives
<1>1. /\ contains(data, b) /\ AICR # 0
      /\ data' = ReInsertWithNewBoost(data, b, AICR, p, n, fee, w)
      /\ UNCHANGED <<registryVars, boostVars, ownerVars, batch>>
  BY DEF AdjustTrove, CanReInsert
<1>2. DecayedBoost(b) \in 0..MaxBoost /\ MaxBoost \in Nat
  BY DecayedSound, LargestBoost DEF RegInv
<1>3. PICK decayed \in Nat : decayed = DecayedBoost(b) /\ decayed <= MaxBoost
  BY <1>2
<1>4. PICK new : new = MaxFee * globalBoostFactor
  OBVIOUS
<1>5. PICK r : r = WeightedBoost(decayed, fee, w)
  OBVIOUS
<1>6. /\ r \in Nat /\ new \in Nat /\ new <= MaxBoost
      /\ r <= decayed \/ r <= NewBoost(fee)
      /\ NewBoost(fee) \in Nat /\ NewBoost(fee) <= new
  BY <1>4, <1>5, WeightedAtMost DEF RegInv, BoostInv
<1>7. r \in 0..MaxBoost
  BY <1>2, <1>3, <1>6
<1>8. r \in Nat /\ AICR \in Nat
  BY <1>1, <1>7, KeyIsGiven
<1>9. Moves(data, data', Walk, b, AICR + r, r, now)
  <2>1. PICK s : s = Walk
    OBVIOUS
  <2>2. PICK d : d = data
    OBVIOUS
  <2>3. Linked(d, s) /\ contains(d, b) /\ now \in Nat
    BY <1>1, <2>1, <2>2 DEF RegInv, ListInv, BoostInv
  <2>4. Moves(d, InsertNode(RemoveNode(d, b), b, AICR, p, n, r), s, b, AICR + r, r, now)
    BY <1>8, <2>3, ReInsertMoves
  <2>5. data' = InsertNode(RemoveNode(d, b), b, AICR, p, n, r)
    BY <1>1, <1>3, <1>5, <2>2 DEF ReInsertWithNewBoost, DecayedBoost
  <2> QED
    BY <2>1, <2>2, <2>4, <2>5
<1>10. r <= DecayedBoost(b) \/ \E f \in BoostFees : r <= NewBoost(f) /\ Pays(b, f)
  <2>1. Pays(b, fee)
    BY DEF Pays
  <2> QED
    BY <1>3, <1>6, <2>1
<1>11. batch' \in Seq(Borrowers) /\ UNCHANGED <<registryVars, boostVars, ownerVars>>
  BY <1>1 DEF RegInv
<1> QED
  BY <1>1, <1>7, <1>9, <1>10, <1>11, ReinsertionStep

\* _closeTrove.
LEMMA CloseStep ==
    ASSUME RegInv, NEW b \in Borrowers, CloseTrove(b)
    PROVE  RegInv' /\ Maps /\ ~ Revives
<1>1. /\ UpdateUnderCollateralizedTrove(b, FALSE) /\ RemoveTroveOwner(b)
      /\ data' = RemoveNode(data, b) /\ UNCHANGED <<boostVars, batch>>
      /\ contains(data, b)
  BY DEF CloseTrove, UpdateUnderCollateralizedTrove
<1>2. BoostInv /\ ListInv /\ now \in Nat
  BY DEF RegInv, BoostInv
<1>3. Order!Leave(b)
  BY <1>1, <1>2, RemovalLeaves DEF ListInv
<1>4. /\ ListInv' /\ data'.size = data.size - 1
      /\ \A c \in Borrowers : contains(data', c) <=> contains(data, c) /\ c # b
      /\ Rekeyed(data, data', b, 0, 0, 0)
  BY <1>1, <1>2, RemovalKeeps
<1>5. /\ BoostInv'
      /\ \A c \in Borrowers : c # b => DecayedBoost(c)' = DecayedBoost(c)
  <2>1. 0 \in 0..MaxBoost /\ 0 \in Nat /\ 0 <= now
    BY <1>2, LargestBoost
  <2> QED
    BY <1>1, <1>2, <1>4, <2>1, OtherBoosts
<1>6. OwnersInv' /\ Len(TroveOwners') = Len(TroveOwners) - 1
  BY <1>1, RemoveKeepsOwnersInv DEF RegInv
<1>7. ActiveListed'
  <2>1. \A c \in Borrowers : status'[c] = "active" <=> status[c] = "active" /\ c # b
    BY <1>1 DEF RemoveTroveOwner, RegInv, OwnersInv, OwnersTypeOK
  <2>2. \A c \in Borrowers : status[c] = "active" <=> contains(data, c)
    BY DEF RegInv, ActiveListed
  <2>3. \A c \in Borrowers : status'[c] = "active" <=> contains(data', c)
    BY <1>4, <2>1, <2>2
  <2> QED
    BY <2>3 DEF ActiveListed
<1>8. RegInv'
  <2>1. data'.size = Len(TroveOwners') /\ batch' \in Seq(Borrowers)
    BY <1>1, <1>4, <1>6 DEF RegInv
  <2> QED
    BY <1>4, <1>5, <1>6, <1>7, <2>1 DEF RegInv
<1>9. Maps
  BY <1>3 DEF Maps
<1>10. ~ Revives
  <2>1. \A c \in Borrowers : DecayedBoost(c) \in Nat
    BY <1>2, DecayedSound, LargestBoost
  <2>2. \A c \in Borrowers : c # b => ~ (DecayedBoost(c)' > DecayedBoost(c))
    BY <1>5, <2>1
  <2>3. ~ contains(data', b)
    BY <1>4
  <2> QED
    BY <2>2, <2>3 DEF Revives
<1> QED
  BY <1>8, <1>9, <1>10

\* The registry of under-collateralised troves.
LEMMA ReportStep ==
    ASSUME RegInv, NEW b \in Borrowers, NEW u \in BOOLEAN, UpdateUnderCollateralizedTroves(b, u)
    PROVE  RegInv' /\ Maps /\ ~ Revives
<1>1. /\ UpdateUnderCollateralizedTrove(b, u) /\ contains(data, b)
      /\ UNCHANGED <<data, boostVars, ownerVars, batch>>
  BY DEF UpdateUnderCollateralizedTroves, UpdateUnderCollateralizedTrove
<1>2. BoostInv' /\ batch' \in Seq(Borrowers)
  BY <1>1 DEF RegInv, BoostInv, boostVars
<1>3. RegInv' /\ Walk' = Walk
  BY <1>1, <1>2, SameList
<1>4. ~ Revives
  BY <1>1, SameBoosts DEF RegInv
<1>5. b \in Order!Listed
  <2>1. PICK s : s = Walk
    OBVIOUS
  <2>2. PICK d : d = data
    OBVIOUS
  <2>3. Linked(d, s) /\ contains(d, b) /\ b \in Ids
    BY <1>1, <2>1, <2>2 DEF RegInv, ListInv, Ids
  <2>4. \E i \in 1..Len(s) : s[i] = b
    BY <2>3, ListedAt
  <2> QED
    BY <2>1, <2>4 DEF Order!Listed, Order!Elements
<1>6. [c \in Borrowers |-> data'.nodes[c].oldBoostedAICR]
          = [c \in Borrowers |-> data.nodes[c].oldBoostedAICR]
  BY <1>1
<1>7. CASE u = TRUE /\ b \notin underCollateralizedTroves
  <2>1. Order!Flag(b)
    BY <1>1, <1>3, <1>5, <1>6, <1>7 DEF UpdateUnderCollateralizedTrove, Order!Flag
  <2> QED
    BY <1>3, <1>4, <2>1 DEF Maps
<1>8. CASE u = FALSE /\ b \in underCollateralizedTroves
  <2>1. Order!Unflag(b)
    BY <1>1, <1>3, <1>6, <1>8 DEF UpdateUnderCollateralizedTrove, Order!Unflag
  <2> QED
    BY <1>3, <1>4, <2>1 DEF Maps
<1>9. CASE ~ (u = TRUE /\ b \notin underCollateralizedTroves)
           /\ ~ (u = FALSE /\ b \in underCollateralizedTroves)
  <2>1. underCollateralizedTroves' = underCollateralizedTroves
    BY <1>1, <1>9 DEF UpdateUnderCollateralizedTrove
  <2>2. underCollateralizedTrovesSize' = underCollateralizedTrovesSize
    BY <1>1, <1>9 DEF UpdateUnderCollateralizedTrove
  <2>3. UNCHANGED Order!orderVars
    BY <1>3, <1>6, <2>1, <2>2 DEF Order!orderVars
  <2> QED
    BY <1>3, <1>4, <2>3 DEF Maps
<1> QED
  BY <1>7, <1>8, <1>9

\* A step that leaves list, owners and registry alone is none of the abstract list.
LEMMA QuietMaps ==
    ASSUME UNCHANGED <<data, registryVars>>
    PROVE  Maps
<1>1. Walk' = Walk
  BY DEF Walk
<1>2. UNCHANGED Order!orderVars
  BY <1>1 DEF Order!orderVars, registryVars
<1> QED
  BY <1>2 DEF Maps

\* updateTroves' input, governance, and nothing at all.
LEMMA QuietStep ==
    ASSUME RegInv, UNCHANGED <<data, registryVars, ownerVars>>, batch' \in Seq(Borrowers),
           UNCHANGED boostVars
               \/ (\E factor \in BoostFactors : ChangeGlobalBoostMultiplier(factor))
               \/ (\E base \in DecayBases : ChangeBoostMinuteDecayFactor(base))
    PROVE  RegInv' /\ Maps /\ ~ Revives
<1>1. BoostInv'
  BY DEF RegInv, BoostInv, boostVars, ChangeGlobalBoostMultiplier, ChangeBoostMinuteDecayFactor
<1>2. RegInv'
  BY <1>1, SameList
<1>3. Maps
  BY QuietMaps
<1>4. UNCHANGED now
  BY DEF boostVars, ChangeGlobalBoostMultiplier, ChangeBoostMinuteDecayFactor
<1>5. CASE boostMinuteDecayFactor' = boostMinuteDecayFactor
  <2>1. \A b \in Borrowers : DecayedBoost(b)' = DecayedBoost(b)
    BY <1>4, <1>5 DEF DecayedBoost, CalculateDecayedBoost
  <2>2. \A b \in Borrowers : DecayedBoost(b) \in Nat
    BY DecayedSound, LargestBoost DEF RegInv
  <2>3. \A b \in Borrowers : ~ (DecayedBoost(b)' > DecayedBoost(b))
    BY <2>1, <2>2
  <2> QED
    BY <1>2, <1>3, <2>3 DEF Revives
<1>6. CASE boostMinuteDecayFactor' # boostMinuteDecayFactor
  BY <1>2, <1>3, <1>6 DEF Revives
<1> QED
  BY <1>5, <1>6

\* Time only takes boosts away.
LEMMA ElapseStep ==
    ASSUME RegInv, Elapse
    PROVE  RegInv' /\ Maps /\ ~ Revives
<1>1. /\ now' = now + 1
      /\ UNCHANGED <<data, registryVars, globalBoostFactor, boostMinuteDecayFactor, ownerVars, batch>>
  BY DEF Elapse, Tick
<1>2. BoostInv /\ ListInv /\ now \in Nat /\ boostMinuteDecayFactor \in DecayBases
  BY DEF RegInv, BoostInv
<1>3. \A x \in Ids : data.nodes[x].since \in Nat /\ data.nodes[x].boost \in Nat
  BY <1>2 DEF ListInv, Linked, Data, Node
<1>4. BoostInv' /\ batch' \in Seq(Borrowers)
  BY <1>1, <1>2, <1>3 DEF RegInv, BoostInv
<1>5. RegInv'
  BY <1>1, <1>4, SameList
<1>6. Maps
  BY <1>1, QuietMaps
<1>7. ASSUME NEW b \in Borrowers PROVE ~ (DecayedBoost(b)' > DecayedBoost(b))
  <2>1. PICK boost \in Nat, since \in Nat :
           boost = data.nodes[b].boost /\ since = data.nodes[b].since /\ since <= now
    BY <1>2, <1>3 DEF BoostInv, Ids
  <2>2. PICK t \in Nat : t = now - since
    BY <1>2, <2>1
  <2>3. PICK base \in DecayBases : base = boostMinuteDecayFactor
    BY <1>2
  <2>4. PICK pow : pow = DecPow(base)
    OBVIOUS
  <2>5. pow[t] \in Nat \ {0} /\ pow[t + 1] \in Nat \ {0} /\ pow[t] <= pow[t + 1]
    BY <2>4, PowersOfBase
  <2>6. now' - since = t + 1
    BY <1>1, <1>2, <2>1, <2>2
  <2>7. DecayedBoost(b) = boost \div pow[t] /\ DecayedBoost(b)' = boost \div pow[t + 1]
    BY <1>1, <2>1, <2>2, <2>3, <2>4, <2>6 DEF DecayedBoost, CalculateDecayedBoost
  <2>8. boost \div pow[t + 1] <= boost \div pow[t]
    BY <2>5, DividedFurther
  <2>9. boost \div pow[t + 1] \in Nat /\ boost \div pow[t] \in Nat
    BY <2>5, QuotientNat
  <2> QED
    BY <2>7, <2>8, <2>9
<1>8. ~ Revives
  BY <1>7 DEF Revives
<1> QED
  BY <1>5, <1>6, <1>8

\* Nothing is listed at first.
LEMMA RegInit ==
    ASSUME Init
    PROVE  RegInv /\ Order!OrderInit
<1>1. /\ data = EmptyData /\ underCollateralizedTroves = {}
      /\ underCollateralizedTrovesSize = 0 /\ globalBoostFactor = 0
      /\ boostMinuteDecayFactor = 2 /\ now = 0
      /\ OwnersInit /\ batch = <<>>
  BY DEF Init, ListInit
<1>2. EmptyNode \in Node /\ EmptyData \in Data
  BY DEF EmptyNode, EmptyData, Node, Data, Ids
<1>3. \A x \in Ids : EmptyData.nodes[x] = EmptyNode
  BY DEF EmptyData
<1>4. Linked(EmptyData, <<>>)
  <2>1. <<>> \in Seq(Borrowers) /\ Len(<<>>) = 0
    OBVIOUS
  <2>2. \A i \in 1..Len(<<>>) : FALSE
    BY <2>1
  <2>3. EmptyData.size = 0 /\ EmptyData.head = Null /\ EmptyData.tail = Null
    BY DEF EmptyData
  <2>4. At(<<>>, 1) = Null /\ At(<<>>, Len(<<>>)) = Null
    BY <2>2, <2>1 DEF At
  <2> QED
    BY <1>2, <1>3, <2>1, <2>2, <2>3, <2>4 DEF Linked
<1>5. Walk = <<>>
  <2>1. PICK e : e = <<>>
    OBVIOUS
  <2>2. Linked(data, e)
    BY <1>1, <1>4, <2>1
  <2> QED
    BY <2>1, <2>2, WalkIs
<1>6. ListInv
  <2>1. Descends(data, <<>>)
    BY DEF Descends
  <2> QED
    BY <1>1, <1>4, <1>5, <2>1 DEF ListInv
<1>7. OwnersInv
  BY <1>1, OwnersInvInit
<1>8. ActiveListed /\ data.size = Len(TroveOwners) /\ batch \in Seq(Borrowers)
  <2>1. \A b \in Borrowers : ~ contains(data, b) /\ status[b] # "active"
    BY <1>1, <1>3 DEF contains, EmptyNode, Ids, OwnersInit
  <2>2. data.size = 0 /\ Len(TroveOwners) = 0
    BY <1>1 DEF EmptyData, OwnersInit
  <2> QED
    BY <1>1, <2>1, <2>2 DEF ActiveListed
<1>9. BoostInv
  <2>1. MaxBoost \in Nat
    BY LargestBoost
  <2>2. \A x \in Ids : data.nodes[x].boost = 0 /\ data.nodes[x].since = 0
    BY <1>1, <1>3 DEF EmptyNode
  <2> QED
    BY <1>1, <2>1, <2>2, SortedTrovesAssumption DEF BoostInv
<1>10. Order!OrderInit
  <2>1. [b \in Borrowers |-> data.nodes[b].oldBoostedAICR] = [b \in Borrowers |-> 0]
    BY <1>1, <1>3 DEF EmptyNode, Ids
  <2> QED
    BY <1>1, <1>5, <2>1 DEF Order!OrderInit
<1> QED
  BY <1>6, <1>7, <1>8, <1>9, <1>10 DEF RegInv

\* Every step keeps the invariant, is a step of the abstract list or none, and
\* revives no boost.
LEMMA RegNext ==
    ASSUME RegInv, [Next]_vars
    PROVE  RegInv' /\ Maps /\ ~ Revives
<1>1. ASSUME NEW b \in Borrowers, NEW AICR \in AICRs, NEW p \in Ids, NEW n \in Ids,
             NEW fee \in BoostFees, OpenTrove(b, AICR, p, n, fee)
      PROVE  RegInv' /\ Maps /\ ~ Revives
  BY <1>1, OpenStep
<1>2. ASSUME NEW b \in Borrowers, NEW AICR \in AICRs, NEW p \in Ids, NEW n \in Ids,
             NEW fee \in BoostFees, NEW w \in VCWeights, AdjustTrove(b, AICR, p, n, fee, w)
      PROVE  RegInv' /\ Maps /\ ~ Revives
  BY <1>2, AdjustStep
<1>3. ASSUME NEW b \in Borrowers, NEW AICR \in AICRs, NEW p \in Ids, NEW n \in Ids,
             RedeemPartially(b, AICR, p, n)
      PROVE  RegInv' /\ Maps /\ ~ Revives
  <2>1. /\ contains(data, b) /\ AICR # 0 /\ data' = ReInsert(data, b, AICR, p, n)
        /\ UNCHANGED <<registryVars, boostVars, ownerVars>> /\ batch' = batch
    BY <1>3 DEF RedeemPartially, CanReInsert
  <2>2. batch' \in Seq(Borrowers)
    BY <2>1 DEF RegInv
  <2> QED
    BY <2>1, <2>2, ReInsertStep
<1>4. ASSUME NEW b \in Borrowers, CloseTrove(b)
      PROVE  RegInv' /\ Maps /\ ~ Revives
  BY <1>4, CloseStep
<1>5. ASSUME NEW k \in 1..MaxBatch, NEW bs \in [1..k -> Borrowers], UpdateTroves(bs)
      PROVE  RegInv' /\ Maps /\ ~ Revives
  <2>1. bs \in Seq(Borrowers)
    BY MaxBatchAssumption, SeqDef
  <2>2. UNCHANGED <<data, registryVars, ownerVars>> /\ batch' = bs /\ UNCHANGED boostVars
    BY <1>5 DEF UpdateTroves, listVars, registryVars, boostVars
  <2> QED
    BY <2>1, <2>2, QuietStep
<1>6. ASSUME NEW AICR \in AICRs, NEW p \in Ids, NEW n \in Ids, UpdateNextTrove(AICR, p, n)
      PROVE  RegInv' /\ Maps /\ ~ Revives
  <2>1. batch \in Seq(Borrowers) /\ batch # <<>>
    BY <1>6 DEF UpdateNextTrove, RegInv
  <2>2. PICK b \in Borrowers : b = Head(batch)
    BY <2>1, HeadTailProperties
  <2>3. Tail(batch) \in Seq(Borrowers)
    BY <2>1, HeadTailProperties
  <2>4. /\ contains(data, b) /\ AICR # 0 /\ data' = ReInsert(data, b, AICR, p, n)
        /\ UNCHANGED <<registryVars, boostVars, ownerVars>> /\ batch' = Tail(batch)
    BY <1>6, <2>2 DEF UpdateNextTrove, CanReInsert
  <2> QED
    BY <2>3, <2>4, ReInsertStep
<1>7. ASSUME NEW b \in Borrowers, NEW u \in BOOLEAN, UpdateUnderCollateralizedTroves(b, u)
      PROVE  RegInv' /\ Maps /\ ~ Revives
  BY <1>7, ReportStep
<1>8. ASSUME Govern PROVE RegInv' /\ Maps /\ ~ Revives
  <2>1. /\ UNCHANGED <<ownerVars, batch>>
        /\ \/ \E factor \in BoostFactors : ChangeGlobalBoostMultiplier(factor)
           \/ \E base \in DecayBases : ChangeBoostMinuteDecayFactor(base)
    BY <1>8 DEF Govern
  <2>2. UNCHANGED <<data, registryVars>>
    BY <2>1 DEF ChangeGlobalBoostMultiplier, ChangeBoostMinuteDecayFactor
  <2>3. batch' \in Seq(Borrowers)
    BY <2>1 DEF RegInv
  <2> QED
    BY <2>1, <2>2, <2>3, QuietStep
<1>9. ASSUME Elapse PROVE RegInv' /\ Maps /\ ~ Revives
  BY <1>9, ElapseStep
<1>10. ASSUME UNCHANGED vars PROVE RegInv' /\ Maps /\ ~ Revives
  <2>1. UNCHANGED <<data, registryVars, ownerVars>> /\ UNCHANGED boostVars /\ batch' = batch
    BY <1>10 DEF vars, listVars, registryVars, boostVars
  <2>2. batch' \in Seq(Borrowers)
    BY <2>1 DEF RegInv
  <2> QED
    BY <2>1, <2>2, QuietStep
<1> QED
  BY <1>1, <1>2, <1>3, <1>4, <1>5, <1>6, <1>7, <1>8, <1>9, <1>10 DEF Next

\* The invariant holds throughout.
LEMMA RegInvariant == Spec => []RegInv
<1>1. Init => RegInv
  BY RegInit
<1>2. RegInv /\ [Next]_vars => RegInv'
  BY RegNext
<1> QED
  BY <1>1, <1>2, PTL DEF Spec

\* What the invariant says in the words of the three properties.
LEMMA LinkedIsWellLinked == ASSUME RegInv PROVE WellLinked
<1>1. PICK s : s = Walk
  OBVIOUS
<1>2. PICK d : d = data
  OBVIOUS
<1>3. Linked(d, s)
  BY <1>1, <1>2 DEF RegInv, ListInv
<1>4. PICK n \in Nat : n = Len(s) /\ n = d.size
  BY <1>3, Positions DEF Linked
<1>5. \A i \in 1..n : /\ contains(d, s[i])
                      /\ d.nodes[s[i]].prevId = IF i = 1 THEN Null ELSE s[i - 1]
  <2> TAKE i \in 1..n
  <2>1. contains(d, s[i]) /\ d.nodes[s[i]].prevId = At(s, i - 1)
    BY <1>3, <1>4 DEF Linked, contains
  <2>2. At(s, i - 1) = IF i = 1 THEN Null ELSE s[i - 1]
    BY <1>4 DEF At
  <2> QED
    BY <2>1, <2>2
<1>6. d.tail = IF n = 0 THEN Null ELSE s[n]
  BY <1>3, <1>4 DEF Linked, At
<1>7. n > 0 => d.nodes[d.tail].nextId = Null
  <2>1. SUFFICES ASSUME n > 0 PROVE d.nodes[d.tail].nextId = Null
    OBVIOUS
  <2>2. n \in 1..Len(s) /\ n + 1 \notin 1..Len(s)
    BY <1>4, <2>1
  <2>3. d.nodes[s[n]].nextId = At(s, n + 1)
    BY <1>3, <2>2 DEF Linked
  <2> QED
    BY <1>6, <2>1, <2>2, <2>3 DEF At
<1>8. n = 0 => d.head = Null
  BY <1>3, <1>4 DEF Linked, At
<1>9. {b \in Borrowers : status[b] = "active"} = {s[i] : i \in 1..n}
  <2>1. ASSUME NEW b \in Borrowers PROVE status[b] = "active" <=> \E i \in 1..n : s[i] = b
    <3>1. status[b] = "active" <=> contains(d, b)
      BY <1>2 DEF RegInv, ActiveListed
    <3>2. contains(d, b) => \E i \in 1..n : s[i] = b
      <4>1. b \in Ids
        BY DEF Ids
      <4>2. contains(d, b) => \E i \in 1..Len(s) : s[i] = b
        BY <1>3, <4>1, ListedAt
      <4> QED
        BY <1>4, <4>2
    <3> QED
      BY <1>5, <3>1, <3>2
  <2>2. \A i \in 1..n : s[i] \in Borrowers
    BY <1>3, <1>4, Positions
  <2> QED
    BY <2>1, <2>2
<1>10. \A id \in Ids : contains(d, id) \/ d.nodes[id] = EmptyNode
  BY <1>3, ListedAt
<1> QED
  BY <1>1, <1>2, <1>4, <1>5, <1>6, <1>7, <1>8, <1>9, <1>10 DEF WellLinked

\* A listed trove is active, and an active one stands in the array at its index.
LEMMA OwnersAreListed == ASSUME RegInv PROVE ListMatchesOwners
<1>1. ASSUME NEW b \in Borrowers
      PROVE  contains(data, b) <=> \E i \in DOMAIN TroveOwners : TroveOwners[i] = b
  <2>1. contains(data, b) <=> status[b] = "active"
    BY DEF RegInv, ActiveListed
  <2>2. TroveOwners \in Seq(Borrowers) /\ arrayIndex[b] \in Nat
    BY DEF RegInv, OwnersInv, OwnersTypeOK
  <2>3. DOMAIN TroveOwners = 1..Len(TroveOwners) /\ Len(TroveOwners) \in Nat
    BY <2>2, LenProperties
  <2>4. status[b] = "active" => arrayIndex[b] < Len(TroveOwners) /\ TroveOwners[arrayIndex[b] + 1] = b
    BY DEF RegInv, OwnersInv, OwnersIndexed
  <2>5. status[b] = "active" => \E i \in DOMAIN TroveOwners : TroveOwners[i] = b
    BY <2>2, <2>3, <2>4
  <2>6. (\E i \in DOMAIN TroveOwners : TroveOwners[i] = b) => status[b] = "active"
    BY <2>3 DEF RegInv, OwnersInv, OwnersIndexed
  <2> QED
    BY <2>1, <2>5, <2>6
<1> QED
  BY <1>1 DEF RegInv, ListMatchesOwners

\* The walk descends in the keys that the abstract sequence reads.
LEMMA ListDescends == ASSUME RegInv PROVE SortedByOldBoostedAICR
<1>1. PICK s : s = Walk
  OBVIOUS
<1>2. PICK d : d = data
  OBVIOUS
<1>3. Linked(d, s) /\ Descends(d, s)
  BY <1>1, <1>2 DEF RegInv, ListInv
<1>4. PICK K : K = [b \in Borrowers |-> d.nodes[b].oldBoostedAICR]
  OBVIOUS
<1>5. \A i \in 1..Len(s) : K[s[i]] = d.nodes[s[i]].oldBoostedAICR
  BY <1>3, <1>4, Positions
<1>6. Order!Sorted(s, K)
  BY <1>3, <1>5 DEF Descends, Order!Sorted
<1> QED
  BY <1>1, <1>2, <1>4, <1>6 DEF SortedByOldBoostedAICR, Order!Descending

\* Whatever hints callers give, the two link directions stay one list without
\* gaps or cycles, and it holds the active troves (_insert, _remove).
THEOREM ListStaysLinked == Spec => []WellLinked
  BY RegInvariant, LinkedIsWellLinked, PTL

\* SortedTroves and the TroveOwners array of TroveManager name the same troves
\* at every step, in the middle of updateTroves too.
THEOREM ListAndOwnersAgree == Spec => []ListMatchesOwners
  BY RegInvariant, OwnersAreListed, PTL

\* TroveManager's arrayIndex leads to the owner's slot whatever the list and its
\* callers do, so that closing a trove drops its own entry.
THEOREM OwnersStayIndexed == Spec => []OwnersIndexed
<1>1. RegInv => OwnersIndexed
  BY DEF RegInv, OwnersInv
<1> QED
  BY <1>1, RegInvariant, PTL

\* Along the list the boosted AICRs of the last insertion descend, although an
\* insertion compares two neighbours and trusts the hints it can verify.
THEOREM ListStaysSorted == Spec => []SortedByOldBoostedAICR
  BY RegInvariant, ListDescends, PTL

\* The linked list with hints, boosts and the decaying clock implements the
\* abstract sequence of TroveOrder: every handler is one of its steps or none.
THEOREM ListImplementsOrder == Spec => RefinesTroveOrder
<1>1. Init => Order!OrderInit
  BY RegInit
<1>2. RegInv /\ [Next]_vars => [Order!OrderNext]_(Order!orderVars)
  <2> SUFFICES ASSUME RegInv, [Next]_vars PROVE [Order!OrderNext]_(Order!orderVars)
    OBVIOUS
  <2>1. Maps
    BY RegNext
  <2> QED
    BY <2>1 DEF Maps, Order!OrderNext
<1> QED
  BY <1>1, <1>2, RegInvariant, PTL DEF Spec, RefinesTroveOrder, Order!OrderSpec

\* No redemption, bot, opening or closing revives a decayed boost: a boost gains
\* worth only in an adjustment of its own trove, by the fee that is paid in that
\* step, and never beyond the boost of that fee.
THEOREM BoostsAreBought == Spec => DecayedBoostOnlyBought
<1> DEFINE Bought == \A b \in Borrowers :
          (/\ contains(data, b) /\ contains(data, b)'
           /\ boostMinuteDecayFactor' = boostMinuteDecayFactor
           /\ DecayedBoost(b)' > DecayedBoost(b))
             => \E fee \in BoostFees : DecayedBoost(b)' <= NewBoost(fee) /\ Pays(b, fee)
<1>1. RegInv /\ [Next]_vars => [Bought]_vars
  <2> SUFFICES ASSUME RegInv, [Next]_vars PROVE Bought
    OBVIOUS
  <2>1. ~ Revives
    BY RegNext
  <2> QED
    BY <2>1 DEF Revives
<1> QED
  BY <1>1, RegInvariant, PTL DEF Spec, DecayedBoostOnlyBought

=============================================================================
