---------------------------- MODULE Parts_proofs ----------------------------
(***************************************************************************)
(* Theorems about the modules that stand alone, one section for each: the  *)
(* order of the troves, the rewards of redistributions and of a farm, the  *)
(* base rate and the fee curves, the controller and its lists.  None of    *)
(* the modules shares a variable with another one, and no proof uses a     *)
(* fact of another section.                                                *)
(***************************************************************************)
EXTENDS TroveOrder, RewardPool, Farm, BaseRate, FeeCurve, Controller,
        CollateralLists, DataFacts

-----------------------------------------------------------------------------
(***************************************************************************)
(* For any finite set of borrowers, the sequence of troves stays sorted    *)
(* and free of repetitions although every insertion looks at two           *)
(* neighbours only, and the under-collateralised counter is exact.         *)
(*                                                                         *)
(* The inductive invariant is the conjunction of all four properties:      *)
(* an insertion keeps the sequence sorted because it was sorted (the       *)
(* neighbours bound everything beyond them), and keeps keys meaningful     *)
(* because the trove whose key it writes is nowhere else in the sequence.  *)
(***************************************************************************)

OrderInv == OrderTypeOK /\ NoRepetition /\ Descending /\ RegistryExact

-----------------------------------------------------------------------------
(* Inserting and removing, on any sorted sequence without repetitions.     *)

\* An insertion that fits between its neighbours fits everywhere.
LEMMA InsertKeepsSorted ==
    ASSUME NEW s \in Seq(Borrowers), NEW key \in [Borrowers -> Nat],
           NEW b \in Borrowers, NEW k \in Nat, NEW i \in 0..Len(s),
           b \notin Elements(s), Fits(s, key, i, k),
           Distinct(s), Sorted(s, key)
    PROVE  LET t == InsertAt(s, i + 1, b)
               key2 == [key EXCEPT ![b] = k]
           IN  /\ t \in Seq(Borrowers)
               /\ Elements(t) = Elements(s) \cup {b}
               /\ Distinct(t)
               /\ Sorted(t, key2)
<1> DEFINE t == InsertAt(s, i + 1, b)
           key2 == [key EXCEPT ![b] = k]
           n == Len(s)
           old(j) == IF j <= i THEN j ELSE j - 1
<1>1. /\ t \in Seq(Borrowers) /\ Len(t) = n + 1
      /\ \A j \in 1..(n + 1) :
            t[j] = IF j <= i THEN s[j] ELSE IF j = i + 1 THEN b ELSE s[j - 1]
    BY InsertAtProperties
<1>2. n \in Nat /\ i \in 0..n /\ \A j \in 1..n : s[j] \in Borrowers /\ s[j] # b
    BY LenProperties, ElementOfSeq DEF Elements
<1>3. /\ \A j \in Borrowers : j # b => key2[j] = key[j]
      /\ key2[b] = k
    OBVIOUS
<1>4. /\ \A j, l \in 1..n : s[j] = s[l] => j = l
      /\ \A j, l \in 1..n : j <= l => key[s[j]] >= key[s[l]]
    BY DEF Distinct, Sorted
<1>5. /\ i > 0 => key[s[i]] >= k
      /\ i < n => k >= key[s[i + 1]]
    BY DEF Fits
<1> HIDE DEF t, key2, n
<1>6. \A j \in 1..(n + 1) : j # i + 1 =>
         /\ old(j) \in 1..n
         /\ t[j] = s[old(j)] /\ t[j] # b
         /\ key2[t[j]] = key[s[old(j)]]
    <2> SUFFICES ASSUME NEW j \in 1..(n + 1), j # i + 1
                 PROVE  /\ old(j) \in 1..n
                        /\ t[j] = s[old(j)] /\ t[j] # b
                        /\ key2[t[j]] = key[s[old(j)]]
        OBVIOUS
    <2>1. old(j) \in 1..n
        BY <1>2
    <2>2. t[j] = s[old(j)]
        BY <1>1, <1>2
    <2>3. QED
        BY <1>2, <1>3, <2>1, <2>2
<1>7. t[i + 1] = b /\ i + 1 \in 1..(n + 1)
    BY <1>1, <1>2
<1>8. ASSUME NEW j \in 1..(n + 1), NEW l \in 1..(n + 1), t[j] = t[l]
      PROVE  j = l
    <2>1. CASE j = i + 1 \/ l = i + 1
        BY <1>6, <1>7, <1>8, <2>1
    <2>2. CASE j # i + 1 /\ l # i + 1
        <3>1. old(j) \in 1..n /\ t[j] = s[old(j)]
            BY <1>6, <2>2
        <3>2. old(l) \in 1..n /\ t[l] = s[old(l)]
            BY <1>6, <2>2
        <3>3. old(j) = old(l)
            <4> HIDE DEF old
            <4>1. s[old(j)] = s[old(l)]
                BY <1>8, <3>1, <3>2
            <4>2. QED
                BY <1>4, <3>1, <3>2, <4>1
        <3>4. QED
            BY <1>2, <2>2, <3>3
    <2>3. QED
        BY <2>1, <2>2
<1>9. ASSUME NEW j \in 1..(n + 1), NEW l \in 1..(n + 1), j <= l
      PROVE  key2[t[j]] >= key2[t[l]]
    <2>0. \A x \in 1..n : key[s[x]] \in Nat
        BY <1>2
    <2>1. CASE j = i + 1 /\ l = i + 1
        BY <1>3, <1>7, <2>1
    <2>2. CASE j = i + 1 /\ l # i + 1
        <3>1. l - 1 \in 1..n /\ i + 1 \in 1..n /\ i + 1 <= l - 1 /\ i < n
            BY <1>2, <1>9, <2>2
        <3>2. key2[t[l]] = key[s[l - 1]]
            <4>1. key2[t[l]] = key[s[old(l)]]
                BY <1>6, <1>9, <2>2
            <4>2. old(l) = l - 1
                BY <1>2, <1>9, <2>2, <3>1
            <4>3. QED
                BY <4>1, <4>2
        <3>3. key[s[i + 1]] >= key[s[l - 1]] /\ k >= key[s[i + 1]]
            BY <1>4, <1>5, <3>1
        <3>4. QED
            BY <1>3, <1>7, <2>0, <2>2, <3>1, <3>2, <3>3
    <2>3. CASE j # i + 1 /\ l = i + 1
        <3>1. j \in 1..n /\ i \in 1..n /\ j <= i /\ i > 0
            BY <1>2, <1>9, <2>3
        <3>2. key2[t[j]] = key[s[j]]
            BY <1>2, <1>6, <2>3, <3>1
        <3>3. key[s[j]] >= key[s[i]] /\ key[s[i]] >= k
            BY <1>4, <1>5, <3>1
        <3>4. key2[t[l]] = k /\ key[s[j]] \in Nat /\ key[s[i]] \in Nat
            BY <1>3, <1>7, <2>0, <2>3, <3>1
        <3>5. QED
            BY <3>2, <3>3, <3>4
    <2>4. CASE j # i + 1 /\ l # i + 1
        <3>1. old(j) \in 1..n /\ old(l) \in 1..n /\ old(j) <= old(l)
            BY <1>2, <1>6, <1>9, <2>4
        <3>2. key2[t[j]] = key[s[old(j)]] /\ key2[t[l]] = key[s[old(l)]]
            BY <1>6, <2>4
        <3>3. QED
            <4> HIDE DEF old
            <4>1. key[s[old(j)]] >= key[s[old(l)]]
                BY <1>4, <3>1
            <4>2. QED
                BY <3>2, <4>1
    <2>5. QED
        BY <2>1, <2>2, <2>3, <2>4
<1>10. Elements(t) = Elements(s) \cup {b}
    <2>1. ASSUME NEW j \in 1..(n + 1)
          PROVE  t[j] \in Elements(s) \cup {b}
        <3>1. CASE j = i + 1
            BY <1>7, <3>1
        <3>2. CASE j # i + 1
            <4>1. old(j) \in 1..n /\ t[j] = s[old(j)]
                BY <1>6, <3>2
            <4>2. QED
                BY <4>1 DEF Elements, n
        <3>3. QED
            BY <3>1, <3>2
    <2>2. ASSUME NEW j \in 1..n
          PROVE  \E l \in 1..(n + 1) : t[l] = s[j]
        <3>1. CASE j <= i
            <4>1. j \in 1..(n + 1)
                BY <1>2
            <4>2. t[j] = s[j]
                BY <1>1, <3>1, <4>1
            <4>3. QED
                BY <4>1, <4>2
        <3>2. CASE j > i
            <4>1. j + 1 \in 1..(n + 1) /\ ~(j + 1 <= i) /\ j + 1 # i + 1 /\ j + 1 - 1 = j
                BY <1>2, <3>2
            <4>2. t[j + 1] = s[j]
                BY <1>1, <4>1
            <4>3. QED
                BY <4>1, <4>2
        <3>3. QED
            BY <1>2, <3>1, <3>2
    <2>3. Elements(t) = {t[j] : j \in 1..(n + 1)} /\ Elements(s) = {s[j] : j \in 1..n}
        BY <1>1 DEF Elements, n
    <2>4. b \in Elements(t)
        BY <1>7, <2>3
    <2>5. QED
        BY <2>1, <2>2, <2>3, <2>4
<1>11. QED
    BY <1>1, <1>8, <1>9, <1>10 DEF Distinct, Sorted, t, key2

\* A removal leaves a sorted sequence that no longer holds the trove, so its
\* key may change to anything.
LEMMA RemoveKeepsSorted ==
    ASSUME NEW s \in Seq(Borrowers), NEW key \in [Borrowers -> Nat],
           NEW i \in 1..Len(s), Distinct(s), Sorted(s, key)
    PROVE  LET t == RemoveAt(s, i)
           IN  /\ t \in Seq(Borrowers)
               /\ Elements(t) = Elements(s) \ {s[i]}
               /\ Distinct(t)
               /\ Sorted(t, key)
<1> DEFINE t == RemoveAt(s, i)
           n == Len(s)
           old(j) == IF j < i THEN j ELSE j + 1
<1>1. /\ t \in Seq(Borrowers) /\ Len(t) = n - 1
      /\ \A j \in 1..(n - 1) : t[j] = IF j < i THEN s[j] ELSE s[j + 1]
    BY RemoveAtProperties
<1>2. n \in Nat /\ i \in 1..n
    BY LenProperties
<1>3. /\ \A j, l \in 1..n : s[j] = s[l] => j = l
      /\ \A j, l \in 1..n : j <= l => key[s[j]] >= key[s[l]]
    BY DEF Distinct, Sorted
<1> HIDE DEF t, n
<1>4. \A j \in 1..(n - 1) : old(j) \in 1..n /\ old(j) # i /\ t[j] = s[old(j)]
    <2> SUFFICES ASSUME NEW j \in 1..(n - 1)
                 PROVE  old(j) \in 1..n /\ old(j) # i /\ t[j] = s[old(j)]
        OBVIOUS
    <2>1. old(j) \in 1..n /\ old(j) # i
        BY <1>2
    <2>2. t[j] = s[old(j)]
        BY <1>1, <1>2
    <2>3. QED
        BY <2>1, <2>2
<1>5. ASSUME NEW j \in 1..(n - 1), NEW l \in 1..(n - 1), t[j] = t[l]
      PROVE  j = l
    <2>1. old(j) = old(l)
        BY <1>3, <1>4, <1>5
    <2>2. QED
        BY <1>2, <2>1
<1>6. ASSUME NEW j \in 1..(n - 1), NEW l \in 1..(n - 1), j <= l
      PROVE  key[t[j]] >= key[t[l]]
    <2>1. old(j) <= old(l)
        BY <1>2, <1>6
    <2>2. QED
        BY <1>3, <1>4, <2>1
<1>7. Elements(t) = Elements(s) \ {s[i]}
    <2>1. ASSUME NEW j \in 1..(n - 1)
          PROVE  t[j] \in Elements(s) \ {s[i]}
        BY <1>2, <1>3, <1>4 DEF Elements, n
    <2>2. ASSUME NEW j \in 1..n, s[j] # s[i]
          PROVE  \E l \in 1..(n - 1) : t[l] = s[j]
        <3>1. CASE j < i
            <4>1. j \in 1..(n - 1) /\ t[j] = s[j]
                BY <1>1, <1>2, <3>1
            <4>2. QED
                BY <4>1
        <3>2. CASE j > i
            <4>1. j - 1 \in 1..(n - 1) /\ ~(j - 1 < i) /\ j - 1 + 1 = j
                BY <1>2, <3>2
            <4>2. t[j - 1] = s[j]
                BY <1>1, <4>1
            <4>3. QED
                BY <4>1, <4>2
        <3>3. QED
            BY <1>2, <2>2, <3>1, <3>2
    <2>3. Elements(t) = {t[j] : j \in 1..(n - 1)} /\ Elements(s) = {s[j] : j \in 1..n}
        BY <1>1 DEF Elements, n
    <2>4. Elements(t) \subseteq Elements(s) \ {s[i]}
        BY <2>1, <2>3
    <2>5. Elements(s) \ {s[i]} \subseteq Elements(t)
        BY <2>2, <2>3
    <2>6. QED
        BY <2>4, <2>5
<1>8. QED
    BY <1>1, <1>5, <1>6, <1>7 DEF Distinct, Sorted, t

LEMMA RekeyKeepsSorted ==
    ASSUME NEW s \in Seq(Borrowers), NEW key \in [Borrowers -> Nat],
           NEW b \in Borrowers, NEW k \in Nat, b \notin Elements(s), Sorted(s, key)
    PROVE  Sorted(s, [key EXCEPT ![b] = k])
<1>1. \A j \in 1..Len(s) : s[j] \in Borrowers /\ s[j] # b
    BY ElementOfSeq DEF Elements
<1>2. QED
    BY <1>1 DEF Sorted

-----------------------------------------------------------------------------
(* The inductive invariant.                                                *)

LEMMA OrderInvInit == OrderInit => OrderInv
<1> SUFFICES ASSUME OrderInit PROVE OrderInv
    OBVIOUS
<1>1. OrderTypeOK
    BY DEF OrderInit, OrderTypeOK
<1>2. NoRepetition /\ Descending
    BY DEF OrderInit, NoRepetition, Descending, Distinct, Sorted
<1>3. RegistryExact
    BY FS_EmptySet DEF OrderInit, RegistryExact
<1>4. QED
    BY <1>1, <1>2, <1>3 DEF OrderInv

LEMMA EnterKeepsOrderInv ==
    ASSUME OrderInv, NEW b \in Borrowers, NEW k \in Keys, Enter(b, k)
    PROVE  OrderInv'
<1> USE DEF OrderInv, OrderTypeOK
<1>1. PICK i \in 0..Len(order) : /\ Fits(order, boostedAICR, i, k)
                                 /\ order' = InsertAt(order, i + 1, b)
    BY DEF Enter
<1>2. k \in Nat /\ b \notin Elements(order)
      /\ boostedAICR' = [boostedAICR EXCEPT ![b] = k]
    BY KeysPositive DEF Enter, Listed
<1>3. /\ order' \in Seq(Borrowers)
      /\ Elements(order') = Elements(order) \cup {b}
      /\ Distinct(order')
      /\ Sorted(order', boostedAICR')
    <2>1. /\ order \in Seq(Borrowers) /\ boostedAICR \in [Borrowers -> Nat]
          /\ Distinct(order) /\ Sorted(order, boostedAICR)
        BY DEF NoRepetition, Descending
    <2>2. /\ InsertAt(order, i + 1, b) \in Seq(Borrowers)
          /\ Elements(InsertAt(order, i + 1, b)) = Elements(order) \cup {b}
          /\ Distinct(InsertAt(order, i + 1, b))
          /\ Sorted(InsertAt(order, i + 1, b), [boostedAICR EXCEPT ![b] = k])
        BY <1>1, <1>2, <2>1, InsertKeepsSorted
    <2>3. QED
        BY <1>1, <1>2, <2>2
<1>4. OrderTypeOK'
    BY <1>2, <1>3 DEF Enter
<1>5. RegistryExact'
    BY <1>3 DEF Enter, RegistryExact, Listed
<1>6. QED
    BY <1>3, <1>4, <1>5 DEF NoRepetition, Descending

LEMMA LeaveKeepsOrderInv ==
    ASSUME OrderInv, NEW b \in Borrowers, Leave(b)
    PROVE  OrderInv'
<1> USE DEF OrderInv, OrderTypeOK
<1>1. PICK i \in 1..Len(order) : order[i] = b /\ order' = RemoveAt(order, i)
    BY DEF Leave
<1>2. /\ order' \in Seq(Borrowers)
      /\ Elements(order') = Elements(order) \ {b}
      /\ Distinct(order')
      /\ Sorted(order', boostedAICR)
    BY <1>1, RemoveKeepsSorted DEF NoRepetition, Descending
<1>3. boostedAICR' = [boostedAICR EXCEPT ![b] = 0] /\ flagged' = flagged \ {b}
    BY DEF Leave
<1>4. Sorted(order', boostedAICR')
    BY <1>2, <1>3, RekeyKeepsSorted
<1>5. /\ IsFiniteSet(flagged)
      /\ Cardinality(flagged) \in Nat /\ Cardinality(flagged') \in Nat
      /\ Cardinality(flagged') = IF b \in flagged THEN Cardinality(flagged) - 1
                                                  ELSE Cardinality(flagged)
    BY <1>3, BorrowersFinite, FS_Subset, FS_RemoveElement, FS_CardinalityType
<1>6. flaggedSize' = Cardinality(flagged')
    BY <1>5 DEF Leave, RegistryExact
<1>7. OrderTypeOK'
    BY <1>2, <1>3, <1>5, <1>6
<1>8. RegistryExact'
    BY <1>2, <1>3, <1>6 DEF RegistryExact, Listed
<1>9. QED
    BY <1>2, <1>4, <1>7, <1>8 DEF NoRepetition, Descending

LEMMA MoveKeepsOrderInv ==
    ASSUME OrderInv, NEW b \in Borrowers, NEW k \in Keys, Move(b, k)
    PROVE  OrderInv'
<1> USE DEF OrderInv, OrderTypeOK
<1>1. PICK i \in 1..Len(order) :
          /\ order[i] = b
          /\ \E j \in 0..Len(RemoveAt(order, i)) :
                /\ Fits(RemoveAt(order, i), boostedAICR, j, k)
                /\ order' = InsertAt(RemoveAt(order, i), j + 1, b)
    BY DEF Move
<1> DEFINE rest == RemoveAt(order, i)
<1>2. /\ rest \in Seq(Borrowers)
      /\ Elements(rest) = Elements(order) \ {b}
      /\ Distinct(rest)
      /\ Sorted(rest, boostedAICR)
    BY <1>1, RemoveKeepsSorted DEF NoRepetition, Descending
<1>3. PICK j \in 0..Len(rest) : /\ Fits(rest, boostedAICR, j, k)
                                /\ order' = InsertAt(rest, j + 1, b)
    BY <1>1
<1>4. k \in Nat /\ b \in Elements(order)
      /\ boostedAICR' = [boostedAICR EXCEPT ![b] = k]
    BY <1>1, KeysPositive DEF Move, Elements
<1> HIDE DEF rest
<1>5. /\ order' \in Seq(Borrowers)
      /\ Elements(order') = Elements(rest) \cup {b}
      /\ Distinct(order')
      /\ Sorted(order', boostedAICR')
    <2>1. boostedAICR \in [Borrowers -> Nat] /\ b \notin Elements(rest)
        BY <1>2
    <2>2. /\ InsertAt(rest, j + 1, b) \in Seq(Borrowers)
          /\ Elements(InsertAt(rest, j + 1, b)) = Elements(rest) \cup {b}
          /\ Distinct(InsertAt(rest, j + 1, b))
          /\ Sorted(InsertAt(rest, j + 1, b), [boostedAICR EXCEPT ![b] = k])
        BY <1>2, <1>3, <1>4, <2>1, InsertKeepsSorted
    <2>3. QED
        BY <1>3, <1>4, <2>2
<1>6. Elements(order') = Elements(order)
    BY <1>2, <1>4, <1>5
<1>7. OrderTypeOK'
    BY <1>4, <1>5 DEF Move
<1>8. RegistryExact'
    BY <1>6 DEF Move, RegistryExact, Listed
<1>9. QED
    BY <1>5, <1>7, <1>8 DEF NoRepetition, Descending

LEMMA ReportKeepsOrderInv ==
    ASSUME OrderInv, NEW b \in Borrowers, Flag(b) \/ Unflag(b)
    PROVE  OrderInv'
<1> USE DEF OrderInv, OrderTypeOK
<1>1. UNCHANGED <<order, boostedAICR>>
    BY DEF Flag, Unflag
<1>2. IsFiniteSet(flagged) /\ Cardinality(flagged) \in Nat
    BY BorrowersFinite, FS_Subset, FS_CardinalityType
<1>3. RegistryExact' /\ flaggedSize' \in Nat
    <2>1. CASE Flag(b)
        <3>1. Cardinality(flagged \cup {b}) = Cardinality(flagged) + 1
            BY <1>2, <2>1, FS_AddElement DEF Flag
        <3>2. QED
            BY <1>1, <1>2, <2>1, <3>1 DEF Flag, RegistryExact, Listed
    <2>2. CASE Unflag(b)
        <3>1. Cardinality(flagged \ {b}) = Cardinality(flagged) - 1
            BY <1>2, <2>2, FS_RemoveElement DEF Unflag
        <3>2. Cardinality(flagged \ {b}) \in Nat
            BY <1>2, FS_RemoveElement, FS_CardinalityType
        <3>3. QED
            BY <1>1, <2>2, <3>1, <3>2 DEF Unflag, RegistryExact, Listed
    <2>3. QED
        BY <2>1, <2>2
<1>4. OrderTypeOK'
    BY <1>1, <1>3 DEF Flag, Unflag, RegistryExact
<1>5. NoRepetition' /\ Descending'
    BY <1>1 DEF NoRepetition, Descending
<1>6. QED
    BY <1>3, <1>4, <1>5

LEMMA OrderInvNext == OrderInv /\ [OrderNext]_orderVars => OrderInv'
<1> SUFFICES ASSUME OrderInv, [OrderNext]_orderVars
             PROVE  OrderInv'
    OBVIOUS
<1>1. CASE UNCHANGED orderVars
    BY <1>1 DEF orderVars, OrderInv, OrderTypeOK, NoRepetition, Descending,
                RegistryExact, Listed
<1>2. ASSUME NEW b \in Borrowers, NEW k \in Keys, Enter(b, k)
      PROVE  OrderInv'
    BY <1>2, EnterKeepsOrderInv
<1>3. ASSUME NEW b \in Borrowers, NEW k \in Keys, Move(b, k)
      PROVE  OrderInv'
    BY <1>3, MoveKeepsOrderInv
<1>4. ASSUME NEW b \in Borrowers, Leave(b)
      PROVE  OrderInv'
    BY <1>4, LeaveKeepsOrderInv
<1>5. ASSUME NEW b \in Borrowers, Flag(b) \/ Unflag(b)
      PROVE  OrderInv'
    BY <1>5, ReportKeepsOrderInv
<1>6. QED
    BY <1>1, <1>2, <1>3, <1>4, <1>5 DEF OrderNext

LEMMA OrderInvariant == OrderSpec => []OrderInv
    BY OrderInvInit, OrderInvNext, PTL DEF OrderSpec

\* SortedTroves.sol: "List is always in order in terms of oldBoostedAICR", and no
\* trove is in it twice, whatever gaps the insertions chose.
THEOREM OrderSorted == OrderSpec => [](Descending /\ NoRepetition)
<1>1. OrderInv => Descending /\ NoRepetition
    BY DEF OrderInv
<1>2. QED
    BY <1>1, OrderInvariant, PTL

\* underCollateralizedTrovesSize, which gates withdrawals from the Stability
\* Pool, is the number of troves reported and not yet closed or cleared.
THEOREM RegistryCorrect == OrderSpec => []RegistryExact
<1>1. OrderInv => RegistryExact
    BY DEF OrderInv
<1>2. QED
    BY <1>1, OrderInvariant, PTL

-----------------------------------------------------------------------------
(***************************************************************************)
(* What is promised by a running sum is there, for the rewards of          *)
(* redistributions and for those of a farm.                                *)
(*                                                                         *)
(* The pool of redistributed rewards covers the claims, for every Scale    *)
(* and every amount: a redistribution of "amount" adds Scale * amount to   *)
(* the pool's side.  Of the numerator amount * Scale + error, the quotient *)
(* times the stakes goes to the claims and the rest is the new error: on   *)
(* the other side exactly the same number is added.  A collection takes at *)
(* most as much from the pool, times Scale, as from the claims.            *)
(*                                                                         *)
(* The farm emitted what it paid and owes, for all its accounts: what an   *)
(* account is owed is kept in FarmUnit-ths, so that no rounding touches it *)
(* before it is settled, and the sum over the accounts grows, with the     *)
(* running sum, by no more than what the seconds since the last update     *)
(* emitted.                                                                *)
(***************************************************************************)

\* A payment takes from the pool at most what it takes from the claims, so a
\* covered pool has it and stays covered.
LEMMA PaymentIsCovered ==
    ASSUME TypeOK, PoolCoversClaims,
           NEW collected \in Nat, NEW paid \in Nat,
           collected <= claims, PaidFor(collected, paid)
    PROVE  /\ paid <= pool
           /\ claims - collected + error <= Scale * (pool - paid)
<1> USE ScalePositive DEF TypeOK
<1>1. Scale * (pool - paid) = Scale * pool - Scale * paid
  OBVIOUS
<1>2. Scale * paid <= collected
  BY DEF PaidFor
<1>3. claims - collected + error <= Scale * (pool - paid)
  BY <1>1, <1>2 DEF PoolCoversClaims
<1>4. ASSUME pool < paid  PROVE FALSE
  <2>1. Scale * (pool - paid) < 0
    BY <1>4
  <2> QED
    BY <1>3, <2>1
<1> QED
  BY <1>3, <1>4

\* Payments and changes of stakes keep the pool covered.
LEMMA SettleKeepsCover ==
    ASSUME TypeOK, PoolCoversClaims,
           NEW collected \in Nat, NEW paid \in Nat, NEW stakes \in Nat,
           Settle(collected, paid, stakes)
    PROVE  TypeOK' /\ PoolCoversClaims'
<1>1. /\ paid <= pool
      /\ claims - collected + error <= Scale * (pool - paid)
  BY PaymentIsCovered DEF Settle
<1> QED
  BY <1>1, ScalePositive DEF Settle, TypeOK, PoolCoversClaims

\* So does a redistribution, whose remainder is counted with the claims.
LEMMA RedistributeKeepsCover ==
    ASSUME TypeOK, PoolCoversClaims,
           NEW collected \in Nat, NEW paid \in Nat, NEW stakes \in Nat,
           NEW amount \in Nat,
           Redistribute(collected, paid, stakes, amount)
    PROVE  TypeOK' /\ PoolCoversClaims'
<1> DEFINE numerator == amount * Scale + error
           shared == numerator \div stakes
           left == pool - paid
<1>1. /\ paid <= pool
      /\ claims - collected + error <= Scale * (pool - paid)
  BY PaymentIsCovered DEF Redistribute
<1>2. numerator \in Nat /\ stakes \in Nat \ {0} /\ left \in Nat
  BY <1>1, ScalePositive DEF TypeOK, Redistribute
<1>3. /\ shared \in Nat /\ (numerator % stakes) \in Nat
      /\ shared * stakes + (numerator % stakes) = numerator
  <2> HIDE DEF numerator
  <2> QED
    BY <1>2, DivMod
<1>4. shared * stakes \in Nat
  <2> HIDE DEF shared
  <2> QED
    BY <1>2, <1>3, NatProduct
<1>5. /\ claims' = claims - collected + shared * stakes
      /\ error' = numerator % stakes
      /\ pool' = left + amount
      /\ totalStakes' = stakes
  BY DEF Redistribute, PerUnit, Remainder
<1>6. claims' + error' = claims - collected + error + amount * Scale
  <2> DEFINE product == shared * stakes
             remainder == numerator % stakes
  <2>2. product + remainder = amount * Scale + error
    BY <1>3
  <2>3. claims' = claims - collected + product /\ error' = remainder
    BY <1>5
  <2>4. product \in Nat /\ remainder \in Nat
    BY <1>3, <1>4
  <2>5. claims \in Nat /\ error \in Nat /\ amount * Scale \in Nat
    BY ScalePositive DEF TypeOK
  <2> HIDE DEF product, remainder
  <2> QED
    BY <2>2, <2>3, <2>4, <2>5
<1>7. Scale * pool' = Scale * left + amount * Scale
  BY <1>2, <1>5, ScalePositive
<1>8. PoolCoversClaims'
  BY <1>1, <1>2, <1>6, <1>7, ScalePositive DEF TypeOK, PoolCoversClaims
<1>9. TypeOK'
  <2>1. collected <= claims
    BY DEF Redistribute
  <2>2. claims' \in Nat
    <3> DEFINE product == shared * stakes
    <3>1. product \in Nat /\ claims' = claims - collected + product
      BY <1>5, <1>4
    <3> HIDE DEF product
    <3> QED
      BY <2>1, <3>1 DEF TypeOK
  <2>3. error' \in Nat
    BY <1>3, <1>5
  <2>4. pool' \in Nat /\ totalStakes' \in Nat
    BY <1>2, <1>5
  <2> QED
    BY <2>2, <2>3, <2>4 DEF TypeOK
<1> QED
  BY <1>8, <1>9

\* The inductive step of both theorems.
LEMMA PoolInvariant == Spec => [](TypeOK /\ PoolCoversClaims)
<1>1. Init => TypeOK /\ PoolCoversClaims
  BY ScalePositive DEF Init, TypeOK, PoolCoversClaims
<1>2. TypeOK /\ PoolCoversClaims /\ [Next]_vars => TypeOK' /\ PoolCoversClaims'
  <2> SUFFICES ASSUME TypeOK, PoolCoversClaims, [Next]_vars
               PROVE  TypeOK' /\ PoolCoversClaims'
    OBVIOUS
  <2>1. ASSUME NEW collected \in Amounts, NEW paid \in Amounts,
               NEW stakes \in Amounts, Settle(collected, paid, stakes)
        PROVE  TypeOK' /\ PoolCoversClaims'
    BY <2>1, AmountsAreNat, SettleKeepsCover
  <2>2. ASSUME NEW collected \in Amounts, NEW paid \in Amounts,
               NEW stakes \in Amounts, NEW amount \in Amounts,
               Redistribute(collected, paid, stakes, amount)
        PROVE  TypeOK' /\ PoolCoversClaims'
    BY <2>2, AmountsAreNat, RedistributeKeepsCover
  <2>3. CASE UNCHANGED vars
    BY <2>3 DEF vars, TypeOK, PoolCoversClaims
  <2> QED
    BY <2>1, <2>2, <2>3 DEF Next
<1> QED
  BY <1>1, <1>2, PTL DEF Spec

\* For every Scale and every amounts shared and collected in any order, the
\* DefaultPool holds what the pending rewards are worth (redistributeDebtAndColl
\* and _movePendingTroveRewardsToActivePool).
THEOREM PoolAlwaysCovers == Spec => []PoolCoversClaims
  BY PoolInvariant, PTL

\* No collection of pending rewards can underflow the DefaultPool.
THEOREM NoUnderflow == Spec => PaymentNeverUnderflows
<1>1. TypeOK /\ PoolCoversClaims
      => [\A collected, paid \in Amounts :
            collected <= claims /\ PaidFor(collected, paid) => paid <= pool]_vars
  BY PaymentIsCovered, AmountsAreNat
<1> QED
  BY <1>1, PoolInvariant, PTL DEF PaymentNeverUnderflows

-----------------------------------------------------------------------------
(* The farm. *)

FarmTypeOK ==
    /\ staked \in [Farmers -> Nat]
    /\ rewardRate \in Nat /\ periodFinish \in Nat /\ lastUpdateTime \in Nat
    /\ rewardPerTokenStored \in Nat
    /\ userRewardPerTokenPaid \in [Farmers -> Nat]
    /\ settled \in [Farmers -> Nat]
    /\ preonHeld \in Nat /\ farmTime \in Nat /\ emitted \in Nat /\ paidOut \in Nat

\* What a is owed, in FarmUnit-ths, when a token has earned r since the beginning.
Owed(a, r) ==
    staked[a] * (r - userRewardPerTokenPaid[a]) + FarmUnit * settled[a]

OwedAt(r) == [a \in Farmers |-> Owed(a, r)]

\* What is owed for the seconds up to the last update, was paid, and is emitted
\* since then was emitted.
OwedWasEmitted ==
    FarmUnit * paidOut + SumFunctionOnSet(OwedAt(rewardPerTokenStored), Farmers)
      + FarmUnit * (rewardRate * (LastTimeRewardApplicable - lastUpdateTime))
    <= FarmUnit * emitted

FarmInv ==
    /\ FarmTypeOK
    /\ lastUpdateTime <= LastTimeRewardApplicable
    /\ \A a \in Farmers : userRewardPerTokenPaid[a] <= rewardPerTokenStored
    /\ OwedWasEmitted

-----------------------------------------------------------------------------
(* The running sum. *)

\* The running sum only grows.
LEMMA SumGrows ==
    ASSUME FarmInv
    PROVE  /\ LastTimeRewardApplicable \in Nat
           /\ TotalStaked = SumFunctionOnSet(staked, Farmers) /\ TotalStaked \in Nat
           /\ RewardPerToken \in Nat /\ rewardPerTokenStored <= RewardPerToken
           /\ TotalStaked * (RewardPerToken - rewardPerTokenStored)
                <= FarmUnit * (rewardRate * (LastTimeRewardApplicable - lastUpdateTime))
<1> DEFINE n == (LastTimeRewardApplicable - lastUpdateTime) * rewardRate * FarmUnit
           t == TotalStaked
<1>1. LastTimeRewardApplicable \in Nat
  BY DEF FarmInv, FarmTypeOK, LastTimeRewardApplicable
<1>2. t = SumFunctionOnSet(staked, Farmers) /\ t \in Nat
  <2>1. t = SumFunctionOnSet(staked, Farmers)
    BY DEF TotalStaked, FoldFunction, SumFunctionOnSet, FarmInv, FarmTypeOK
  <2>2. \A a \in Farmers : staked[a] \in Nat
    BY DEF FarmInv, FarmTypeOK
  <2> QED
    BY <2>1, <2>2, SumNat, FarmersFinite
<1>3. /\ n \in Nat
      /\ n = FarmUnit * (rewardRate * (LastTimeRewardApplicable - lastUpdateTime))
  <2>1. PICK gap : gap = LastTimeRewardApplicable - lastUpdateTime
    OBVIOUS
  <2>2. gap \in Nat /\ rewardRate \in Nat /\ FarmUnit \in Nat
    BY <1>1, <2>1, FarmUnitPositive DEF FarmInv, FarmTypeOK
  <2>3. gap * rewardRate * FarmUnit \in Nat
    BY <2>2, NatProduct
  <2>4. gap * rewardRate * FarmUnit = FarmUnit * (rewardRate * gap)
    BY <2>2
  <2> QED
    BY <2>1, <2>3, <2>4
<1>4. rewardPerTokenStored \in Nat
  BY DEF FarmInv, FarmTypeOK
<1>5. RewardPerToken = IF t = 0 THEN rewardPerTokenStored ELSE rewardPerTokenStored + n \div t
  BY DEF RewardPerToken
<1> HIDE DEF n, t
<1>6. CASE t = 0
  BY <1>1, <1>2, <1>3, <1>4, <1>5, <1>6 DEF t
<1>7. CASE t # 0
  <2>1. PICK q : q = n \div t
    OBVIOUS
  <2>2. q \in Nat /\ q * t <= n
    <3>1. t \in Nat \ {0}
      BY <1>2, <1>7
    <3> QED
      BY <1>3, <2>1, <3>1, QuotientNat, QuotientBounds
  <2>3. RewardPerToken = rewardPerTokenStored + q
    BY <1>5, <1>7, <2>1
  <2>4. t * (RewardPerToken - rewardPerTokenStored) = q * t
    BY <1>2, <1>4, <2>2, <2>3
  <2> QED
    BY <1>1, <1>2, <1>3, <1>4, <2>2, <2>3, <2>4 DEF t
<1> QED
  BY <1>6, <1>7

\* What an account is owed is a number, and what it has earned no more.
LEMMA EarnedIsOwed ==
    ASSUME FarmInv, NEW a \in Farmers
    PROVE  /\ Earned(a) \in Nat /\ Owed(a, RewardPerToken) \in Nat
           /\ Owed(a, rewardPerTokenStored) \in Nat
           /\ FarmUnit * Earned(a) <= Owed(a, RewardPerToken)
           /\ Owed(a, RewardPerToken) = Owed(a, rewardPerTokenStored)
                + staked[a] * (RewardPerToken - rewardPerTokenStored)
<1>1. /\ staked[a] \in Nat /\ userRewardPerTokenPaid[a] \in Nat /\ settled[a] \in Nat
      /\ userRewardPerTokenPaid[a] <= rewardPerTokenStored
      /\ rewardPerTokenStored \in Nat /\ FarmUnit \in Nat \ {0}
      /\ RewardPerToken \in Nat /\ rewardPerTokenStored <= RewardPerToken
  BY SumGrows, FarmUnitPositive DEF FarmInv, FarmTypeOK
<1>2. PICK s, p, c, r, u : /\ s = staked[a] /\ p = userRewardPerTokenPaid[a] /\ c = settled[a]
                           /\ r = RewardPerToken /\ u = rewardPerTokenStored
  OBVIOUS
<1>3. /\ s \in Nat /\ p \in Nat /\ c \in Nat /\ r \in Nat /\ u \in Nat
      /\ r - p \in Nat /\ u - p \in Nat
  BY <1>1, <1>2
<1>4. s * (r - p) \in Nat /\ s * (u - p) \in Nat /\ FarmUnit * c \in Nat
  BY <1>1, <1>3, NatProduct
<1>5. s * (r - p) = s * (u - p) + s * (r - u)
  BY <1>3
<1>6. /\ (s * (r - p)) \div FarmUnit \in Nat
      /\ ((s * (r - p)) \div FarmUnit) * FarmUnit <= s * (r - p)
  <2>1. PICK m : m = s * (r - p)
    OBVIOUS
  <2>2. m \in Nat
    BY <1>4, <2>1
  <2>3. m \div FarmUnit \in Nat /\ (m \div FarmUnit) * FarmUnit <= m
    BY <1>1, <2>2, QuotientNat, QuotientBounds
  <2> QED
    BY <2>1, <2>3
<1>7. PICK e : e = (s * (r - p)) \div FarmUnit
  OBVIOUS
<1>8. /\ Earned(a) = e + c
      /\ Owed(a, RewardPerToken) = s * (r - p) + FarmUnit * c
      /\ Owed(a, rewardPerTokenStored) = s * (u - p) + FarmUnit * c
  BY <1>2, <1>7 DEF Earned, Owed
<1>9. FarmUnit * (e + c) = e * FarmUnit + FarmUnit * c
  BY <1>1, <1>3, <1>6, <1>7
<1>10. e \in Nat /\ e * FarmUnit <= s * (r - p) /\ e * FarmUnit \in Nat
  BY <1>1, <1>6, <1>7, NatProduct
<1>11. s * (r - u) \in Int
  BY <1>3
<1> QED
  BY <1>2, <1>3, <1>4, <1>5, <1>8, <1>9, <1>10, <1>11

\* What was paid and what is owed now was emitted.
LEMMA OwedNow ==
    ASSUME FarmInv
    PROVE  /\ SumFunctionOnSet(OwedAt(RewardPerToken), Farmers) \in Nat
           /\ FarmUnit * paidOut + SumFunctionOnSet(OwedAt(RewardPerToken), Farmers)
                <= FarmUnit * emitted
<1> DEFINE grown == RewardPerToken - rewardPerTokenStored
           more == [a \in Farmers |-> grown * staked[a]]
           before == OwedAt(rewardPerTokenStored)
           now == OwedAt(RewardPerToken)
           A == SumFunctionOnSet(before, Farmers)
           B == SumFunctionOnSet(now, Farmers)
           T == SumFunctionOnSet(staked, Farmers)
           due == FarmUnit * (rewardRate * (LastTimeRewardApplicable - lastUpdateTime))
<1>1. /\ T \in Nat /\ grown \in Nat /\ T * grown <= due
  BY SumGrows DEF FarmInv, FarmTypeOK
<1>2. \A a \in Farmers : /\ before[a] \in Nat /\ now[a] \in Nat
                         /\ more[a] \in Int /\ now[a] = before[a] + more[a]
                         /\ staked[a] \in Int /\ more[a] = grown * staked[a]
  <2> SUFFICES ASSUME NEW a \in Farmers
               PROVE  /\ before[a] \in Nat /\ now[a] \in Nat
                      /\ more[a] \in Int /\ now[a] = before[a] + more[a]
                      /\ staked[a] \in Int /\ more[a] = grown * staked[a]
    OBVIOUS
  <2>1. before[a] = Owed(a, rewardPerTokenStored) /\ now[a] = Owed(a, RewardPerToken)
        /\ more[a] = grown * staked[a]
    BY DEF OwedAt
  <2>2. staked[a] \in Nat
    BY DEF FarmInv, FarmTypeOK
  <2>3. /\ Owed(a, rewardPerTokenStored) \in Nat /\ Owed(a, RewardPerToken) \in Nat
        /\ Owed(a, RewardPerToken) = Owed(a, rewardPerTokenStored) + staked[a] * grown
    BY EarnedIsOwed
  <2> HIDE DEF before, now, more, grown
  <2>4. grown * staked[a] \in Int /\ grown * staked[a] = staked[a] * grown
    BY <1>1, <2>2
  <2> QED
    BY <2>1, <2>2, <2>3, <2>4
<1> HIDE DEF before, now, more, grown, T, due
<1>3. B = A + SumFunctionOnSet(more, Farmers)
  BY <1>2, SumPlus, FarmersFinite
<1>4. SumFunctionOnSet(more, Farmers) = grown * T
  BY <1>1, <1>2, SumTimes, FarmersFinite DEF T
<1>5. A \in Nat /\ B \in Nat
  BY <1>2, SumNat, FarmersFinite
<1>6. FarmUnit * paidOut + A + due <= FarmUnit * emitted
  BY DEF FarmInv, OwedWasEmitted, before, due
<1>7. /\ due \in Int /\ FarmUnit * paidOut \in Int /\ FarmUnit * emitted \in Int
      /\ grown * T \in Int /\ T * grown = grown * T
  <2>1. due \in Int
    BY SumGrows, FarmUnitPositive DEF FarmInv, FarmTypeOK, due
  <2> QED
    BY <1>1, <2>1, FarmUnitPositive DEF FarmInv, FarmTypeOK
<1> HIDE DEF A, B
<1>8. FarmUnit * paidOut + B <= FarmUnit * emitted
  BY <1>1, <1>3, <1>4, <1>5, <1>6, <1>7
<1> QED
  BY <1>5, <1>8 DEF now, B

-----------------------------------------------------------------------------
(* The steps. *)

\* Settling an account leaves the others owed what they were, and turns what
\* the account is owed into what it keeps and what it is paid.
LEMMA SettleKeepsInv ==
    ASSUME FarmInv, NEW a \in Farmers, NEW kept \in Nat, NEW paid \in Nat,
           kept + paid = Earned(a), UpdateReward(a, kept),
           staked' \in [Farmers -> Nat],
           \A b \in Farmers : b # a => staked'[b] = staked[b],
           preonHeld' \in Nat, paidOut' = paidOut + paid,
           UNCHANGED <<periodVars, farmTime, emitted>>
    PROVE  FarmInv'
<1>1. PICK r : r = RewardPerToken
  OBVIOUS
<1>2. PICK last : last = LastTimeRewardApplicable
  OBVIOUS
<1>3. /\ rewardPerTokenStored' = r /\ lastUpdateTime' = last
      /\ settled' = [settled EXCEPT ![a] = kept]
      /\ userRewardPerTokenPaid' = [userRewardPerTokenPaid EXCEPT ![a] = r]
      /\ rewardRate' = rewardRate /\ periodFinish' = periodFinish
      /\ farmTime' = farmTime /\ emitted' = emitted
  BY <1>1, <1>2 DEF UpdateReward, Marked, periodVars
<1>4. r \in Nat /\ rewardPerTokenStored <= r /\ last \in Nat
  BY <1>1, <1>2, SumGrows
<1>5. LastTimeRewardApplicable' = last
  BY <1>2, <1>3 DEF LastTimeRewardApplicable
<1>6. FarmTypeOK'
  BY <1>3, <1>4 DEF FarmInv, FarmTypeOK
<1>7. /\ userRewardPerTokenPaid'[a] = r /\ settled'[a] = kept
      /\ \A b \in Farmers : b # a => /\ userRewardPerTokenPaid'[b] = userRewardPerTokenPaid[b]
                                     /\ settled'[b] = settled[b]
  BY <1>3 DEF FarmInv, FarmTypeOK
<1>8. \A b \in Farmers : userRewardPerTokenPaid'[b] <= rewardPerTokenStored'
  <2> SUFFICES ASSUME NEW b \in Farmers
               PROVE  userRewardPerTokenPaid'[b] <= rewardPerTokenStored'
    OBVIOUS
  <2>1. /\ userRewardPerTokenPaid[b] \in Nat /\ rewardPerTokenStored \in Nat
        /\ userRewardPerTokenPaid[b] <= rewardPerTokenStored
    BY DEF FarmInv, FarmTypeOK
  <2> QED
    BY <1>3, <1>4, <1>7, <2>1
<1>9. PICK f : f = OwedAt(r)
  OBVIOUS
<1>10. PICK g : g = OwedAt(r)'
  OBVIOUS
<1>11. g = OwedAt(rewardPerTokenStored)'
  BY <1>3, <1>10 DEF OwedAt, Owed
<1>12. \A b \in Farmers : f[b] \in Nat
  BY <1>1, <1>9, EarnedIsOwed DEF OwedAt
<1>13. \A b \in Farmers : b # a => g[b] = f[b]
  BY <1>7, <1>9, <1>10 DEF OwedAt, Owed
<1>14. g[a] = FarmUnit * kept
  <2>1. g[a] = staked'[a] * (r - userRewardPerTokenPaid'[a]) + FarmUnit * settled'[a]
    BY <1>10 DEF OwedAt, Owed
  <2>2. FarmUnit * kept \in Nat /\ staked'[a] \in Nat
    BY FarmUnitPositive, NatProduct
  <2>3. staked'[a] * (r - r) = 0
    BY <1>4, <2>2
  <2> QED
    BY <1>7, <2>1, <2>2, <2>3
<1>15. /\ FarmUnit * kept \in Nat /\ FarmUnit * paid \in Nat
       /\ FarmUnit * kept + FarmUnit * paid <= f[a]
  <2>1. FarmUnit * (kept + paid) <= f[a]
    BY <1>1, <1>9, EarnedIsOwed DEF OwedAt
  <2>2. FarmUnit * (kept + paid) = FarmUnit * kept + FarmUnit * paid
    BY FarmUnitPositive
  <2> QED
    BY <2>1, <2>2, FarmUnitPositive, NatProduct
<1>16. PICK F, G : F = SumFunctionOnSet(f, Farmers) /\ G = SumFunctionOnSet(g, Farmers)
  OBVIOUS
<1>17. G = F - f[a] + FarmUnit * kept
  <2>1. \A b \in Farmers : f[b] \in Int /\ g[b] \in Int
    <3> SUFFICES ASSUME NEW b \in Farmers PROVE f[b] \in Int /\ g[b] \in Int
      OBVIOUS
    <3>1. CASE b = a
      BY <1>12, <1>14, <1>15, <3>1
    <3>2. CASE b # a
      BY <1>12, <1>13, <3>2
    <3> QED
      BY <3>1, <3>2
  <2>2. G = F - f[a] + g[a]
    BY <1>13, <1>16, <2>1, SumChange, FarmersFinite
  <2> QED
    BY <1>14, <2>2
<1>18. F \in Nat /\ FarmUnit * paidOut + F <= FarmUnit * emitted
  BY <1>1, <1>9, <1>16, OwedNow
<1>19. OwedWasEmitted'
  <2>1. FarmUnit * paidOut' = FarmUnit * paidOut + FarmUnit * paid
    BY FarmUnitPositive DEF FarmInv, FarmTypeOK
  <2>2. FarmUnit * paidOut \in Nat /\ FarmUnit * emitted \in Nat /\ f[a] \in Nat
    BY <1>12, FarmUnitPositive, NatProduct DEF FarmInv, FarmTypeOK
  <2>3. FarmUnit * paidOut' + G <= FarmUnit * emitted
    BY <1>15, <1>17, <1>18, <2>1, <2>2
  <2>4. FarmUnit * (rewardRate' * (LastTimeRewardApplicable' - lastUpdateTime')) = 0
    BY <1>3, <1>4, <1>5, FarmUnitPositive DEF FarmInv, FarmTypeOK
  <2>5. SumFunctionOnSet(OwedAt(rewardPerTokenStored)', Farmers) = G
    BY <1>11, <1>16
  <2>6. FarmUnit * paidOut' + G \in Int
    BY <1>15, <1>17, <1>18, <2>1, <2>2
  <2> QED
    BY <1>3, <2>3, <2>4, <2>5, <2>6 DEF OwedWasEmitted
<1> QED
  BY <1>3, <1>4, <1>5, <1>6, <1>8, <1>19 DEF FarmInv

\* A second emits what is owed for it, and nothing after the end.
LEMMA TickKeepsInv ==
    ASSUME FarmInv, FarmTick
    PROVE  FarmInv'
<1>1. /\ farmTime' = farmTime + 1
      /\ emitted' = IF farmTime < periodFinish THEN emitted + rewardRate ELSE emitted
      /\ UNCHANGED <<staked, rewardRate, periodFinish, lastUpdateTime, rewardPerTokenStored,
                     userRewardPerTokenPaid, settled, preonHeld, paidOut>>
  BY DEF FarmTick, periodVars, sumVars
<1>2. FarmTypeOK'
  BY <1>1 DEF FarmInv, FarmTypeOK
<1>3. PICK gap : gap = LastTimeRewardApplicable - lastUpdateTime
  OBVIOUS
<1>4. /\ gap \in Nat /\ rewardRate \in Nat /\ FarmUnit \in Nat
      /\ emitted \in Nat /\ paidOut \in Nat
  BY <1>3, SumGrows, FarmUnitPositive DEF FarmInv, FarmTypeOK
<1>5. PICK A : A = SumFunctionOnSet(OwedAt(rewardPerTokenStored), Farmers)
  OBVIOUS
<1>6. A = SumFunctionOnSet(OwedAt(rewardPerTokenStored), Farmers)'
  BY <1>1, <1>5 DEF OwedAt, Owed
<1>7. A \in Nat
  <2>1. PICK f : f = OwedAt(rewardPerTokenStored)
    OBVIOUS
  <2>2. \A b \in Farmers : f[b] \in Nat
    BY <2>1, EarnedIsOwed DEF OwedAt
  <2> QED
    BY <1>5, <2>1, <2>2, SumNat, FarmersFinite
<1>8. FarmUnit * paidOut + A + FarmUnit * (rewardRate * gap) <= FarmUnit * emitted
  BY <1>3, <1>5 DEF FarmInv, OwedWasEmitted
<1>9. /\ FarmUnit * paidOut \in Nat /\ FarmUnit * (rewardRate * gap) \in Nat
      /\ FarmUnit * emitted \in Nat /\ FarmUnit * rewardRate \in Nat
  BY <1>4, NatProduct
<1>10. CASE farmTime < periodFinish
  <2>1. LastTimeRewardApplicable' = LastTimeRewardApplicable + 1
    BY <1>1, <1>10 DEF LastTimeRewardApplicable, FarmInv, FarmTypeOK
  <2>2. LastTimeRewardApplicable' - lastUpdateTime' = gap + 1
    BY <1>1, <1>3, <2>1, SumGrows DEF FarmInv, FarmTypeOK
  <2>3. FarmUnit * (rewardRate * (gap + 1))
          = FarmUnit * (rewardRate * gap) + FarmUnit * rewardRate
    BY <1>4
  <2>4. emitted' = emitted + rewardRate
    BY <1>1, <1>10
  <2>5. FarmUnit * emitted' = FarmUnit * emitted + FarmUnit * rewardRate
    BY <1>4, <2>4
  <2>6. FarmUnit * paidOut + A + FarmUnit * (rewardRate * (gap + 1)) <= FarmUnit * emitted'
    BY <1>7, <1>8, <1>9, <2>3, <2>5
  <2>7. OwedWasEmitted'
    BY <1>1, <1>6, <2>2, <2>6 DEF OwedWasEmitted
  <2>8. lastUpdateTime' <= LastTimeRewardApplicable'
    BY <1>1, <2>1, SumGrows DEF FarmInv, FarmTypeOK
  <2> QED
    BY <1>1, <1>2, <2>7, <2>8 DEF FarmInv
<1>11. CASE ~ (farmTime < periodFinish)
  <2>1. LastTimeRewardApplicable' = LastTimeRewardApplicable
    BY <1>1, <1>11 DEF LastTimeRewardApplicable, FarmInv, FarmTypeOK
  <2>2. emitted' = emitted
    BY <1>1, <1>11
  <2>3. OwedWasEmitted'
    BY <1>1, <1>3, <1>6, <1>8, <2>1, <2>2 DEF OwedWasEmitted
  <2> QED
    BY <1>1, <1>2, <2>1, <2>3 DEF FarmInv
<1> QED
  BY <1>10, <1>11

\* A new programme begins with everything owed of the old one counted in.
LEMMA NotifyKeepsInv ==
    ASSUME FarmInv, NEW p \in Programmes, NotifyRewardAmount(p)
    PROVE  FarmInv'
<1>1. PICK r : r = RewardPerToken
  OBVIOUS
<1>2. /\ p.duration # 0
      /\ rewardPerTokenStored' = r
      /\ rewardRate' = p.reward \div p.duration
      /\ lastUpdateTime' = farmTime
      /\ periodFinish' = farmTime + p.duration
      /\ UNCHANGED <<staked, userRewardPerTokenPaid, settled, preonHeld, farmTime,
                     emitted, paidOut>>
  BY <1>1 DEF NotifyRewardAmount
<1>3. p.reward \in Nat /\ p.duration \in Nat \ {0}
  BY <1>2, ProgrammesNat
<1>4. rewardRate' \in Nat
  BY <1>2, <1>3, QuotientNat
<1>5. r \in Nat /\ rewardPerTokenStored <= r
  BY <1>1, SumGrows
<1>6. FarmTypeOK'
  BY <1>2, <1>3, <1>4, <1>5 DEF FarmInv, FarmTypeOK
<1>7. farmTime \in Nat
  BY DEF FarmInv, FarmTypeOK
<1>8. LastTimeRewardApplicable' = farmTime
  BY <1>2, <1>3, <1>7 DEF LastTimeRewardApplicable
<1>9. \A b \in Farmers : userRewardPerTokenPaid'[b] <= rewardPerTokenStored'
  BY <1>2, <1>5 DEF FarmInv, FarmTypeOK
<1>10. PICK B : B = SumFunctionOnSet(OwedAt(r), Farmers)
  OBVIOUS
<1>11. B = SumFunctionOnSet(OwedAt(rewardPerTokenStored), Farmers)'
  BY <1>2, <1>10 DEF OwedAt, Owed
<1>12. B \in Nat /\ FarmUnit * paidOut + B <= FarmUnit * emitted
  BY <1>1, <1>10, OwedNow
<1>13. FarmUnit * (rewardRate' * (LastTimeRewardApplicable' - lastUpdateTime')) = 0
  BY <1>2, <1>4, <1>7, <1>8, FarmUnitPositive
<1>14. FarmUnit * paidOut \in Nat
  BY FarmUnitPositive, NatProduct DEF FarmInv, FarmTypeOK
<1>15. OwedWasEmitted'
  BY <1>2, <1>11, <1>12, <1>13, <1>14 DEF OwedWasEmitted
<1> QED
  BY <1>2, <1>6, <1>7, <1>8, <1>9, <1>15 DEF FarmInv

\* A stake, a withdrawal and a payment settle the account.
LEMMA AccountKeepsInv ==
    ASSUME FarmInv, NEW a \in Farmers,
           \/ GetReward(a) \/ Exit(a)
           \/ \E n \in LPAmounts : Stake(a, n) \/ Withdraw(a, n)
    PROVE  FarmInv'
<1>1. /\ Earned(a) \in Nat /\ Earned(a) + 0 = Earned(a) /\ 0 + Earned(a) = Earned(a)
      /\ staked \in [Farmers -> Nat] /\ preonHeld \in Nat
      /\ paidOut \in Nat /\ paidOut + 0 = paidOut
  BY EarnedIsOwed DEF FarmInv, FarmTypeOK
<1>2. ASSUME Pay(a), staked' = staked \/ staked' = [staked EXCEPT ![a] = 0]
      PROVE  FarmInv'
  <2>1. /\ UpdateReward(a, 0) /\ preonHeld' = preonHeld - Earned(a)
        /\ Earned(a) <= preonHeld
        /\ paidOut' = paidOut + Earned(a) /\ UNCHANGED <<periodVars, farmTime, emitted>>
    BY <1>2 DEF Pay
  <2>2. preonHeld' \in Nat
    BY <1>1, <2>1
  <2>3. staked' \in [Farmers -> Nat] /\ \A b \in Farmers : b # a => staked'[b] = staked[b]
    BY <1>1, <1>2
  <2> QED
    BY <1>1, <2>1, <2>2, <2>3, SettleKeepsInv
<1>3. ASSUME UpdateReward(a, Earned(a)),
             UNCHANGED <<periodVars, preonHeld, farmTime, emitted, paidOut>>,
             NEW m \in Nat, staked' = [staked EXCEPT ![a] = m]
      PROVE  FarmInv'
  <2>1. staked' \in [Farmers -> Nat] /\ \A b \in Farmers : b # a => staked'[b] = staked[b]
    BY <1>1, <1>3
  <2>2. preonHeld' \in Nat /\ paidOut' = paidOut + 0
    BY <1>1, <1>3
  <2>3. UNCHANGED <<periodVars, farmTime, emitted>>
    BY <1>3
  <2> QED
    BY <1>1, <1>3, <2>1, <2>2, <2>3, SettleKeepsInv
<1>4. CASE GetReward(a)
  BY <1>2, <1>4 DEF GetReward
<1>5. CASE Exit(a)
  BY <1>2, <1>5 DEF Exit
<1>6. ASSUME NEW n \in LPAmounts, Stake(a, n) PROVE FarmInv'
  <2>1. n \in Nat /\ staked[a] + n \in Nat
    BY <1>1, FarmAmountsNat
  <2>2. /\ UpdateReward(a, Earned(a))
        /\ staked' = [staked EXCEPT ![a] = staked[a] + n]
        /\ UNCHANGED <<periodVars, preonHeld, farmTime, emitted, paidOut>>
    BY <1>6 DEF Stake
  <2> QED
    BY <1>3, <2>1, <2>2
<1>7. ASSUME NEW n \in LPAmounts, Withdraw(a, n) PROVE FarmInv'
  <2>1. n \in Nat /\ staked[a] - n \in Nat
    BY <1>1, <1>7, FarmAmountsNat DEF Withdraw
  <2>2. /\ UpdateReward(a, Earned(a))
        /\ staked' = [staked EXCEPT ![a] = staked[a] - n]
        /\ UNCHANGED <<periodVars, preonHeld, farmTime, emitted, paidOut>>
    BY <1>7 DEF Withdraw
  <2> QED
    BY <1>3, <2>1, <2>2
<1> QED
  BY <1>4, <1>5, <1>6, <1>7

\* At first nothing is staked, owed or emitted.
LEMMA FarmInvInit == FarmInit => FarmInv
<1> SUFFICES ASSUME FarmInit PROVE FarmInv
  OBVIOUS
<1>1. FarmTypeOK
  BY FarmAmountsNat DEF FarmInit, FarmTypeOK
<1>2. LastTimeRewardApplicable = 0
  BY DEF FarmInit, LastTimeRewardApplicable
<1>3. PICK f : f = OwedAt(0)
  OBVIOUS
<1>4. \A a \in Farmers : f[a] \in Int /\ f[a] = 0 * f[a]
  <2> SUFFICES ASSUME NEW a \in Farmers PROVE f[a] \in Int /\ f[a] = 0 * f[a]
    OBVIOUS
  <2>1. f[a] = 0 * (0 - 0) + FarmUnit * 0
    BY <1>3 DEF FarmInit, OwedAt, Owed
  <2> QED
    BY <2>1, FarmUnitPositive
<1>5. SumFunctionOnSet(f, Farmers) = 0 * SumFunctionOnSet(f, Farmers)
  BY <1>4, SumTimes, FarmersFinite
<1>6. SumFunctionOnSet(f, Farmers) \in Int
  BY <1>4, SumInt, FarmersFinite
<1>7. SumFunctionOnSet(OwedAt(rewardPerTokenStored), Farmers) = 0
  BY <1>3, <1>5, <1>6 DEF FarmInit
<1>8. OwedWasEmitted
  BY <1>2, <1>7, FarmUnitPositive DEF FarmInit, OwedWasEmitted
<1> QED
  BY <1>1, <1>2, <1>8 DEF FarmInit, FarmInv

\* What is owed and was paid was emitted, always.
THEOREM FarmInvariant == FarmSpec => []FarmInv
<1>1. FarmInv /\ [FarmNext]_farmVars => FarmInv'
  <2> SUFFICES ASSUME FarmInv, [FarmNext]_farmVars PROVE FarmInv'
    OBVIOUS
  <2>1. CASE UNCHANGED farmVars
    BY <2>1 DEF FarmInv, FarmTypeOK, OwedWasEmitted, OwedAt, Owed, LastTimeRewardApplicable,
                farmVars, periodVars, sumVars
  <2> QED
    BY <2>1, TickKeepsInv, NotifyKeepsInv, AccountKeepsInv DEF FarmNext
<1> QED
  BY <1>1, FarmInvInit, PTL DEF FarmSpec

\* What was paid and what can be claimed together never exceed what was emitted.
THEOREM FarmPaysWhatItEmits == FarmSpec => []EarnedWasEmitted
<1>1. FarmInv => EarnedWasEmitted
  <2> SUFFICES ASSUME FarmInv PROVE EarnedWasEmitted
    OBVIOUS
  <2>1. PICK e : e = [a \in Farmers |-> Earned(a)]
    OBVIOUS
  <2>2. PICK f : f = OwedAt(RewardPerToken)
    OBVIOUS
  <2>3. PICK g : g = [a \in Farmers |-> FarmUnit * e[a]]
    OBVIOUS
  <2>4. \A a \in Farmers : /\ e[a] \in Nat /\ f[a] \in Nat /\ FarmUnit * e[a] \in Nat
                           /\ g[a] = FarmUnit * e[a] /\ g[a] <= f[a]
    BY <2>1, <2>2, <2>3, EarnedIsOwed, FarmUnitPositive, NatProduct DEF OwedAt
  <2>5. PICK E, F, G : /\ E = SumFunctionOnSet(e, Farmers) /\ F = SumFunctionOnSet(f, Farmers)
                       /\ G = SumFunctionOnSet(g, Farmers)
    OBVIOUS
  <2>6. FarmUnit \in Int
    BY FarmUnitPositive
  <2>7. G = FarmUnit * E
    BY <2>4, <2>5, <2>6, SumTimes, FarmersFinite
  <2>8. G <= F
    BY <2>4, <2>5, SumAtMost, FarmersFinite
  <2>9. E \in Nat
    BY <2>4, <2>5, SumNat, FarmersFinite
  <2>10. F \in Nat /\ FarmUnit * paidOut + F <= FarmUnit * emitted
    BY <2>2, <2>5, OwedNow
  <2>11. paidOut \in Nat /\ emitted \in Nat /\ FarmUnit \in Nat \ {0}
    BY FarmUnitPositive DEF FarmInv, FarmTypeOK
  <2>12. (paidOut + E) * FarmUnit <= emitted * FarmUnit
    <3>1. (paidOut + E) * FarmUnit = FarmUnit * paidOut + FarmUnit * E
      BY <2>9, <2>11
    <3>2. /\ FarmUnit * paidOut \in Int /\ FarmUnit * E \in Int
          /\ emitted * FarmUnit = FarmUnit * emitted
      BY <2>9, <2>11
    <3> QED
      BY <2>7, <2>8, <2>10, <2>11, <3>1, <3>2
  <2>13. paidOut + E <= emitted
    BY <2>9, <2>11, <2>12, FactorAtMost
  <2>14. E = FoldFunction(+, 0, [a \in Farmers |-> Earned(a)])
    BY <2>1, <2>5 DEF FoldFunction, SumFunctionOnSet
  <2> QED
    BY <2>13, <2>14 DEF EarnedWasEmitted
<1> QED
  BY <1>1, FarmInvariant, PTL

-----------------------------------------------------------------------------
(***************************************************************************)
(* The fees.  That the base rate decays at no less than half speed, for    *)
(* any length of a minute and any sequence of operations.  That a fee      *)
(* curve rises with the share of the system, and that what is left of the  *)
(* last fee is never lowered, for any slopes, cutoffs and decay time and   *)
(* any way of rounding that the precision gives.                           *)
(***************************************************************************)

RateTypeOK ==
    /\ lastFeeOperationTime \in Nat
    /\ rateTime \in Nat
    /\ redeemedAt \in Nat
    /\ minutesDecayed \in Nat

\* The last fee operation is at most a minute older than the last redemption,
\* and every minute of decay applied since took at least a minute off the time
\* to account for, and less than two.
RateInv ==
    /\ lastFeeOperationTime <= rateTime
    /\ redeemedAt <= rateTime
    /\ Minute * minutesDecayed < lastFeeOperationTime - redeemedAt + Minute
    /\ lastFeeOperationTime - redeemedAt <= 2 * Minute * minutesDecayed

\* Dividing by the length of a minute.
LEMMA WholeMinutes ==
    ASSUME NEW t \in Nat
    PROVE  /\ t \div Minute \in Nat
           /\ Minute * (t \div Minute) <= t
           /\ t < Minute * (t \div Minute) + Minute
BY MinutePositive

LEMMA MinutesAdd ==
    ASSUME NEW m \in Nat, NEW n \in Nat
    PROVE  /\ Minute * (m + n) = Minute * m + Minute * n
           /\ 2 * Minute * (m + n) = 2 * (Minute * m) + 2 * (Minute * n)
           /\ 2 * Minute * m = 2 * (Minute * m)
           /\ Minute * m \in Nat
           /\ m >= 1 => Minute * m >= Minute
BY MinutePositive

\* An operation after m whole minutes leaves the time of the last one
\* alone if m = 0, and accounts for at least half of the time it takes off
\* otherwise.
LEMMA OperationKeepsPace ==
    ASSUME RateTypeOK, RateInv,
           NEW m, m = MinutesPassed,
           NEW l, l = LastFeeOpTime(rateTime)
    PROVE  /\ m \in Nat
           /\ l \in Nat /\ l <= rateTime
           /\ Minute * (minutesDecayed + m) < l - redeemedAt + Minute
           /\ l - redeemedAt <= 2 * Minute * (minutesDecayed + m)
           /\ rateTime - l < Minute
<1> DEFINE t == rateTime - lastFeeOperationTime
<1>1. t \in Nat /\ m = t \div Minute
  BY DEF RateTypeOK, RateInv, MinutesPassed
<1>2. m \in Nat /\ Minute * m <= t /\ t < Minute * m + Minute
  <2> HIDE DEF t
  <2> QED
    BY <1>1, WholeMinutes
<1>3. /\ Minute * (minutesDecayed + m) = Minute * minutesDecayed + Minute * m
      /\ 2 * Minute * (minutesDecayed + m)
            = 2 * (Minute * minutesDecayed) + 2 * (Minute * m)
      /\ 2 * Minute * minutesDecayed = 2 * (Minute * minutesDecayed)
      /\ Minute * minutesDecayed \in Nat /\ Minute * m \in Nat
      /\ m >= 1 => Minute * m >= Minute
      /\ m = 0 => Minute * m = 0
  BY <1>2, MinutesAdd, MinutePositive DEF RateTypeOK
<1> DEFINE u == Minute * minutesDecayed
           v == Minute * m
<1>4. u \in Nat /\ v \in Nat /\ Minute \in Nat \ {0}
  BY <1>3, MinutePositive
<1>5. CASE t >= Minute
  <2>1. l = rateTime /\ m >= 1
    <3>1. l = rateTime
      BY <1>5 DEF LastFeeOpTime
    <3>2. m # 0
      <4>1. SUFFICES ASSUME m = 0 PROVE FALSE
        OBVIOUS
      <4>2. Minute * m = 0
        BY <4>1, <1>3
      <4> HIDE DEF t
      <4> QED
        BY <4>2, <1>1, <1>2, <1>5, <1>4
    <3> QED
      BY <3>1, <3>2, <1>2
  <2>2. /\ u < lastFeeOperationTime - redeemedAt + Minute
        /\ lastFeeOperationTime - redeemedAt <= 2 * u
        /\ v <= t /\ t < v + Minute /\ v >= Minute
    BY <1>2, <1>3, <2>1 DEF RateInv
  <2>3. /\ u + v < rateTime - redeemedAt + Minute
        /\ rateTime - redeemedAt <= 2 * u + 2 * v
    <3> HIDE DEF u, v
    <3> QED
      BY <2>2, <1>4, <1>1 DEF RateTypeOK
  <2> QED
    BY <1>2, <1>3, <1>4, <2>1, <2>3 DEF RateTypeOK
<1>6. CASE ~ (t >= Minute)
  <2>1. l = lastFeeOperationTime /\ m = 0
    <3>1. l = lastFeeOperationTime
      BY <1>6 DEF LastFeeOpTime
    <3>2. m = 0
      BY <1>1, <1>2, <1>3, <1>4, <1>6
    <3> QED
      BY <3>1, <3>2
  <2> QED
    BY <1>1, <1>2, <1>4, <1>6, <2>1 DEF RateTypeOK, RateInv
<1> QED
  BY <1>5, <1>6

LEMMA RateInit_Inv == RateInit => RateTypeOK /\ RateInv
BY MinutePositive DEF RateInit, RateTypeOK, RateInv

LEMMA RateNext_Inv ==
    ASSUME RateTypeOK, RateInv, [RateNext]_rateVars
    PROVE  RateTypeOK' /\ RateInv'
<1>1. CASE Borrow
  <2>1. /\ minutesDecayed' = minutesDecayed + MinutesPassed
        /\ lastFeeOperationTime' = LastFeeOpTime(rateTime)
        /\ UNCHANGED <<rateTime, redeemedAt>>
    BY <1>1 DEF Borrow
  <2> QED
    BY <2>1, OperationKeepsPace DEF RateTypeOK, RateInv
<1>2. ASSUME NEW fraction \in RedeemedFractions, Redeem(fraction)
      PROVE  RateTypeOK' /\ RateInv'
  <2>1. /\ lastFeeOperationTime' = LastFeeOpTime(rateTime)
        /\ redeemedAt' = rateTime /\ minutesDecayed' = 0
        /\ UNCHANGED rateTime
    BY <1>2 DEF Redeem
  <2>2. /\ lastFeeOperationTime' \in Nat /\ lastFeeOperationTime' <= rateTime
        /\ rateTime - lastFeeOperationTime' < Minute
    BY <2>1, OperationKeepsPace
  <2>3. Minute * 0 = 0 /\ 2 * Minute * 0 = 0
    BY MinutePositive
  <2> QED
    BY <2>1, <2>2, <2>3, MinutePositive DEF RateTypeOK, RateInv
<1>3. CASE RateTick
  BY <1>3 DEF RateTick, RateTypeOK, RateInv
<1>4. CASE UNCHANGED rateVars
  BY <1>4 DEF rateVars, RateTypeOK, RateInv
<1> QED
  BY <1>1, <1>2, <1>3, <1>4 DEF RateNext

\* The invariant bounds what the rate in force has decayed by.
LEMMA Inv_DecayTracksTime ==
    ASSUME RateTypeOK, RateInv
    PROVE  DecayTracksTime
<1> DEFINE m == MinutesPassed
           t == rateTime - lastFeeOperationTime
           u == Minute * minutesDecayed
           v == Minute * m
<1>1. t \in Nat /\ m = t \div Minute
  BY DEF RateTypeOK, RateInv, MinutesPassed
<1>2. m \in Nat /\ v <= t /\ t < v + Minute
  <2> HIDE DEF t, m
  <2> QED
    BY <1>1, WholeMinutes
<1>3. /\ Minute * (minutesDecayed + m) = u + v
      /\ 2 * Minute * (minutesDecayed + m + 1) = 2 * u + 2 * v + 2 * Minute
      /\ 2 * Minute * minutesDecayed = 2 * u
      /\ u \in Nat /\ v \in Nat
  <2> HIDE DEF m
  <2>1. minutesDecayed + m \in Nat /\ minutesDecayed \in Nat /\ Minute \in Nat
    BY <1>2, MinutePositive DEF RateTypeOK
  <2>2. /\ Minute * (minutesDecayed + m) = u + v
        /\ 2 * Minute * (minutesDecayed + m) = 2 * u + 2 * v
        /\ 2 * Minute * minutesDecayed = 2 * u
        /\ u \in Nat /\ v \in Nat
    BY <2>1, <1>2, MinutesAdd
  <2>3. 2 * Minute * (minutesDecayed + m + 1)
            = 2 * (Minute * (minutesDecayed + m)) + 2 * (Minute * 1)
    BY <2>1, MinutesAdd
  <2> QED
    BY <2>1, <2>2, <2>3
<1>4. /\ u < lastFeeOperationTime - redeemedAt + Minute
      /\ lastFeeOperationTime - redeemedAt <= 2 * u
  BY <1>3 DEF RateInv
<1>5. /\ rateTime - redeemedAt < 2 * u + 2 * v + 2 * Minute
      /\ u + v < rateTime - redeemedAt + Minute
  <2> HIDE DEF u, v, m
  <2> QED
    BY <1>1, <1>2, <1>3, <1>4, MinutePositive DEF RateTypeOK
<1> QED
  BY <1>3, <1>5 DEF DecayTracksTime

\* Whoever borrows and whenever, the rate decays at least at half the pace of
\* the clock and never a minute ahead of it.
THEOREM RateDecaysInTime == RateSpec => []DecayTracksTime
<1>1. RateTypeOK /\ RateInv /\ [RateNext]_rateVars => RateTypeOK' /\ RateInv'
  BY RateNext_Inv
<1>2. RateTypeOK /\ RateInv => DecayTracksTime
  BY Inv_DecayTracksTime
<1> QED
  BY <1>1, <1>2, RateInit_Inv, PTL DEF RateSpec

-----------------------------------------------------------------------------
(* The fee curves. *)


CurveStorage ==
    [m1 : Nat, b1 : Nat, cutoff1 : Nat,
     m2 : Nat, b2 : Nat, b2Negative : BOOLEAN, cutoff2 : Nat,
     m3 : Nat, b3 : Nat, b3Negative : BOOLEAN,
     decayTime : Nat, dollarCap : Nat, lastFeeTime : Nat, lastFeePercent : 0..Precision,
     adjusted : Nat]

\* The intercepts are those that the slopes and cutoffs ask for.
Configured(c) ==
    /\ c.cutoff1 <= c.cutoff2 /\ c.m1 <= c.m2 /\ c.m2 <= c.m3
    /\ Signed(c.b2, c.b2Negative)
          = Times(c.m1, c.cutoff1) + c.b1 - Times(c.m2, c.cutoff1)
    /\ Signed(c.b3, c.b3Negative)
          = AtCutoff2(c, c.b2) - Times(c.m3, c.cutoff2)

\* A curve that was never configured has no signs set, so that the first
\* configuration sets those it means.
Signs(c) ==
    /\ c.adjusted = 0 => c.b2Negative = FALSE /\ c.b3Negative = FALSE
    /\ c.adjusted = 1 => Configured(c)

\* The last fee was charged by now.
CurveInv ==
    /\ curve \in [Curves -> CurveStorage]
    /\ current \in Curves
    /\ curveTime \in Nat
    /\ \A f \in Curves : curve[f].lastFeeTime <= curveTime /\ Signs(curve[f])

\* The larger of two numbers.
LEMMA MaxOfPair ==
    ASSUME NEW a \in Nat, NEW b \in Nat
    PROVE  Max({a, b}) \in Nat /\ a <= Max({a, b}) /\ b <= Max({a, b})
<1>1. CASE a <= b
  <2>1. b \in {a, b} /\ \A y \in {a, b} : b >= y
    BY <1>1
  <2> QED
    BY <2>1 DEF Max
<1>2. CASE b <= a
  <2>1. a \in {a, b} /\ \A y \in {a, b} : a >= y
    BY <1>2
  <2> QED
    BY <2>1 DEF Max
<1> QED
  BY <1>1, <1>2

\* The smaller of two numbers is at least what both are.
LEMMA MinOfPair ==
    ASSUME NEW a \in Nat, NEW b \in Nat
    PROVE  /\ Min({a, b}) \in Nat /\ Min({a, b}) <= a /\ Min({a, b}) <= b
           /\ \A x \in Nat : x <= a /\ x <= b => x <= Min({a, b})
<1>1. CASE a <= b
  <2>1. a \in {a, b} /\ \A y \in {a, b} : a <= y
    BY <1>1
  <2> QED
    BY <2>1 DEF Min
<1>2. CASE b <= a
  <2>1. b \in {a, b} /\ \A y \in {a, b} : b <= y
    BY <1>2
  <2> QED
    BY <2>1 DEF Min
<1> QED
  BY <1>1, <1>2

\* A slope times a share is a natural number.
LEMMA TimesNat ==
    ASSUME NEW m \in Nat, NEW x \in Nat
    PROVE  Times(m, x) \in Nat
<1>1. m * x \in Nat
  BY NatProduct
<1> QED
  BY <1>1, QuotientNat, PrecisionPositive DEF Times

\* More of a share is not less of a fee.
LEMMA TimesGrows ==
    ASSUME NEW m \in Nat, NEW x \in Nat, NEW y \in Nat, x <= y
    PROVE  Times(m, x) <= Times(m, y)
<1>1. m * x \in Int /\ m * y \in Int
  OBVIOUS
<1>2. m * x <= m * y
  BY TimesMonotone
<1> QED
  BY <1>1, <1>2, QuotientMonotone, PrecisionPositive DEF Times

\* Configuring a curve keeps its storage typed, and the first configuration
\* sets the intercepts with their signs.
LEMMA AdjustedTyped ==
    ASSUME NEW c \in CurveStorage, NEW p \in Params, Adjustable(p), Signs(c)
    PROVE  /\ Adjusted(c, p) \in CurveStorage
           /\ Signs(Adjusted(c, p))
           /\ Adjusted(c, p).lastFeeTime = c.lastFeeTime
           /\ Adjusted(c, p).lastFeePercent = c.lastFeePercent
<1>1. /\ p.m1 \in Nat /\ p.b1 \in Nat /\ p.cutoff1 \in Nat /\ p.m2 \in Nat /\ p.cutoff2 \in Nat
      /\ p.m3 \in Nat /\ p.decayTime \in Nat /\ p.dollarCap \in Nat
  BY ParamsNat
<1>2. PICK d2 : d2 = Times(p.m1, p.cutoff1) + p.b1 - Times(p.m2, p.cutoff1)
  OBVIOUS
<1>3. PICK d3 : d3 = AtCutoff2(p, Abs(d2)) - Times(p.m3, p.cutoff2)
  OBVIOUS
<1>4. d2 \in Int /\ Abs(d2) \in Nat
  <2>1. Times(p.m1, p.cutoff1) \in Nat /\ Times(p.m2, p.cutoff1) \in Nat
    BY <1>1, TimesNat
  <2>2. d2 \in Int
    BY <2>1, <1>1, <1>2
  <2> QED
    BY <2>2 DEF Abs
<1>5. d3 \in Int /\ Abs(d3) \in Nat
  <2>1. Times(p.m2, p.cutoff2) \in Nat /\ Times(p.m3, p.cutoff2) \in Nat
    BY <1>1, TimesNat
  <2>2. d3 \in Int
    BY <2>1, <1>3, <1>4 DEF AtCutoff2
  <2> QED
    BY <2>2 DEF Abs
<1>6. PICK a : a = Adjusted(c, p)
  OBVIOUS
<1>7. a = [c EXCEPT !.m1 = p.m1, !.b1 = p.b1, !.m2 = p.m2, !.m3 = p.m3,
                    !.cutoff1 = p.cutoff1, !.cutoff2 = p.cutoff2,
                    !.b2 = Abs(d2), !.b2Negative = @ \/ d2 < 0,
                    !.b3 = Abs(d3), !.b3Negative = @ \/ d3 < 0,
                    !.decayTime = p.decayTime, !.dollarCap = p.dollarCap,
                    !.adjusted = @ + 1]
  BY <1>2, <1>3, <1>6 DEF Adjusted
<1>11. PICK n2 \in BOOLEAN : n2 = (c.b2Negative \/ d2 < 0)
  OBVIOUS
<1>12. PICK n3 \in BOOLEAN : n3 = (c.b3Negative \/ d3 < 0)
  OBVIOUS
<1>13. a = [c EXCEPT !.m1 = p.m1, !.b1 = p.b1, !.m2 = p.m2, !.m3 = p.m3,
                     !.cutoff1 = p.cutoff1, !.cutoff2 = p.cutoff2,
                     !.b2 = Abs(d2), !.b2Negative = n2, !.b3 = Abs(d3), !.b3Negative = n3,
                     !.decayTime = p.decayTime, !.dollarCap = p.dollarCap,
                     !.adjusted = @ + 1]
  BY <1>7, <1>11, <1>12
<1>10. a \in CurveStorage
  <2>1. PICK x : x = [c EXCEPT !.m1 = p.m1, !.b1 = p.b1, !.m2 = p.m2, !.m3 = p.m3,
                              !.cutoff1 = p.cutoff1, !.cutoff2 = p.cutoff2]
    OBVIOUS
  <2>2. x \in CurveStorage /\ x.adjusted = c.adjusted
    BY <1>1, <2>1 DEF CurveStorage
  <2>3. PICK y : y = [x EXCEPT !.b2 = Abs(d2), !.b2Negative = n2,
                              !.b3 = Abs(d3), !.b3Negative = n3]
    OBVIOUS
  <2>4. y \in CurveStorage /\ y.adjusted = c.adjusted
    BY <1>4, <1>5, <2>2, <2>3 DEF CurveStorage
  <2>5. a = [y EXCEPT !.decayTime = p.decayTime, !.dollarCap = p.dollarCap, !.adjusted = c.adjusted + 1]
    BY <1>13, <2>1, <2>3
  <2>6. c.adjusted + 1 \in Nat
    BY DEF CurveStorage
  <2> QED
    BY <1>1, <2>4, <2>5, <2>6 DEF CurveStorage
<1>8. /\ a \in CurveStorage
      /\ a.lastFeeTime = c.lastFeeTime /\ a.lastFeePercent = c.lastFeePercent
      /\ a.adjusted = c.adjusted + 1 /\ c.adjusted \in Nat
      /\ a.m1 = p.m1 /\ a.b1 = p.b1 /\ a.m2 = p.m2 /\ a.m3 = p.m3
      /\ a.cutoff1 = p.cutoff1 /\ a.cutoff2 = p.cutoff2
      /\ a.b2 = Abs(d2) /\ a.b3 = Abs(d3)
      /\ a.b2Negative = n2 /\ a.b3Negative = n3
  <2>1. /\ a.lastFeeTime = c.lastFeeTime /\ a.lastFeePercent = c.lastFeePercent
        /\ a.adjusted = c.adjusted + 1 /\ c.adjusted \in Nat
    BY <1>13 DEF CurveStorage
  <2>2. /\ a.m1 = p.m1 /\ a.b1 = p.b1 /\ a.m2 = p.m2 /\ a.m3 = p.m3
        /\ a.cutoff1 = p.cutoff1 /\ a.cutoff2 = p.cutoff2
    BY <1>13 DEF CurveStorage
  <2>3. /\ a.b2 = Abs(d2) /\ a.b3 = Abs(d3)
        /\ a.b2Negative = n2 /\ a.b3Negative = n3
    BY <1>13 DEF CurveStorage
  <2> QED
    BY <1>10, <2>1, <2>2, <2>3
<1>9. Signs(a)
  <2> SUFFICES ASSUME a.adjusted = 1 PROVE Configured(a)
    BY <1>8 DEF Signs
  <2>1. a.b2Negative = (d2 < 0) /\ a.b3Negative = (d3 < 0)
    BY <1>8, <1>11, <1>12 DEF Signs
  <2>2. \A d \in Int : Signed(Abs(d), d < 0) = d
    BY DEF Signed, Abs
  <2>4. Signed(a.b2, a.b2Negative) = d2 /\ Signed(a.b3, a.b3Negative) = d3
    BY <2>1, <2>2, <1>4, <1>5, <1>8
  <2>3. AtCutoff2(a, a.b2) = AtCutoff2(p, Abs(d2))
    BY <1>8 DEF AtCutoff2
  <2> QED
    BY <2>4, <2>3, <1>2, <1>3, <1>8 DEF Configured, Adjustable
<1> QED
  BY <1>6, <1>8, <1>9

\* What is left of a fee is between nothing and the fee.
LEMMA DecayedBounds ==
    ASSUME NEW c \in CurveStorage, NEW t \in Nat, c.lastFeeTime <= t, DecayDefined(c, t)
    PROVE  DecayedFee(c, t) \in Nat /\ DecayedFee(c, t) <= c.lastFeePercent
<1>1. c.lastFeePercent \in Nat /\ c.decayTime \in Nat /\ c.lastFeeTime \in Nat
  BY PrecisionPositive DEF CurveStorage
<1>2. PICK x : x = t - c.lastFeeTime
  OBVIOUS
<1>3. x \in Nat
  BY <1>1, <1>2
<1>4. CASE x <= c.decayTime
  <2>1. c.decayTime \in Nat \ {0}
    BY <1>1, <1>2, <1>3, <1>4 DEF DecayDefined
  <2>2. c.lastFeePercent * x \in Nat
    BY <1>1, <1>3, NatProduct
  <2>3. c.lastFeePercent * x <= c.lastFeePercent * c.decayTime
    BY <1>1, <1>3, <1>4, TimesMonotone
  <2>4. PICK q : q = (c.lastFeePercent * x) \div c.decayTime
    OBVIOUS
  <2>5. q \in Nat
    BY <2>1, <2>2, <2>4, QuotientNat
  <2>6. q <= c.lastFeePercent
    BY <2>1, <2>2, <2>3, <2>4, <1>1, QuotientAtMost
  <2>7. DecayedFee(c, t) = c.lastFeePercent - q
    BY <1>2, <1>4, <2>4 DEF DecayedFee
  <2> QED
    BY <2>5, <2>6, <2>7, <1>1
<1>5. CASE ~ (x <= c.decayTime)
  BY <1>1, <1>2, <1>5 DEF DecayedFee
<1> QED
  BY <1>4, <1>5

\* A fee point is a natural number where it is defined.
LEMMA PointNat ==
    ASSUME NEW c \in CurveStorage, NEW coll \in Nat, NEW total \in Nat, PointDefined(c, coll, total)
    PROVE  FeePoint(c, coll, total) \in Nat
<1>1. CASE total = 0
  BY <1>1 DEF FeePoint
<1>2. CASE total # 0
  <2>1. coll * Precision \in Nat
    BY NatProduct, PrecisionPositive
  <2>2. PICK s : s = Share(coll, total)
    OBVIOUS
  <2>3. s \in Nat
    BY <1>2, <2>1, <2>2, QuotientNat DEF Share
  <2>4. Times(c.m1, s) \in Nat /\ Times(c.m2, s) \in Nat /\ Times(c.m3, s) \in Nat
    BY <2>3, TimesNat DEF CurveStorage
  <2>5. Piece(c, s) \in Int
    BY <2>3, <2>4 DEF Piece, Signed, CurveStorage
  <2>6. Piece(c, s) \in Nat
    BY <1>2, <2>2, <2>5 DEF PointDefined
  <2> QED
    BY <1>2, <2>2, <2>6, MinOfPair, PrecisionPositive DEF FeePoint
<1> QED
  BY <1>1, <1>2

\* The fee that is charged is at most all, and at least what is left of the
\* last one.
LEMMA FeeBounds ==
    ASSUME NEW c \in CurveStorage, NEW t \in Nat, c.lastFeeTime <= t, DecayDefined(c, t),
           NEW points \in Nat
    PROVE  Fee(c, points, t) \in 0..Precision /\ DecayedFee(c, t) <= Fee(c, points, t)
<1>1. PICK h : h = points \div 2
  OBVIOUS
<1>2. h \in Nat
  BY <1>1
<1>3. PICK e : e = DecayedFee(c, t)
  OBVIOUS
<1>4. e \in Nat /\ e <= Precision
  BY <1>3, DecayedBounds, PrecisionPositive DEF CurveStorage
<1>5. Max({h, e}) \in Nat /\ e <= Max({h, e})
  BY <1>2, <1>4, MaxOfPair
<1>7. PICK x : x = Max({h, e})
  OBVIOUS
<1>8. x \in Nat /\ e <= x
  BY <1>5, <1>7
<1>9. Min({Precision, x}) \in Nat /\ Min({Precision, x}) <= Precision /\ e <= Min({Precision, x})
  BY <1>4, <1>8, MinOfPair, PrecisionPositive
<1>6. Min({Precision, Max({h, e})}) \in 0..Precision /\ e <= Min({Precision, Max({h, e})})
  <2>1. Min({Precision, x}) \in 0..Precision
    BY <1>9, PrecisionPositive
  <2> QED
    BY <2>1, <1>7, <1>9
<1> QED
  BY <1>1, <1>3, <1>6 DEF Fee

\* No curve is configured at first.
LEMMA CurveInit_Inv == CurveInit => CurveInv
<1> SUFFICES ASSUME CurveInit PROVE CurveInv
  OBVIOUS
<1>1. BlankCurve \in CurveStorage
  BY PrecisionPositive DEF BlankCurve, CurveStorage
<1>2. Signs(BlankCurve) /\ BlankCurve.lastFeeTime = 0
  BY DEF Signs, BlankCurve
<1> QED
  BY <1>1, <1>2 DEF CurveInit, CurveInv

\* Every step keeps the storage typed and the intercepts those of the parameters.
LEMMA CurveNext_Inv == CurveInv /\ [CurveNext]_curveVars => CurveInv'
<1> SUFFICES ASSUME CurveInv, [CurveNext]_curveVars PROVE CurveInv'
  OBVIOUS
<1>1. ASSUME NEW f \in Curves, NEW p \in Params, AdjustParams(f, p) PROVE CurveInv'
  <2>1. curve[f] \in CurveStorage /\ Signs(curve[f]) /\ Adjustable(p)
    BY <1>1 DEF CurveInv, AdjustParams
  <2>2. PICK a : a = Adjusted(curve[f], p)
    OBVIOUS
  <2>3. a \in CurveStorage /\ Signs(a) /\ a.lastFeeTime = curve[f].lastFeeTime
    BY <2>1, <2>2, AdjustedTyped
  <2>4. curve' = [curve EXCEPT ![f] = a] /\ UNCHANGED <<current, curveTime>>
    BY <1>1, <2>2 DEF AdjustParams
  <2> QED
    BY <2>3, <2>4 DEF CurveInv
<1>2. ASSUME NEW f \in Curves, NEW p \in Params, SetDecayTime(f, p.decayTime) PROVE CurveInv'
  <2>1. PICK a : a = [curve[f] EXCEPT !.decayTime = p.decayTime]
    OBVIOUS
  <2>2. p.decayTime \in Nat /\ curve[f] \in CurveStorage /\ Signs(curve[f])
    BY ParamsNat DEF CurveInv
  <2>3. a \in CurveStorage /\ a.lastFeeTime = curve[f].lastFeeTime
    BY <2>1, <2>2 DEF CurveStorage
  <2>4. Signs(a)
    BY <2>1, <2>2 DEF Signs, Configured, AtCutoff2, CurveStorage
  <2>5. curve' = [curve EXCEPT ![f] = a] /\ UNCHANGED <<current, curveTime>>
    BY <1>2, <2>1 DEF SetDecayTime, CurveInv
  <2> QED
    BY <2>3, <2>4, <2>5 DEF CurveInv
<1>3. ASSUME NEW f \in Curves, NEW p \in Params, SetDollarCap(f, p.dollarCap) PROVE CurveInv'
  <2>1. PICK a : a = [curve[f] EXCEPT !.dollarCap = p.dollarCap]
    OBVIOUS
  <2>2. p.dollarCap \in Nat /\ curve[f] \in CurveStorage /\ Signs(curve[f])
    BY ParamsNat DEF CurveInv
  <2>3. a \in CurveStorage /\ a.lastFeeTime = curve[f].lastFeeTime
    BY <2>1, <2>2 DEF CurveStorage
  <2>4. Signs(a)
    BY <2>1, <2>2 DEF Signs, Configured, AtCutoff2, CurveStorage
  <2>5. curve' = [curve EXCEPT ![f] = a] /\ UNCHANGED <<current, curveTime>>
    BY <1>3, <2>1 DEF SetDollarCap, CurveInv
  <2> QED
    BY <2>3, <2>4, <2>5 DEF CurveInv
<1>4. ASSUME NEW f \in Curves, ChangeFeeCurve(f) PROVE CurveInv'
  <2>1. PICK a : a = [curve[f] EXCEPT !.lastFeePercent = curve[current].lastFeePercent,
                                     !.lastFeeTime = curve[current].lastFeeTime]
    OBVIOUS
  <2>2. /\ curve[f] \in CurveStorage /\ Signs(curve[f])
        /\ curve[current] \in CurveStorage /\ curve[current].lastFeeTime <= curveTime
    BY DEF CurveInv
  <2>3. a \in CurveStorage /\ a.lastFeeTime <= curveTime
    BY <2>1, <2>2 DEF CurveStorage
  <2>4. Signs(a)
    BY <2>1, <2>2 DEF Signs, Configured, AtCutoff2, CurveStorage
  <2>5. curve' = [curve EXCEPT ![f] = a] /\ current' = f /\ UNCHANGED curveTime
    BY <1>4, <2>1 DEF ChangeFeeCurve, CurveInv
  <2> QED
    BY <2>3, <2>4, <2>5 DEF CurveInv
<1>5. ASSUME NEW input \in VCs, NEW coll \in VCs, NEW pre \in VCs, NEW post \in VCs,
             GetFeeAndUpdate(input, coll, pre, post)
      PROVE  CurveInv'
  <2>1. PICK c : c = curve[current]
    OBVIOUS
  <2>2. c \in CurveStorage /\ c.lastFeeTime <= curveTime /\ Signs(c) /\ curveTime \in Nat
    BY <2>1 DEF CurveInv
  <2>3. input \in Nat /\ coll \in Nat /\ pre \in Nat /\ post \in Nat /\ coll + input \in Nat
    BY VCsNat
  <2>4. PICK points : points = FeePoint(c, coll, pre) + FeePoint(c, coll + input, post)
    OBVIOUS
  <2>5. PointDefined(c, coll, pre) /\ PointDefined(c, coll + input, post) /\ DecayDefined(c, curveTime)
    BY <1>5, <2>1 DEF GetFeeAndUpdate
  <2>6. points \in Nat
    BY <2>2, <2>3, <2>4, <2>5, PointNat
  <2>7. PICK e : e = Fee(c, points, curveTime)
    OBVIOUS
  <2>8. e \in 0..Precision
    BY <2>2, <2>5, <2>6, <2>7, FeeBounds
  <2>9. PICK a : a = [c EXCEPT !.lastFeePercent = e, !.lastFeeTime = curveTime]
    OBVIOUS
  <2>13. a \in CurveStorage
    BY <2>2, <2>8, <2>9 DEF CurveStorage
  <2>14. a.lastFeeTime = curveTime
    BY <2>2, <2>9 DEF CurveStorage
  <2>10. a \in CurveStorage /\ a.lastFeeTime <= curveTime
    BY <2>2, <2>13, <2>14
  <2>11. Signs(a)
    BY <2>2, <2>9 DEF Signs, Configured, AtCutoff2, CurveStorage
  <2>12. curve' = [curve EXCEPT ![current] = a] /\ UNCHANGED <<current, curveTime>>
    BY <1>5, <2>1, <2>4, <2>7, <2>9 DEF GetFeeAndUpdate, CurveInv
  <2> QED
    BY <2>10, <2>11, <2>12 DEF CurveInv
<1>6. CASE CurveTick
  BY <1>6 DEF CurveTick, CurveInv, CurveStorage
<1>7. CASE UNCHANGED curveVars
  BY <1>7 DEF CurveInv, curveVars
<1> QED
  BY <1>1, <1>2, <1>3, <1>4, <1>5, <1>6, <1>7 DEF CurveNext

\* A curve configured once rises from each share to the next.
LEMMA ConfiguredRises ==
    ASSUME NEW c \in CurveStorage, Configured(c), NEW s \in Nat
    PROVE  Piece(c, s) <= Piece(c, s + 1)
<1>1. /\ c.m1 \in Nat /\ c.m2 \in Nat /\ c.m3 \in Nat /\ c.b1 \in Nat /\ c.b2 \in Nat
      /\ c.cutoff1 \in Nat /\ c.cutoff2 \in Nat /\ c.cutoff1 <= c.cutoff2
  BY DEF CurveStorage, Configured
<1>2. PICK s2 : s2 = Signed(c.b2, c.b2Negative)
  OBVIOUS
<1>3. PICK s3 : s3 = Signed(c.b3, c.b3Negative)
  OBVIOUS
<1>4. s2 \in Int /\ s2 <= c.b2 /\ s3 \in Int
  BY <1>2, <1>3 DEF Signed, CurveStorage
<1>6. \A m \in {c.m1, c.m2, c.m3} : \A x \in Nat : Times(m, x) \in Nat
  BY <1>1, TimesNat
<1>14. s2 = Times(c.m1, c.cutoff1) + c.b1 - Times(c.m2, c.cutoff1)
  BY <1>2 DEF Configured
<1>15. s3 = Times(c.m2, c.cutoff2) + c.b2 - Times(c.m3, c.cutoff2)
  <2>1. s3 = AtCutoff2(c, c.b2) - Times(c.m3, c.cutoff2)
    BY <1>3 DEF Configured
  <2>2. AtCutoff2(c, c.b2) = Times(c.m2, c.cutoff2) + c.b2
    BY DEF AtCutoff2
  <2> QED
    BY <2>1, <2>2, <1>1, <1>4, <1>6
<1>5. /\ s2 = Times(c.m1, c.cutoff1) + c.b1 - Times(c.m2, c.cutoff1)
      /\ s3 = Times(c.m2, c.cutoff2) + c.b2 - Times(c.m3, c.cutoff2)
  BY <1>14, <1>15
<1>7. \A m \in {c.m1, c.m2, c.m3} : \A x, y \in Nat : x <= y => Times(m, x) <= Times(m, y)
  BY <1>1, TimesGrows
<1>8. \A x \in Nat : Piece(c, x) =
          CASE x <= c.cutoff1 -> Times(c.m1, x) + c.b1
            [] x > c.cutoff1 /\ x <= c.cutoff2 -> Times(c.m2, x) + s2
            [] OTHER -> Times(c.m3, x) + s3
  BY <1>2, <1>3 DEF Piece
<1>9. CASE s + 1 <= c.cutoff1
  <2>1. Piece(c, s) = Times(c.m1, s) + c.b1 /\ Piece(c, s + 1) = Times(c.m1, s + 1) + c.b1
    BY <1>1, <1>8, <1>9
  <2>2. Times(c.m1, s) <= Times(c.m1, s + 1)
    BY <1>7
  <2>3. Times(c.m1, s) \in Nat /\ Times(c.m1, s + 1) \in Nat
    BY <1>6
  <2> QED
    BY <2>1, <2>2, <2>3, <1>1
<1>10. CASE s <= c.cutoff1 /\ ~ (s + 1 <= c.cutoff1)
  <2>1. s = c.cutoff1 /\ Piece(c, s) = Times(c.m1, s) + c.b1
    BY <1>1, <1>8, <1>10
  <2>2. CASE s + 1 <= c.cutoff2
    <3>1. Piece(c, s + 1) = Times(c.m2, s + 1) + s2
      BY <1>1, <1>8, <1>10, <2>2
    <3>2. Times(c.m2, s) <= Times(c.m2, s + 1)
      BY <1>7
    <3>3. s2 = Times(c.m1, s) + c.b1 - Times(c.m2, s)
      BY <1>5, <2>1
    <3>4. Times(c.m1, s) \in Nat /\ Times(c.m2, s) \in Nat /\ Times(c.m2, s + 1) \in Nat
      BY <1>6
    <3> QED
      BY <2>1, <3>1, <3>2, <3>3, <3>4, <1>1
  <2>3. CASE ~ (s + 1 <= c.cutoff2)
    <3>1. Piece(c, s + 1) = Times(c.m3, s + 1) + s3 /\ s = c.cutoff2
      BY <1>1, <1>8, <1>10, <2>1, <2>3
    <3>2. Times(c.m3, s) <= Times(c.m3, s + 1)
      BY <1>7
    <3>3. s2 = Times(c.m1, s) + c.b1 - Times(c.m2, s) /\ s3 = Times(c.m2, s) + c.b2 - Times(c.m3, s)
      BY <1>5, <2>1, <3>1
    <3>4. /\ Times(c.m1, s) \in Nat /\ Times(c.m2, s) \in Nat
          /\ Times(c.m3, s) \in Nat /\ Times(c.m3, s + 1) \in Nat
      BY <1>6
    <3>5. Times(c.m1, s) + c.b1 <= Times(c.m2, s) + c.b2
      BY <3>3, <3>4, <1>1, <1>4
    <3> QED
      BY <2>1, <3>1, <3>2, <3>3, <3>4, <3>5, <1>1
  <2> QED
    BY <2>2, <2>3
<1>11. CASE ~ (s <= c.cutoff1) /\ s + 1 <= c.cutoff2
  <2>1. Piece(c, s) = Times(c.m2, s) + s2 /\ Piece(c, s + 1) = Times(c.m2, s + 1) + s2
    BY <1>1, <1>8, <1>11
  <2>2. Times(c.m2, s) <= Times(c.m2, s + 1)
    BY <1>7
  <2>3. Times(c.m2, s) \in Nat /\ Times(c.m2, s + 1) \in Nat
    BY <1>6
  <2> QED
    BY <2>1, <2>2, <2>3, <1>4
<1>12. CASE ~ (s <= c.cutoff1) /\ s <= c.cutoff2 /\ ~ (s + 1 <= c.cutoff2)
  <2>1. s = c.cutoff2 /\ Piece(c, s) = Times(c.m2, s) + s2 /\ Piece(c, s + 1) = Times(c.m3, s + 1) + s3
    BY <1>1, <1>8, <1>12
  <2>2. Times(c.m3, s) <= Times(c.m3, s + 1)
    BY <1>7
  <2>3. s3 = Times(c.m2, s) + c.b2 - Times(c.m3, s)
    BY <1>5, <2>1
  <2>4. Times(c.m2, s) \in Nat /\ Times(c.m3, s) \in Nat /\ Times(c.m3, s + 1) \in Nat
    BY <1>6
  <2>5. c.b2 \in Nat /\ s2 \in Int /\ s2 <= c.b2
    BY <1>1, <1>4
  <2>6. Times(c.m2, s) + s2 <= Times(c.m3, s + 1) + s3
    BY <2>2, <2>3, <2>4, <2>5
  <2> QED
    BY <2>1, <2>6
<1>13. CASE ~ (s <= c.cutoff1) /\ ~ (s <= c.cutoff2)
  <2>1. Piece(c, s) = Times(c.m3, s) + s3 /\ Piece(c, s + 1) = Times(c.m3, s + 1) + s3
    BY <1>1, <1>8, <1>13
  <2>2. Times(c.m3, s) <= Times(c.m3, s + 1)
    BY <1>7
  <2>3. Times(c.m3, s) \in Nat /\ Times(c.m3, s + 1) \in Nat
    BY <1>6
  <2> QED
    BY <2>1, <2>2, <2>3, <1>4
<1> QED
  BY <1>1, <1>9, <1>10, <1>11, <1>12, <1>13

\* For every curve configured once, and every precision, slope and cutoff: the
\* more of the system a collateral backs, the higher its fee.
THEOREM FeesRise == CurveSpec => []FeeRisesWithShare
<1>1. CurveInv => FeeRisesWithShare
  <2> SUFFICES ASSUME CurveInv, NEW f \in Curves, curve[f].adjusted = 1, NEW s \in 0..Precision - 1
               PROVE  Piece(curve[f], s) <= Piece(curve[f], s + 1)
    BY DEF FeeRisesWithShare
  <2>1. curve[f] \in CurveStorage /\ Configured(curve[f]) /\ s \in Nat
    BY DEF CurveInv, Signs
  <2> QED
    BY <2>1, ConfiguredRises
<1> QED
  BY <1>1, CurveInit_Inv, CurveNext_Inv, PTL DEF CurveSpec

\* What is left of a fee that is charged when y units of the decay time are
\* over is, x units later, no less than what would be left of the fee before.
LEMMA RestartedDecay ==
    ASSUME NEW fee \in Nat, NEW d \in Nat \ {0}, NEW x \in Nat, NEW y \in Nat, x + y <= d,
           NEW new \in Nat, fee - (fee * y) \div d <= new
    PROVE  fee - (fee * (x + y)) \div d <= new - (new * x) \div d
<1>1. fee * x \in Nat /\ fee * y \in Nat /\ new * x \in Nat /\ fee * (x + y) \in Nat
  BY NatProduct
<1>2. PICK qy : qy = (fee * y) \div d
  OBVIOUS
<1>3. PICK qxy : qxy = (fee * (x + y)) \div d
  OBVIOUS
<1>4. PICK qn : qn = (new * x) \div d
  OBVIOUS
<1>5. /\ qy \in Int /\ qy * d <= fee * y /\ qxy \in Int /\ fee * (x + y) < (qxy + 1) * d
      /\ qn \in Int /\ qn * d <= new * x
  BY <1>1, <1>2, <1>3, <1>4, QuotientBounds
<1>6. SUFFICES ASSUME new - qn + 1 <= fee - qxy PROVE FALSE
  BY <1>2, <1>3, <1>4, <1>5
<1>7. PICK g : g = new - fee + qy
  OBVIOUS
<1>8. g \in Nat /\ new = fee - qy + g /\ qy \in Nat
  <2>1. qy \in Nat
    BY <1>1, <1>2, QuotientNat
  <2> QED
    BY <2>1, <1>2, <1>7
<1>9. g * x <= g * d
  BY <1>8, TimesMonotone
<1>10. new * x = fee * x - qy * x + g * x
  BY <1>8
<1>11. qy * x \in Nat /\ g * x \in Nat /\ g * d \in Nat /\ qy * d \in Nat
  BY <1>8, NatProduct
<1>12. (qxy - qy + g + 1) * d <= qn * d
  <2>1. qxy - qy + g + 1 <= qn
    BY <1>5, <1>6, <1>8
  <2> QED
    BY <2>1, <1>5, <1>8, TimesMonotone
<1>13. (qxy - qy + g + 1) * d = (qxy + 1) * d - qy * d + g * d
  BY <1>5, <1>8
<1>14. fee * (x + y) = fee * x + fee * y
  OBVIOUS
<1>15. (qxy + 1) * d \in Int /\ qn * d \in Int
  BY <1>5
<1> QED
  BY <1>1, <1>5, <1>9, <1>10, <1>11, <1>12, <1>13, <1>14, <1>15

\* A deposit that is charged no less than what is left of the last fee lowers
\* nothing of what would have been left later on.
LEMMA LaterFloors ==
    ASSUME NEW was \in CurveStorage, NEW is \in CurveStorage, NEW now \in Nat,
           was.lastFeeTime <= now, was.decayTime # 0, is.decayTime = was.decayTime,
           is.lastFeeTime = now, DecayedFee(was, now) <= is.lastFeePercent,
           NEW t \in now..now + was.decayTime
    PROVE  DecayedFee(was, t) <= DecayedFee(is, t)
<1>1. /\ was.lastFeePercent \in Nat /\ is.lastFeePercent \in Nat
      /\ was.decayTime \in Nat \ {0} /\ was.lastFeeTime \in Nat
  BY PrecisionPositive DEF CurveStorage
<1>2. PICK fee : fee = was.lastFeePercent
  OBVIOUS
<1>3. PICK new : new = is.lastFeePercent
  OBVIOUS
<1>4. PICK d : d = was.decayTime
  OBVIOUS
<1>5. PICK x : x = t - now
  OBVIOUS
<1>6. PICK y : y = now - was.lastFeeTime
  OBVIOUS
<1>7. /\ fee \in Nat /\ new \in Nat /\ d \in Nat \ {0} /\ x \in Nat /\ y \in Nat /\ x <= d
      /\ t - was.lastFeeTime = x + y
  BY <1>1, <1>2, <1>3, <1>4, <1>5, <1>6
<1>8. DecayedFee(is, t) = new - (new * x) \div d
  BY <1>3, <1>4, <1>5, <1>7 DEF DecayedFee
<1>9. CASE x + y <= d
  <2>1. DecayedFee(was, t) = fee - (fee * (x + y)) \div d
    BY <1>2, <1>4, <1>7, <1>9 DEF DecayedFee
  <2>2. y <= d
    BY <1>7, <1>9
  <2>3. DecayedFee(was, now) = fee - (fee * y) \div d
    BY <1>2, <1>4, <1>6, <2>2 DEF DecayedFee
  <2>4. fee - (fee * y) \div d <= new
    BY <2>3, <1>3
  <2> QED
    BY <2>1, <2>4, <1>7, <1>8, <1>9, RestartedDecay
<1>10. CASE ~ (x + y <= d)
  <2>1. DecayedFee(was, t) = 0
    BY <1>4, <1>7, <1>10 DEF DecayedFee
  <2>2. is.lastFeeTime <= t /\ DecayDefined(is, t) /\ t \in Nat
    BY <1>1 DEF DecayDefined
  <2>3. DecayedFee(is, t) \in Nat
    BY <2>2, DecayedBounds
  <2> QED
    BY <2>1, <2>3
<1> QED
  BY <1>9, <1>10

\* Whoever charges, configures or changes a curve, the floor under later
\* deposits is not lowered.
THEOREM FloorStands == CurveSpec => FloorNeverLowered
<1>1. CurveInv /\ CurveInv' /\ [CurveNext]_curveVars
      => (LET was == curve[current] IN
          LET is == curve'[current'] IN
          was.decayTime # 0 /\ is.decayTime = was.decayTime =>
             \A t \in curveTime'..curveTime' + was.decayTime :
                 DecayedFee(was, t) <= DecayedFee(is, t))
  <2> SUFFICES ASSUME CurveInv, CurveInv', [CurveNext]_curveVars,
                      NEW was, was = curve[current], NEW is, is = curve'[current'],
                      was.decayTime # 0, is.decayTime = was.decayTime,
                      NEW t \in curveTime'..curveTime' + was.decayTime
               PROVE  DecayedFee(was, t) <= DecayedFee(is, t)
    BY Zenon
  <2>1. /\ was \in CurveStorage /\ is \in CurveStorage
        /\ was.lastFeeTime <= curveTime /\ curveTime \in Nat
        /\ curveTime' \in Nat
    BY DEF CurveInv
  <2>2. was.decayTime \in Nat \ {0} /\ was.lastFeeTime \in Nat
    BY <2>1 DEF CurveStorage
  <2>3. ASSUME is.lastFeeTime = was.lastFeeTime, is.lastFeePercent = was.lastFeePercent,
               curveTime <= curveTime'
        PROVE  DecayedFee(was, t) <= DecayedFee(is, t)
    <3>1. DecayedFee(is, t) = DecayedFee(was, t)
      BY <2>3 DEF DecayedFee
    <3>2. t \in Nat /\ was.lastFeeTime <= t /\ DecayDefined(was, t)
      BY <2>1, <2>2, <2>3 DEF DecayDefined
    <3>3. DecayedFee(was, t) \in Nat
      BY <2>1, <3>2, DecayedBounds
    <3> QED
      BY <3>1, <3>3
  <2>4. ASSUME NEW f \in Curves, NEW p \in Params, AdjustParams(f, p)
        PROVE  DecayedFee(was, t) <= DecayedFee(is, t)
    <3>1. current' = current /\ curveTime' = curveTime
      BY <2>4 DEF AdjustParams
    <3>2. CASE f = current
      <4>1. is = Adjusted(was, p)
        BY <2>4, <3>1, <3>2 DEF AdjustParams, CurveInv
      <4>2. Adjustable(p) /\ Signs(was)
        BY <2>4 DEF AdjustParams, CurveInv
      <4>3. is.lastFeeTime = was.lastFeeTime /\ is.lastFeePercent = was.lastFeePercent
        BY <2>1, <4>1, <4>2, AdjustedTyped
      <4> QED
        BY <2>1, <2>3, <3>1, <4>3
    <3>3. CASE f # current
      <4>1. is = was
        BY <2>4, <3>1, <3>3 DEF AdjustParams, CurveInv
      <4> QED
        BY <2>1, <2>3, <3>1, <4>1
    <3> QED
      BY <3>2, <3>3
  <2>5. ASSUME NEW f \in Curves, NEW p \in Params,
               SetDecayTime(f, p.decayTime) \/ SetDollarCap(f, p.dollarCap)
        PROVE  DecayedFee(was, t) <= DecayedFee(is, t)
    <3>1. current' = current /\ curveTime' = curveTime
      BY <2>5 DEF SetDecayTime, SetDollarCap
    <3>2. is.lastFeeTime = was.lastFeeTime /\ is.lastFeePercent = was.lastFeePercent
      BY <2>1, <2>5, <3>1 DEF SetDecayTime, SetDollarCap, CurveInv, CurveStorage
    <3> QED
      BY <2>1, <2>3, <3>1, <3>2
  <2>6. ASSUME NEW f \in Curves, ChangeFeeCurve(f)
        PROVE  DecayedFee(was, t) <= DecayedFee(is, t)
    <3>1. current' = f /\ curveTime' = curveTime
      BY <2>6 DEF ChangeFeeCurve
    <3>2. is.lastFeeTime = was.lastFeeTime /\ is.lastFeePercent = was.lastFeePercent
      BY <2>1, <2>6, <3>1 DEF ChangeFeeCurve, CurveInv, CurveStorage
    <3> QED
      BY <2>1, <2>3, <3>1, <3>2
  <2>7. ASSUME NEW input \in VCs, NEW coll \in VCs, NEW pre \in VCs, NEW post \in VCs,
               GetFeeAndUpdate(input, coll, pre, post)
        PROVE  DecayedFee(was, t) <= DecayedFee(is, t)
    <3>1. current' = current /\ curveTime' = curveTime
      BY <2>7 DEF GetFeeAndUpdate
    <3>2. PICK points : points = FeePoint(was, coll, pre) + FeePoint(was, coll + input, post)
      OBVIOUS
    <3>3. /\ PointDefined(was, coll, pre) /\ PointDefined(was, coll + input, post)
          /\ DecayDefined(was, curveTime)
      BY <2>7 DEF GetFeeAndUpdate
    <3>4. coll \in Nat /\ pre \in Nat /\ post \in Nat /\ coll + input \in Nat
      BY VCsNat
    <3>5. points \in Nat
      BY <2>1, <3>2, <3>3, <3>4, PointNat
    <3>6. is = [was EXCEPT !.lastFeePercent = Fee(was, points, curveTime),
                           !.lastFeeTime = curveTime]
      BY <2>1, <2>7, <3>1, <3>2 DEF GetFeeAndUpdate, CurveInv
    <3>7. is.lastFeeTime = curveTime /\ is.lastFeePercent = Fee(was, points, curveTime)
      BY <2>1, <3>6 DEF CurveStorage
    <3>8. DecayedFee(was, curveTime) <= is.lastFeePercent
      BY <2>1, <3>3, <3>5, <3>7, FeeBounds
    <3>9. t \in curveTime..curveTime + was.decayTime
      BY <3>1
    <3> QED
      BY <2>1, <3>7, <3>8, <3>9, LaterFloors
  <2>8. CASE CurveTick
    <3>1. is = was /\ curveTime' = curveTime + 1
      BY <2>8 DEF CurveTick
    <3> QED
      BY <2>1, <2>3, <3>1
  <2>9. CASE UNCHANGED curveVars
    <3>1. is = was /\ curveTime' = curveTime
      BY <2>9 DEF curveVars
    <3> QED
      BY <2>1, <2>3, <3>1
  <2> QED
    BY <2>4, <2>5, <2>6, <2>7, <2>8, <2>9 DEF CurveNext
<1> QED
  BY <1>1, CurveInit_Inv, CurveNext_Inv, PTL DEF CurveSpec, FloorNeverLowered

-----------------------------------------------------------------------------
(***************************************************************************)
(* Three promises of PREONController.sol: its index of the collaterals,    *)
(* the delays its locks impose on changes, and its check of the two        *)
(* collateral lists of an adjustment.                                      *)
(*                                                                         *)
(* The index: a collateral that is added is in no slot yet, because those  *)
(* in a slot other than the first have an index that is not 0, and slot 0  *)
(* is looked at.  The delays: a call that stands was announced the delay   *)
(* of its lock before the time it may be executed at, which is what a      *)
(* queued entry keeps although its lock may change hands; and every change *)
(* that is left when the bootstrap is over executes one.                   *)
(*                                                                         *)
(* That the walk of checkCollateralListDouble accepts only proper lists,   *)
(* for lists of any length over any set of tokens.                         *)
(***************************************************************************)

ParamsOf == [safetyRatio : Nat, recoveryRatio : Nat, index : Nat, active : BOOLEAN]

\* The parameters of the collaterals, and the list they are indexed in.
ControllerInv ==
    /\ collateralParams \in [Collaterals -> ParamsOf]
    /\ validCollateral \in Seq(Collaterals)
    /\ CollateralIndexed

\* A call that stands was announced at least the delay of its lock before the
\* time it may be executed at.
LockInv ==
    /\ queuedTransactions \subseteq Entries
    /\ lockTime \in Nat
    /\ DOMAIN announced = queuedTransactions
    /\ \A e \in queuedTransactions :
         announced[e] \in Nat /\ announced[e] + MinimumDelay[e.lock] <= e.eta

-----------------------------------------------------------------------------

\* A change of the parameters that leaves the list and every index.
LEMMA SameIndexes ==
    ASSUME ControllerInv, validCollateral' = validCollateral,
           collateralParams' \in [Collaterals -> ParamsOf],
           \A c \in Collaterals : collateralParams'[c].index = collateralParams[c].index
    PROVE  ControllerInv'
<1>1. \A i \in DOMAIN validCollateral : validCollateral[i] \in Collaterals
  BY DEF ControllerInv
<1> QED
  BY <1>1 DEF ControllerInv, CollateralIndexed, IsInjective

\* A collateral that is added was not in the list, where every one but the
\* first has an index that is not 0.
LEMMA AddKeepsInv ==
    ASSUME ControllerInv, NEW call, AddCollateral(call), call.coll \in Collaterals,
           call.safety \in Nat, call.recovery \in Nat
    PROVE  ControllerInv'
<1> DEFINE c == call.coll
           n == Len(validCollateral)
           new == [safetyRatio |-> call.safety, recoveryRatio |-> call.recovery,
                   index |-> n, active |-> TRUE]
<1>1. /\ NotAdded(c)
      /\ validCollateral' = Append(validCollateral, c)
      /\ collateralParams' = [collateralParams EXCEPT ![c] = new]
  BY DEF AddCollateral
<1>2. n \in Nat /\ DOMAIN validCollateral = 1..n /\ validCollateral \in Seq(Collaterals)
      /\ \A i \in 1..n : validCollateral[i] \in Collaterals
  BY DEF ControllerInv
<1>3. \A i \in 1..n : validCollateral[i] # c
  <2> SUFFICES ASSUME NEW i \in 1..n, validCollateral[i] = c PROVE FALSE
    OBVIOUS
  <2>1. collateralParams[c].index = i - 1
    BY <1>2 DEF ControllerInv, CollateralIndexed
  <2>2. validCollateral # <<>>
    BY <1>2
  <2> QED
    BY <1>1, <1>2, <2>1, <2>2 DEF NotAdded
<1>4. /\ validCollateral' \in Seq(Collaterals)
      /\ DOMAIN validCollateral' = 1..n+1
      /\ \A i \in 1..n : validCollateral'[i] = validCollateral[i]
      /\ validCollateral'[n+1] = c
  BY <1>1, <1>2
<1>5. /\ new \in ParamsOf /\ new.index = n
  BY <1>2 DEF ParamsOf
<1> HIDE DEF new
<1>6. /\ collateralParams' \in [Collaterals -> ParamsOf]
      /\ collateralParams'[c] = new
      /\ \A d \in Collaterals : d # c => collateralParams'[d] = collateralParams[d]
  BY <1>1, <1>5 DEF ControllerInv
<1>7. \A i \in 1..n+1 : i \in 1..n \/ i = n + 1
  BY <1>2
<1>8. IsInjective(validCollateral')
  <2>1. \A i, j \in 1..n : validCollateral[i] = validCollateral[j] => i = j
    BY <1>2 DEF ControllerInv, CollateralIndexed, IsInjective
  <2> QED
    BY <1>3, <1>4, <1>7, <2>1 DEF IsInjective
<1>9. \A i \in 1..n+1 : collateralParams'[validCollateral'[i]].index = i - 1
  <2> SUFFICES ASSUME NEW i \in 1..n+1
               PROVE  collateralParams'[validCollateral'[i]].index = i - 1
    OBVIOUS
  <2>1. CASE i \in 1..n
    BY <1>2, <1>3, <1>4, <1>6, <2>1 DEF ControllerInv, CollateralIndexed
  <2>2. CASE i = n + 1
    BY <1>2, <1>4, <1>5, <1>6, <2>2
  <2> QED
    BY <1>7, <2>1, <2>2
<1> QED
  BY <1>4, <1>6, <1>8, <1>9 DEF ControllerInv, CollateralIndexed

\* What a call may do to the parameters.
LEMMA ChangeKeepsInv ==
    ASSUME ControllerInv, NEW call \in Calls, Change(call)
    PROVE  ControllerInv'
<1>1. CASE call.fn = "addCollateral" /\ AddCollateral(call)
  BY <1>1, CallsTyped, AddKeepsInv
<1>2. CASE call.fn = "unDeprecateCollateral" /\ UnDeprecateCollateral(call)
  <2>1. call.coll \in Collaterals
    BY <1>2, CallsTyped
  <2>2. /\ collateralParams' = [collateralParams EXCEPT ![call.coll].active = TRUE]
        /\ validCollateral' = validCollateral
    BY <1>2 DEF UnDeprecateCollateral
  <2>3. collateralParams' \in [Collaterals -> ParamsOf]
        /\ \A c \in Collaterals : collateralParams'[c].index = collateralParams[c].index
    BY <2>1, <2>2 DEF ControllerInv, ParamsOf
  <2> QED
    BY <2>2, <2>3, SameIndexes
<1>3. CASE call.fn = "changeRatios" /\ \E r \in BOOLEAN : ChangeRatios(call, r)
  <2>1. call.coll \in Collaterals /\ call.safety \in Nat /\ call.recovery \in Nat
    BY <1>3, CallsTyped
  <2>2. /\ collateralParams' =
             [collateralParams EXCEPT ![call.coll].safetyRatio = call.safety,
                                      ![call.coll].recoveryRatio = call.recovery]
        /\ validCollateral' = validCollateral
    BY <1>3 DEF ChangeRatios
  <2>3. collateralParams' \in [Collaterals -> ParamsOf]
        /\ \A c \in Collaterals : collateralParams'[c].index = collateralParams[c].index
    BY <2>1, <2>2 DEF ControllerInv, ParamsOf
  <2> QED
    BY <2>2, <2>3, SameIndexes
<1>4. CASE UpdateAbsorptionColls(call) \/ UpdateMaxSystemColls(call)
  BY <1>4, SameIndexes DEF UpdateAbsorptionColls, UpdateMaxSystemColls, ControllerInv
<1> QED
  BY <1>1, <1>2, <1>3, <1>4 DEF Change

\* An entry that is queued stands from now on, far enough ahead of its time.
LEMMA QueueKeepsInv ==
    ASSUME LockInv, NEW sender, NEW e \in Entries, QueueTransaction(sender, e)
    PROVE  LockInv'
<1>1. /\ e.eta >= lockTime + MinimumDelay[e.lock]
      /\ queuedTransactions' = queuedTransactions \cup {e}
      /\ announced' = Since(e) /\ lockTime' = lockTime
  BY DEF QueueTransaction, FarEnough
<1>2. MinimumDelay[e.lock] \in Nat
  BY DelaysPositive DEF Entries
<1>3. CASE e \in queuedTransactions
  <2>1. queuedTransactions' = queuedTransactions /\ announced' = announced
    BY <1>1, <1>3 DEF Since
  <2> QED
    BY <1>1, <2>1 DEF LockInv
<1>4. CASE e \notin queuedTransactions
  <2>1. /\ DOMAIN announced' = queuedTransactions \cup {e}
        /\ announced'[e] = lockTime
        /\ \A f \in queuedTransactions : announced'[f] = announced[f]
    BY <1>1, <1>4 DEF Since, LockInv
  <2>2. announced'[e] \in Nat /\ announced'[e] + MinimumDelay[e.lock] <= e.eta
    <3>1. e.eta \in Int
      BY DEF Entries
    <3> QED
      BY <1>1, <1>2, <2>1, <3>1 DEF LockInv
  <2> QED
    BY <1>1, <2>1, <2>2 DEF LockInv
<1> QED
  BY <1>3, <1>4

\* An entry that is cancelled or executed stands no longer.
LEMMA ForgetKeepsInv ==
    ASSUME LockInv, NEW e, queuedTransactions' = queuedTransactions \ {e},
           announced' = Forget(e), lockTime' = lockTime
    PROVE  LockInv'
BY DEF LockInv, Forget

\* Every call that stands was announced the delay of its lock before its time.
THEOREM LockInvariant == GovernanceSpec => []LockInv
<1>1. GovernanceInit => LockInv
  BY DEF GovernanceInit, LockInit, LockInv
<1>2. LockInv /\ [GovernanceNext]_governanceVars => LockInv'
  <2> SUFFICES ASSUME LockInv, [GovernanceNext]_governanceVars PROVE LockInv'
    OBVIOUS
  <2>1. ASSUME UNCHANGED <<queuedTransactions, announced>>,
               lockTime' = lockTime \/ lockTime' = lockTime + 1
        PROVE  LockInv'
    BY <2>1 DEF LockInv
  <2>2. CASE LockStep
    <3>1. ASSUME NEW sender \in Accounts, NEW e \in Entries, QueueTransaction(sender, e)
          PROVE  LockInv'
      BY <3>1, QueueKeepsInv
    <3>2. ASSUME NEW sender \in Accounts, NEW e \in queuedTransactions,
                 CancelTransaction(sender, e)
          PROVE  LockInv'
      BY <3>2, ForgetKeepsInv DEF CancelTransaction
    <3>3. ASSUME NEW sender \in Accounts, NEW l \in Locks, NEW a \in Accounts,
                 SetPendingAdmin(sender, l, a)
          PROVE  LockInv'
      BY <2>1, <3>3 DEF SetPendingAdmin
    <3>4. ASSUME NEW sender \in Accounts, NEW l \in Locks, AcceptAdmin(sender, l)
          PROVE  LockInv'
      BY <2>1, <3>4 DEF AcceptAdmin
    <3>5. CASE LockTick
      BY <2>1, <3>5 DEF LockTick
    <3> QED
      BY <2>2, <3>1, <3>2, <3>3, <3>4, <3>5 DEF LockStep
  <2>3. ASSUME NEW sender \in Accounts, NEW e \in queuedTransactions,
               ExecuteTransaction(sender, e)
        PROVE  LockInv'
    BY <2>3, ForgetKeepsInv DEF ExecuteTransaction, Release
  <2>4. ASSUME UNCHANGED lockVars PROVE LockInv'
    BY <2>1, <2>4 DEF lockVars
  <2> QED
    BY <2>2, <2>3, <2>4 DEF GovernanceNext, governanceVars, OwnerChanges, EndBootstrap,
       DeprecateCollateral, DeprecateAllCollateral
<1> QED
  BY <1>1, <1>2, PTL DEF GovernanceSpec

\* Every collateral has one slot, and its index says which.
THEOREM ControllerInvariant == GovernanceSpec => []ControllerInv
<1>1. GovernanceInit => ControllerInv
  BY DEF GovernanceInit, ControllerInit, ControllerInv, ParamsOf, BlankParams,
         CollateralIndexed, IsInjective
<1>2. ControllerInv /\ LockInv /\ [GovernanceNext]_governanceVars => ControllerInv'
  <2> SUFFICES ASSUME ControllerInv, LockInv, [GovernanceNext]_governanceVars
               PROVE  ControllerInv'
    OBVIOUS
  <2>1. ASSUME UNCHANGED controllerVars PROVE ControllerInv'
    BY <2>1, SameIndexes DEF controllerVars, ControllerInv
  <2>2. ASSUME NEW sender \in Accounts, NEW e \in queuedTransactions,
               ExecuteTransaction(sender, e)
        PROVE  ControllerInv'
    BY <2>2, ChangeKeepsInv DEF ExecuteTransaction, LockInv, Entries
  <2>3. ASSUME NEW call \in Calls, OwnerChanges(call) PROVE ControllerInv'
    BY <2>3, ChangeKeepsInv DEF OwnerChanges
  <2>4. CASE EndBootstrap
    BY <2>4, SameIndexes DEF EndBootstrap, ControllerInv
  <2>5. ASSUME NEW c \in Collaterals, DeprecateCollateral(c) PROVE ControllerInv'
    <3>1. /\ collateralParams' \in [Collaterals -> ParamsOf]
          /\ \A d \in Collaterals : collateralParams'[d].index = collateralParams[d].index
      BY <2>5 DEF DeprecateCollateral, ControllerInv, ParamsOf
    <3> QED
      BY <2>5, <3>1, SameIndexes DEF DeprecateCollateral
  <2>6. CASE DeprecateAllCollateral
    <3>1. /\ collateralParams' \in [Collaterals -> ParamsOf]
          /\ \A d \in Collaterals : collateralParams'[d].index = collateralParams[d].index
      BY <2>6 DEF DeprecateAllCollateral, ControllerInv, ParamsOf
    <3> QED
      BY <2>6, <3>1, SameIndexes DEF DeprecateAllCollateral
  <2> QED
    BY <2>1, <2>2, <2>3, <2>4, <2>5, <2>6 DEF GovernanceNext, governanceVars
<1> QED
  BY <1>1, <1>2, LockInvariant, PTL DEF GovernanceSpec

\* Every collateral added has one slot in validCollateral, and its index says
\* which, whoever adds it.
THEOREM CollateralAlwaysIndexed == GovernanceSpec => []CollateralIndexed
<1>1. ControllerInv => CollateralIndexed
  BY DEF ControllerInv
<1> QED
  BY <1>1, ControllerInvariant, PTL

\* Shutting collaterals down changes nothing the locks protect.
LEMMA ShutDownIsFree ==
    ASSUME ControllerInv, NEW C \in SUBSET Collaterals,
           collateralParams' = [c \in Collaterals |->
             IF c \in C THEN [collateralParams[c] EXCEPT !.active = FALSE]
             ELSE collateralParams[c]],
           UNCHANGED <<validCollateral, absorptionColls, maxSystemColls>>
    PROVE  Protected' = Protected /\ ~ Reactivated
<1>1. \A c \in Collaterals :
        /\ collateralParams'[c].safetyRatio = collateralParams[c].safetyRatio
        /\ collateralParams'[c].recoveryRatio = collateralParams[c].recoveryRatio
        /\ collateralParams'[c].active => collateralParams[c].active
  BY DEF ControllerInv, ParamsOf
<1> QED
  BY <1>1 DEF Protected, Reactivated

\* After the bootstrap nothing the locks protect changes, and no collateral
\* that was shut down comes back, but by a call that has been standing for the
\* whole delay of the lock it needs.
THEOREM DelayAlwaysRespected == GovernanceSpec => DelayRespected
<1> DEFINE Delayed ==
             bootstrapEnded /\ (Protected' # Protected \/ Reactivated) =>
               \E e \in queuedTransactions :
                 /\ lockTime >= announced[e] + MinimumDelay[e.lock]
                 /\ maxSystemColls' # maxSystemColls => e.lock = TwoWeeks
                 /\ e \notin queuedTransactions'
<1>1. ControllerInv /\ LockInv /\ [GovernanceNext]_governanceVars => [Delayed]_governanceVars
  <2> SUFFICES ASSUME ControllerInv, LockInv, GovernanceNext,
                      bootstrapEnded, Protected' # Protected \/ Reactivated
               PROVE  \E e \in queuedTransactions :
                        /\ lockTime >= announced[e] + MinimumDelay[e.lock]
                        /\ maxSystemColls' # maxSystemColls => e.lock = TwoWeeks
                        /\ e \notin queuedTransactions'
    OBVIOUS
  <2>1. ~ UNCHANGED <<collateralParams, validCollateral, absorptionColls, maxSystemColls>>
    BY DEF Protected, Reactivated
  <2>2. ~ LockStep \/ ~ UNCHANGED controllerVars
    BY <2>1 DEF controllerVars
  <2>3. ~ EndBootstrap
    BY <2>1 DEF EndBootstrap
  <2>4. ~ \E call \in Calls : OwnerChanges(call)
    BY DEF OwnerChanges
  <2>5. ~ \E c \in Collaterals : DeprecateCollateral(c)
    <3> SUFFICES ASSUME NEW c \in Collaterals, DeprecateCollateral(c) PROVE FALSE
      OBVIOUS
    <3>1. collateralParams' = [d \in Collaterals |->
             IF d \in {c} THEN [collateralParams[d] EXCEPT !.active = FALSE]
             ELSE collateralParams[d]]
      BY DEF DeprecateCollateral, ControllerInv
    <3> QED
      BY <3>1, ShutDownIsFree DEF DeprecateCollateral
  <2>6. ~ DeprecateAllCollateral
    <3> SUFFICES ASSUME DeprecateAllCollateral PROVE FALSE
      OBVIOUS
    <3>1. collateralParams' = [d \in Collaterals |->
             IF d \in Collaterals THEN [collateralParams[d] EXCEPT !.active = FALSE]
             ELSE collateralParams[d]]
      BY DEF DeprecateAllCollateral
    <3> QED
      BY <3>1, ShutDownIsFree DEF DeprecateAllCollateral
  <2>7. PICK sender \in Accounts, e \in queuedTransactions : ExecuteTransaction(sender, e)
    BY <2>2, <2>3, <2>4, <2>5, <2>6 DEF GovernanceNext
  <2>8. lockTime >= announced[e] + MinimumDelay[e.lock]
    <3>1. e.eta <= lockTime /\ e \in Entries
      BY <2>7 DEF ExecuteTransaction, Release, Ripe, LockInv
    <3>2. e.eta \in Int /\ MinimumDelay[e.lock] \in Nat
      BY <3>1, DelaysPositive DEF Entries
    <3> QED
      BY <3>1, <3>2 DEF LockInv
  <2>9. maxSystemColls' # maxSystemColls => e.lock = TwoWeeks
    <3>1. Change(e.call) /\ e.lock \in RequiredLock(e.call)
      BY <2>7 DEF ExecuteTransaction
    <3>2. maxSystemColls' # maxSystemColls => e.call.fn = "updateMaxSystemColls"
      BY <3>1 DEF Change, AddCollateral, UnDeprecateCollateral, ChangeRatios,
                  UpdateAbsorptionColls
    <3> QED
      BY <3>1, <3>2 DEF RequiredLock
  <2>10. e \notin queuedTransactions'
    BY <2>7 DEF ExecuteTransaction, Release
  <2> QED
    BY <2>8, <2>9, <2>10
<1> QED
  BY <1>1, ControllerInvariant, LockInvariant, PTL DEF GovernanceSpec, DelayRespected

-----------------------------------------------------------------------------
(* The two lists of an adjustment. *)

ListsTypeOK ==
    /\ depositColls \in Seq(Tokens) /\ withdrawColls \in Seq(Tokens)
    /\ d_i \in 0..Len(depositColls) /\ w_i \in 0..Len(withdrawColls)
    /\ dIndex \in Nat /\ wIndex \in Nat

\* The elements looked at exist and increase up to the index last looked at.
Walked(list, i, last) ==
    /\ \A k \in 1..i : IsCollateral(list[k])
    /\ \A j, k \in 1..i : j < k => Index[list[j]] < Index[list[k]]
    /\ i # 0 => last = Index[list[i]]

\* Before anything is looked at, the index is that of the first element.
AtFirst(list, i, last) == i = 0 /\ list # <<>> => last = Index[list[1]]

\* All that was looked at in one list but the last element is behind the other.
Behind(list, i, other) == \A k \in 1..i : k < i => Index[list[k]] < other

AllBehind(list, i, other) == \A k \in 1..i : Index[list[k]] < other

\* No two elements looked at meet, the last two perhaps excepted.
Apart(d, i, w, j) ==
    \A k \in 1..i, l \in 1..j : k < i \/ l < j => Index[d[k]] # Index[w[l]]

BothWalked ==
    /\ Walked(depositColls, d_i, dIndex) /\ AtFirst(depositColls, d_i, dIndex)
    /\ Walked(withdrawColls, w_i, wIndex) /\ AtFirst(withdrawColls, w_i, wIndex)
    /\ \A k \in 1..d_i : Active[depositColls[k]]

Merging ==
    /\ depositColls # <<>> /\ withdrawColls # <<>>
    /\ BothWalked
    /\ Behind(depositColls, d_i, wIndex) /\ Behind(withdrawColls, w_i, dIndex)
    /\ Apart(depositColls, d_i, withdrawColls, w_i)

\* One list has ended, all of it before what is left of the other one.
Draining ==
    /\ BothWalked
    /\ \A k \in 1..d_i, l \in 1..w_i : Index[depositColls[k]] # Index[withdrawColls[l]]
    /\ \/ d_i = Len(depositColls) /\ AllBehind(depositColls, d_i, wIndex)
       \/ w_i = Len(withdrawColls) /\ AllBehind(withdrawColls, w_i, dIndex)

ListsInv ==
    /\ ListsTypeOK
    /\ verdict = "merging" => Merging
    /\ verdict = "draining" => Draining
    /\ AcceptsOnlyProper
    /\ RejectsOnlyImproper

\* One more element of a list walked.
LEMMA WalkOn ==
    ASSUME NEW list \in Seq(Tokens), NEW i \in 0..Len(list) - 1, NEW last \in Nat,
           Walked(list, i, last),
           NextProper(list, i, last)
    PROVE  /\ list[i + 1] \in Tokens
           /\ Walked(list, i + 1, Index[list[i + 1]])
           /\ AtFirst(list, i + 1, Index[list[i + 1]])
           /\ AtFirst(list, i, last) => last <= Index[list[i + 1]]
           /\ i # 0 => \A k \in 1..i : Index[list[k]] <= last
<1>1. /\ i \in Nat /\ i + 1 \in 1..Len(list)
      /\ \A k \in 1..Len(list) : list[k] \in Tokens /\ Index[list[k]] \in Nat
  BY IndexOfAll
<1>2. IsCollateral(list[i + 1]) /\ (i # 0 => Index[list[i + 1]] > last)
  BY DEF NextProper
<1>3. i # 0 => \A k \in 1..i : Index[list[k]] <= last
  <2> SUFFICES ASSUME i # 0, NEW k \in 1..i PROVE Index[list[k]] <= last
    OBVIOUS
  <2>1. last = Index[list[i]] /\ (k < i => Index[list[k]] < Index[list[i]])
    <3>1. i \in 1..i
      BY <1>1
    <3> QED
      BY <3>1 DEF Walked
  <2>2. (k = i \/ k < i) /\ Index[list[k]] \in Nat /\ Index[list[i]] \in Nat
    BY <1>1
  <2> QED
    BY <2>1, <2>2
<1>4. \A k \in 1..i + 1 : IsCollateral(list[k])
  BY <1>1, <1>2 DEF Walked
<1>5. ASSUME NEW j \in 1..i + 1, NEW k \in 1..i + 1, j < k
      PROVE  Index[list[j]] < Index[list[k]]
  <2>1. j \in 1..i /\ i # 0
    BY <1>5, <1>1
  <2>2. CASE k = i + 1
    BY <2>1, <2>2, <1>1, <1>2, <1>3
  <2>3. CASE k # i + 1
    BY <2>1, <2>3, <1>1, <1>5 DEF Walked
  <2> QED
    BY <2>2, <2>3
<1>6. /\ AtFirst(list, i + 1, Index[list[i + 1]])
      /\ AtFirst(list, i, last) => last <= Index[list[i + 1]]
  BY <1>1, <1>2 DEF AtFirst
<1>7. Walked(list, i + 1, Index[list[i + 1]])
  BY <1>1, <1>4, <1>5 DEF Walked
<1> QED
  BY <1>1, <1>3, <1>6, <1>7

\* At first nothing of the two lists has been looked at.
LEMMA ListsInit_Inv == ListsInit => ListsInv
<1> SUFFICES ASSUME ListsInit PROVE ListsInv
  OBVIOUS
<1>1. ListsTypeOK
  BY ListsOfTokens, IndexOfAll DEF ListsInit, ListsTypeOK, FirstIndex
<1>2. BothWalked
  BY DEF ListsInit, BothWalked, Walked, AtFirst, FirstIndex
<1>3. depositColls # <<>> /\ withdrawColls # <<>> => Merging
  BY <1>2 DEF ListsInit, Merging, Behind, Apart
<1>4. depositColls = <<>> \/ withdrawColls = <<>> => Draining
  BY <1>2 DEF ListsInit, Draining, AllBehind
<1> QED
  BY <1>1, <1>3, <1>4 DEF ListsInit, ListsInv, StartVerdict, AcceptsOnlyProper,
                          RejectsOnlyImproper

\* Looking at one more deposit, whichever loop does it.
LEMMA DepositWalked ==
    ASSUME ListsTypeOK, BothWalked, d_i < Len(depositColls), LookAtDeposit, verdict' # "rejected"
    PROVE  /\ UNCHANGED <<depositColls, withdrawColls, w_i, wIndex, verdict>>
           /\ d_i' = d_i + 1 /\ dIndex' = Index[depositColls[d_i + 1]]
           /\ ListsTypeOK' /\ BothWalked'
           /\ dIndex <= dIndex'
           /\ \A k \in 1..d_i : Index[depositColls[k]] <= dIndex
<1>1. /\ NextProper(depositColls, d_i, dIndex) /\ Active[depositColls[d_i + 1]]
      /\ UNCHANGED <<depositColls, withdrawColls, w_i, wIndex, verdict>>
      /\ d_i' = d_i + 1 /\ dIndex' = Index[depositColls[d_i + 1]]
  BY DEF LookAtDeposit, Reject
<1>2. d_i \in 0..Len(depositColls) - 1 /\ depositColls \in Seq(Tokens) /\ dIndex \in Nat
  BY DEF ListsTypeOK
<1>3. /\ depositColls[d_i + 1] \in Tokens
      /\ Walked(depositColls, d_i + 1, Index[depositColls[d_i + 1]])
      /\ AtFirst(depositColls, d_i + 1, Index[depositColls[d_i + 1]])
      /\ AtFirst(depositColls, d_i, dIndex) => dIndex <= Index[depositColls[d_i + 1]]
      /\ d_i # 0 => \A k \in 1..d_i : Index[depositColls[k]] <= dIndex
  BY <1>1, <1>2, WalkOn DEF BothWalked
<1>4. ListsTypeOK'
  BY <1>1, <1>2, <1>3, IndexOfAll DEF ListsTypeOK
<1>5. \A k \in 1..d_i + 1 : Active[depositColls[k]]
  BY <1>1, <1>2 DEF BothWalked
<1>6. BothWalked'
  BY <1>1, <1>3, <1>5 DEF BothWalked, Walked, AtFirst
<1> QED
  BY <1>1, <1>2, <1>3, <1>4, <1>6 DEF BothWalked

\* The same for the list of withdrawals.
LEMMA WithdrawalWalked ==
    ASSUME ListsTypeOK, BothWalked, w_i < Len(withdrawColls), LookAtWithdrawal,
           verdict' # "rejected"
    PROVE  /\ UNCHANGED <<depositColls, withdrawColls, d_i, dIndex, verdict>>
           /\ w_i' = w_i + 1 /\ wIndex' = Index[withdrawColls[w_i + 1]]
           /\ ListsTypeOK' /\ BothWalked'
           /\ wIndex <= wIndex'
           /\ \A k \in 1..w_i : Index[withdrawColls[k]] <= wIndex
<1>1. /\ NextProper(withdrawColls, w_i, wIndex)
      /\ UNCHANGED <<depositColls, withdrawColls, d_i, dIndex, verdict>>
      /\ w_i' = w_i + 1 /\ wIndex' = Index[withdrawColls[w_i + 1]]
  BY DEF LookAtWithdrawal, Reject
<1>2. w_i \in 0..Len(withdrawColls) - 1 /\ withdrawColls \in Seq(Tokens) /\ wIndex \in Nat
  BY DEF ListsTypeOK
<1>3. /\ withdrawColls[w_i + 1] \in Tokens
      /\ Walked(withdrawColls, w_i + 1, Index[withdrawColls[w_i + 1]])
      /\ AtFirst(withdrawColls, w_i + 1, Index[withdrawColls[w_i + 1]])
      /\ AtFirst(withdrawColls, w_i, wIndex) => wIndex <= Index[withdrawColls[w_i + 1]]
      /\ w_i # 0 => \A k \in 1..w_i : Index[withdrawColls[k]] <= wIndex
  BY <1>1, <1>2, WalkOn DEF BothWalked
<1>4. ListsTypeOK'
  BY <1>1, <1>2, <1>3, IndexOfAll DEF ListsTypeOK
<1>5. BothWalked'
  BY <1>1, <1>3 DEF BothWalked, Walked, AtFirst
<1> QED
  BY <1>1, <1>2, <1>3, <1>4, <1>5 DEF BothWalked

\* A deposit that is not looked at shows that the lists are improper.
LEMMA DepositRefused ==
    ASSUME ListsTypeOK, BothWalked, d_i < Len(depositColls),
           ~ (NextProper(depositColls, d_i, dIndex) /\ Active[depositColls[d_i + 1]])
    PROVE  ~ Proper
<1>1. d_i \in Nat /\ d_i + 1 \in 1..Len(depositColls)
  BY DEF ListsTypeOK
<1>2. d_i # 0 => d_i \in 1..Len(depositColls) /\ d_i < d_i + 1 /\ dIndex = Index[depositColls[d_i]]
  BY <1>1 DEF BothWalked, Walked
<1> QED
  BY <1>1, <1>2 DEF Proper, Increasing, NextProper

\* A withdrawal that is refused is not proper.
LEMMA WithdrawalRefused ==
    ASSUME ListsTypeOK, BothWalked, w_i < Len(withdrawColls),
           ~ NextProper(withdrawColls, w_i, wIndex)
    PROVE  ~ Proper
<1>1. w_i \in Nat /\ w_i + 1 \in 1..Len(withdrawColls)
  BY DEF ListsTypeOK
<1>2. w_i # 0 =>
        w_i \in 1..Len(withdrawColls) /\ w_i < w_i + 1 /\ wIndex = Index[withdrawColls[w_i]]
  BY <1>1 DEF BothWalked, Walked
<1> QED
  BY <1>1, <1>2 DEF Proper, Increasing, NextProper

\* Two lists that meet in an index share a collateral.
LEMMA MeetingRefused ==
    ASSUME ListsTypeOK, Merging, dIndex = wIndex
    PROVE  ~ Proper
<1>1. /\ depositColls \in Seq(Tokens) /\ withdrawColls \in Seq(Tokens)
      /\ Len(depositColls) \in Nat \ {0} /\ Len(withdrawColls) \in Nat \ {0}
      /\ d_i \in 0..Len(depositColls) /\ w_i \in 0..Len(withdrawColls)
  BY DEF ListsTypeOK, Merging
<1>2. PICK i \in 1..Len(depositColls) : dIndex = Index[depositColls[i]]
  <2>1. CASE d_i = 0
    BY <2>1, <1>1 DEF Merging, BothWalked, AtFirst
  <2>2. CASE d_i # 0
    BY <2>2, <1>1 DEF Merging, BothWalked, Walked
  <2> QED
    BY <2>1, <2>2
<1>3. PICK j \in 1..Len(withdrawColls) : wIndex = Index[withdrawColls[j]]
  <2>1. CASE w_i = 0
    BY <2>1, <1>1 DEF Merging, BothWalked, AtFirst
  <2>2. CASE w_i # 0
    BY <2>2, <1>1 DEF Merging, BothWalked, Walked
  <2> QED
    BY <2>1, <2>2
<1>4. depositColls[i] \in Tokens /\ withdrawColls[j] \in Tokens
  BY <1>1
<1> QED
  BY <1>2, <1>3, <1>4, IndexInjective DEF Proper

\* A list that is rejected was not proper.
LEMMA Rejected ==
    ASSUME ListsInv, ListsNext, Reject, verdict # "rejected"
    PROVE  ListsInv'
<1>1. ListsTypeOK /\ d_i \in 0..Len(depositColls) /\ w_i \in 0..Len(withdrawColls)
  BY DEF ListsInv, ListsTypeOK
<1>2. verdict' = "rejected" /\ UNCHANGED <<depositColls, withdrawColls, d_i, w_i, dIndex, wIndex>>
  BY DEF Reject
<1>3. ~ Proper
  <2>1. CASE Merge
    <3>1. Merging /\ BothWalked
      BY <2>1 DEF ListsInv, Merge, Merging
    <3>2. \/ dIndex = wIndex
          \/ /\ d_i < Len(depositColls)
             /\ ~ (NextProper(depositColls, d_i, dIndex) /\ Active[depositColls[d_i + 1]])
          \/ w_i < Len(withdrawColls) /\ ~ NextProper(withdrawColls, w_i, wIndex)
      BY <2>1, <1>1, <1>2 DEF Merge, Overlap, Drain, LookAtDeposit, LookAtWithdrawal
    <3> QED
      BY <3>1, <3>2, <1>1, MeetingRefused, DepositRefused, WithdrawalRefused
  <2>2. CASE DrainStep
    <3>1. BothWalked
      BY <2>2 DEF ListsInv, DrainStep, Draining
    <3>2. \/ /\ d_i < Len(depositColls)
             /\ ~ (NextProper(depositColls, d_i, dIndex) /\ Active[depositColls[d_i + 1]])
          \/ w_i < Len(withdrawColls) /\ ~ NextProper(withdrawColls, w_i, wIndex)
      BY <2>2, <1>1, <1>2 DEF DrainStep, LookAtDeposit, LookAtWithdrawal
    <3> QED
      BY <3>1, <3>2, <1>1, DepositRefused, WithdrawalRefused
  <2> QED
    BY <2>1, <2>2 DEF ListsNext
<1>4. ListsTypeOK' /\ ~ Proper'
  BY <1>1, <1>2, <1>3 DEF ListsTypeOK, Proper, Increasing
<1> QED
  BY <1>2, <1>4 DEF ListsInv, AcceptsOnlyProper, RejectsOnlyImproper

\* A deposit that is behind in the merge is looked at, and differs from every
\* withdrawal seen.
LEMMA MergeDeposit ==
    ASSUME ListsTypeOK, Merging, verdict = "merging", dIndex < wIndex,
           d_i < Len(depositColls), LookAtDeposit, verdict' # "rejected"
    PROVE  ListsInv'
<1>1. /\ UNCHANGED <<depositColls, withdrawColls, w_i, wIndex, verdict>>
      /\ d_i' = d_i + 1 /\ dIndex' = Index[depositColls[d_i + 1]]
      /\ ListsTypeOK' /\ BothWalked'
      /\ dIndex <= dIndex'
      /\ \A k \in 1..d_i : Index[depositColls[k]] <= dIndex
  BY DepositWalked DEF Merging
<1>2. /\ d_i \in Nat /\ w_i \in Nat /\ dIndex \in Nat /\ wIndex \in Nat /\ dIndex' \in Nat
      /\ \A k \in 1..d_i : Index[depositColls[k]] \in Nat
      /\ \A l \in 1..w_i : Index[withdrawColls[l]] \in Nat
  <2>1. /\ d_i \in 0..Len(depositColls) /\ w_i \in 0..Len(withdrawColls)
        /\ dIndex \in Nat /\ wIndex \in Nat /\ dIndex' \in Nat
        /\ depositColls \in Seq(Tokens) /\ withdrawColls \in Seq(Tokens)
    BY <1>1 DEF ListsTypeOK
  <2>2. /\ \A k \in 1..d_i : depositColls[k] \in Tokens
        /\ \A l \in 1..w_i : withdrawColls[l] \in Tokens
    BY <2>1
  <2>3. \A t \in Tokens : Index[t] \in Nat
    BY IndexOfAll
  <2> QED
    BY <2>1, <2>2, <2>3
<1>3. Behind(depositColls, d_i + 1, wIndex)
  <2> SUFFICES ASSUME NEW k \in 1..d_i + 1, k < d_i + 1
               PROVE  Index[depositColls[k]] < wIndex
    BY DEF Behind
  <2>1. k \in 1..d_i
    BY <1>2
  <2> QED
    BY <1>1, <1>2, <2>1
<1>4. Behind(withdrawColls, w_i, dIndex')
  BY <1>1, <1>2 DEF Behind, Merging
<1>5. ASSUME NEW k \in 1..d_i + 1, NEW l \in 1..w_i, k < d_i + 1 \/ l < w_i
      PROVE  Index[depositColls[k]] # Index[withdrawColls[l]]
  <2>1. CASE k = d_i + 1
    <3>1. Index[withdrawColls[l]] < dIndex
      BY <1>5, <2>1, <1>2 DEF Merging, Behind
    <3> QED
      BY <3>1, <2>1, <1>1, <1>2
  <2>2. CASE k # d_i + 1 /\ (k < d_i \/ l < w_i)
    BY <2>2, <1>2 DEF Merging, Apart
  <2>3. CASE k = d_i /\ l = w_i
    <3>1. Index[depositColls[k]] = dIndex /\ Index[withdrawColls[l]] = wIndex
      BY <2>3, <1>2 DEF Merging, BothWalked, Walked
    <3> QED
      BY <3>1, <1>2
  <2> QED
    BY <2>1, <2>2, <2>3, <1>2
<1>6. Merging'
  BY <1>1, <1>3, <1>4, <1>5 DEF Merging, Behind, Apart
<1> QED
  BY <1>1, <1>6 DEF ListsInv, AcceptsOnlyProper, RejectsOnlyImproper

\* A withdrawal that is behind in the merge, likewise.
LEMMA MergeWithdrawal ==
    ASSUME ListsTypeOK, Merging, verdict = "merging", wIndex < dIndex,
           w_i < Len(withdrawColls), LookAtWithdrawal, verdict' # "rejected"
    PROVE  ListsInv'
<1>1. /\ UNCHANGED <<depositColls, withdrawColls, d_i, dIndex, verdict>>
      /\ w_i' = w_i + 1 /\ wIndex' = Index[withdrawColls[w_i + 1]]
      /\ ListsTypeOK' /\ BothWalked'
      /\ wIndex <= wIndex'
      /\ \A l \in 1..w_i : Index[withdrawColls[l]] <= wIndex
  BY WithdrawalWalked DEF Merging
<1>2. /\ d_i \in Nat /\ w_i \in Nat /\ dIndex \in Nat /\ wIndex \in Nat /\ wIndex' \in Nat
      /\ \A k \in 1..d_i : Index[depositColls[k]] \in Nat
      /\ \A l \in 1..w_i : Index[withdrawColls[l]] \in Nat
  <2>1. /\ d_i \in 0..Len(depositColls) /\ w_i \in 0..Len(withdrawColls)
        /\ dIndex \in Nat /\ wIndex \in Nat /\ wIndex' \in Nat
        /\ depositColls \in Seq(Tokens) /\ withdrawColls \in Seq(Tokens)
    BY <1>1 DEF ListsTypeOK
  <2>2. /\ \A k \in 1..d_i : depositColls[k] \in Tokens
        /\ \A l \in 1..w_i : withdrawColls[l] \in Tokens
    BY <2>1
  <2>3. \A t \in Tokens : Index[t] \in Nat
    BY IndexOfAll
  <2> QED
    BY <2>1, <2>2, <2>3
<1>3. Behind(withdrawColls, w_i + 1, dIndex)
  BY <1>1, <1>2 DEF Behind
<1>4. Behind(depositColls, d_i, wIndex')
  BY <1>1, <1>2 DEF Behind, Merging
<1>5. ASSUME NEW k \in 1..d_i, NEW l \in 1..w_i + 1, k < d_i \/ l < w_i + 1
      PROVE  Index[depositColls[k]] # Index[withdrawColls[l]]
  <2>1. CASE l = w_i + 1
    <3>1. Index[depositColls[k]] < wIndex
      BY <1>5, <2>1, <1>2 DEF Merging, Behind
    <3> QED
      BY <3>1, <2>1, <1>1, <1>2
  <2>2. CASE l # w_i + 1 /\ (k < d_i \/ l < w_i)
    BY <2>2, <1>2 DEF Merging, Apart
  <2>3. CASE k = d_i /\ l = w_i
    <3>1. Index[depositColls[k]] = dIndex /\ Index[withdrawColls[l]] = wIndex
      BY <2>3, <1>2 DEF Merging, BothWalked, Walked
    <3> QED
      BY <3>1, <1>2
  <2> QED
    BY <2>1, <2>2, <2>3, <1>2
<1>6. Merging'
  BY <1>1, <1>3, <1>4, <1>5 DEF Merging, Behind, Apart
<1> QED
  BY <1>1, <1>6 DEF ListsInv, AcceptsOnlyProper, RejectsOnlyImproper

\* The list that is behind has ended: what is left of the other is ahead of it.
LEMMA MergeEnds ==
    ASSUME ListsTypeOK, Merging, Drain, dIndex # wIndex,
           \/ d_i = Len(depositColls) /\ dIndex < wIndex
           \/ w_i = Len(withdrawColls) /\ wIndex < dIndex
    PROVE  ListsInv'
<1>1. /\ d_i \in Nat /\ w_i \in Nat /\ dIndex \in Nat /\ wIndex \in Nat
      /\ \A k \in 1..d_i : Index[depositColls[k]] \in Nat
      /\ \A l \in 1..w_i : Index[withdrawColls[l]] \in Nat
  BY IndexOfAll DEF ListsTypeOK
<1>2. ASSUME NEW k \in 1..d_i, NEW l \in 1..w_i
      PROVE  Index[depositColls[k]] # Index[withdrawColls[l]]
  <2>1. CASE k < d_i \/ l < w_i
    BY <2>1 DEF Merging, Apart
  <2>2. CASE k = d_i /\ l = w_i
    BY <2>2, <1>1 DEF Merging, BothWalked, Walked
  <2> QED
    BY <2>1, <2>2, <1>1
<1>3. \/ d_i = Len(depositColls) /\ AllBehind(depositColls, d_i, wIndex)
      \/ w_i = Len(withdrawColls) /\ AllBehind(withdrawColls, w_i, dIndex)
  <2>1. CASE d_i = Len(depositColls) /\ dIndex < wIndex
    BY <2>1, <1>1 DEF Merging, BothWalked, Walked, AllBehind
  <2>2. CASE w_i = Len(withdrawColls) /\ wIndex < dIndex
    BY <2>2, <1>1 DEF Merging, BothWalked, Walked, AllBehind
  <2> QED
    BY <2>1, <2>2
<1>4. Draining
  BY <1>2, <1>3 DEF Merging, Draining
<1>5. verdict' = "draining" /\ UNCHANGED <<depositColls, withdrawColls, d_i, w_i, dIndex, wIndex>>
  BY DEF Drain
<1>6. ListsTypeOK' /\ Draining'
  BY <1>4, <1>5 DEF ListsTypeOK, Draining, BothWalked, Walked, AtFirst, AllBehind
<1> QED
  BY <1>5, <1>6 DEF ListsInv, AcceptsOnlyProper, RejectsOnlyImproper

\* What is left of the deposits when the withdrawals are at their end.
LEMMA DrainDeposit ==
    ASSUME ListsTypeOK, Draining, verdict = "draining",
           d_i < Len(depositColls), LookAtDeposit, verdict' # "rejected"
    PROVE  ListsInv'
<1>1. /\ UNCHANGED <<depositColls, withdrawColls, w_i, wIndex, verdict>>
      /\ d_i' = d_i + 1 /\ dIndex' = Index[depositColls[d_i + 1]]
      /\ ListsTypeOK' /\ BothWalked'
      /\ dIndex <= dIndex'
  BY DepositWalked DEF Draining
<1>2. /\ d_i \in Nat /\ w_i \in Nat /\ dIndex \in Nat /\ dIndex' \in Nat
      /\ \A l \in 1..w_i : Index[withdrawColls[l]] \in Nat
  <2>1. d_i \in Nat /\ w_i \in Nat /\ dIndex \in Nat
    BY DEF ListsTypeOK
  <2>2. dIndex' \in Nat
    BY <1>1 DEF ListsTypeOK
  <2>3. \A l \in 1..w_i : Index[withdrawColls[l]] \in Nat
    BY IndexOfAll DEF ListsTypeOK
  <2> QED
    BY <2>1, <2>2, <2>3
<1>3. w_i = Len(withdrawColls) /\ AllBehind(withdrawColls, w_i, dIndex)
  BY <1>2 DEF Draining, ListsTypeOK
<1>4. \A l \in 1..w_i : Index[withdrawColls[l]] < dIndex'
  BY <1>1, <1>2, <1>3 DEF AllBehind
<1>5. ASSUME NEW k \in 1..d_i + 1, NEW l \in 1..w_i
      PROVE  Index[depositColls[k]] # Index[withdrawColls[l]]
  <2>1. CASE k = d_i + 1
    BY <2>1, <1>1, <1>2, <1>4
  <2>2. CASE k # d_i + 1
    BY <2>2, <1>2 DEF Draining
  <2> QED
    BY <2>1, <2>2
<1>6. Draining'
  BY <1>1, <1>3, <1>4, <1>5 DEF Draining, AllBehind
<1> QED
  BY <1>1, <1>6 DEF ListsInv, AcceptsOnlyProper, RejectsOnlyImproper

\* What is left of the withdrawals.
LEMMA DrainWithdrawal ==
    ASSUME ListsTypeOK, Draining, verdict = "draining", d_i = Len(depositColls),
           w_i < Len(withdrawColls), LookAtWithdrawal, verdict' # "rejected"
    PROVE  ListsInv'
<1>1. /\ UNCHANGED <<depositColls, withdrawColls, d_i, dIndex, verdict>>
      /\ w_i' = w_i + 1 /\ wIndex' = Index[withdrawColls[w_i + 1]]
      /\ ListsTypeOK' /\ BothWalked'
      /\ wIndex <= wIndex'
  BY WithdrawalWalked DEF Draining
<1>2. /\ d_i \in Nat /\ w_i \in Nat /\ wIndex \in Nat /\ wIndex' \in Nat
      /\ \A k \in 1..d_i : Index[depositColls[k]] \in Nat
  BY <1>1, IndexOfAll DEF ListsTypeOK
<1>3. AllBehind(depositColls, d_i, wIndex)
  BY <1>2 DEF Draining, ListsTypeOK
<1>4. \A k \in 1..d_i : Index[depositColls[k]] < wIndex'
  BY <1>1, <1>2, <1>3 DEF AllBehind
<1>5. ASSUME NEW k \in 1..d_i, NEW l \in 1..w_i + 1
      PROVE  Index[depositColls[k]] # Index[withdrawColls[l]]
  <2>1. CASE l = w_i + 1
    BY <2>1, <1>1, <1>2, <1>4
  <2>2. CASE l # w_i + 1
    BY <2>2, <1>2 DEF Draining
  <2> QED
    BY <2>1, <2>2
<1>6. Draining'
  BY <1>1, <1>4, <1>5 DEF Draining, AllBehind
<1> QED
  BY <1>1, <1>6 DEF ListsInv, AcceptsOnlyProper, RejectsOnlyImproper

\* Lists walked to their ends are proper.
LEMMA WalkedIsProper ==
    ASSUME ListsTypeOK, Draining, d_i = Len(depositColls), w_i = Len(withdrawColls)
    PROVE  Proper
<1>1. Increasing(depositColls) /\ Increasing(withdrawColls)
  BY DEF Draining, BothWalked, Walked, Increasing
<1> QED
  BY <1>1 DEF Draining, BothWalked, Walked, Proper

\* Every step of the walk keeps the invariant.
LEMMA ListsNext_Inv ==
    ASSUME ListsInv, [ListsNext]_listVars
    PROVE  ListsInv'
<1>1. CASE verdict' = "rejected" /\ verdict # "rejected"
  <2>1. Reject
    BY <1>1 DEF ListsNext, Merge, DrainStep, Drain, LookAtDeposit, LookAtWithdrawal, listVars
  <2>2. ListsNext
    BY <1>1 DEF listVars
  <2> QED
    BY <2>1, <2>2, <1>1, Rejected
<1>2. CASE UNCHANGED listVars
  BY <1>2 DEF ListsInv, ListsTypeOK, Merging, Draining, BothWalked, Walked, AtFirst,
              Behind, AllBehind, Apart, AcceptsOnlyProper, RejectsOnlyImproper, Proper,
              Increasing, listVars
<1>3. CASE Merge /\ verdict' # "rejected"
  <2>1. /\ ListsTypeOK /\ Merging /\ verdict = "merging"
        /\ d_i \in 0..Len(depositColls) /\ w_i \in 0..Len(withdrawColls)
        /\ dIndex \in Nat /\ wIndex \in Nat /\ dIndex # wIndex
    BY <1>3 DEF ListsInv, ListsTypeOK, Merge, Overlap, Reject
  <2>2. CASE dIndex < wIndex
    <3>1. \/ d_i = Len(depositColls) /\ Drain
          \/ d_i < Len(depositColls) /\ LookAtDeposit
      BY <1>3, <2>1, <2>2 DEF Merge, Overlap, ListsTypeOK
    <3> QED
      BY <3>1, <2>1, <2>2, <1>3, MergeEnds, MergeDeposit
  <2>3. CASE wIndex < dIndex
    <3>1. \/ w_i = Len(withdrawColls) /\ Drain
          \/ w_i < Len(withdrawColls) /\ LookAtWithdrawal
      BY <1>3, <2>1, <2>3 DEF Merge, Overlap, ListsTypeOK
    <3> QED
      BY <3>1, <2>1, <2>3, <1>3, MergeEnds, MergeWithdrawal
  <2> QED
    BY <2>1, <2>2, <2>3
<1>4. CASE DrainStep /\ verdict' # "rejected"
  <2>1. ListsTypeOK /\ Draining /\ verdict = "draining"
    BY <1>4 DEF ListsInv, DrainStep
  <2>2. CASE d_i < Len(depositColls) /\ LookAtDeposit
    BY <2>1, <2>2, <1>4, DrainDeposit
  <2>3. CASE d_i = Len(depositColls) /\ w_i < Len(withdrawColls) /\ LookAtWithdrawal
    BY <2>1, <2>3, <1>4, DrainWithdrawal
  <2>4. CASE /\ d_i = Len(depositColls) /\ w_i = Len(withdrawColls)
             /\ verdict' = "accepted"
             /\ UNCHANGED <<depositColls, withdrawColls, d_i, w_i, dIndex, wIndex>>
    <3>1. Proper
      BY <2>1, <2>4, WalkedIsProper
    <3>2. ListsTypeOK' /\ Proper'
      BY <3>1, <2>1, <2>4 DEF ListsTypeOK, Proper, Increasing
    <3> QED
      BY <3>2, <2>4 DEF ListsInv, AcceptsOnlyProper, RejectsOnlyImproper
  <2> QED
    BY <1>4, <2>2, <2>3, <2>4 DEF DrainStep
<1>5. verdict' = "rejected" /\ verdict = "rejected" => UNCHANGED listVars
  BY DEF ListsNext, Merge, DrainStep
<1> QED
  BY <1>1, <1>2, <1>3, <1>4, <1>5 DEF ListsNext

\* adjustTrove never sees a token twice, nor a deposit of a deprecated or
\* unknown token, however long the lists.
THEOREM AcceptedListsAreProper == ListsSpec => []AcceptsOnlyProper
<1>1. ListsInv => AcceptsOnlyProper
  BY DEF ListsInv
<1> QED
  BY <1>1, ListsInit_Inv, ListsNext_Inv, PTL DEF ListsSpec

\* And it refuses none that it could have taken.
THEOREM RejectedListsAreImproper == ListsSpec => []RejectsOnlyImproper
<1>1. ListsInv => RejectsOnlyImproper
  BY DEF ListsInv
<1> QED
  BY <1>1, ListsInit_Inv, ListsNext_Inv, PTL DEF ListsSpec

\* So that checkCollateralListDouble decides exactly what its loops are for.
THEOREM ListsDecided == ListsSpec => []VerdictIsRight
BY AcceptedListsAreProper, RejectedListsAreImproper, PTL DEF VerdictIsRight

=============================================================================
