------------------------------- MODULE FoldFacts -------------------------------
EXTENDS DataFacts

CONSTANT Op(_, _, _)

\* The function on subsets of positions that the fold is defined by.
FoldIter(p, base, seq, D, it) ==
    it = [s \in SUBSET D |->
            IF s = {} THEN base ELSE Op(p, it[s \ {Max(s)}], seq[Max(s)])]

\* The largest of a set of positions.
LEMMA MaxOf ==
    ASSUME NEW n \in Nat, NEW s, s \subseteq 1..n, s # {}
    PROVE  Max(s) \in s /\ \A y \in s : Max(s) >= y
<1>1. s \subseteq 0..n
  OBVIOUS
<1>2. PICK m \in s : \A y \in s : y <= m
  BY <1>1, LargestNumber
<1>3. \A y \in s : m >= y
  BY <1>1, <1>2
<1> QED
  BY <1>2, <1>3 DEF Max

\* There is such a function, for a fold over a sequence of any length.
LEMMA FoldIterExists ==
    ASSUME NEW p, NEW base, NEW seq, NEW n \in Nat
    PROVE  \E it : FoldIter(p, base, seq, 1..n, it)
<1> DEFINE S == 1..n
           T == {u \in SUBSET S : ~ \E g : FoldIter(p, base, seq, u, g)}
<1> SUFFICES ASSUME T # {} PROVE FALSE
  OBVIOUS
<1>1. PICK m \in T : \A t \in SUBSET m : t # m => t \notin T
  <2>1. IsFiniteSet(S)
    BY FS_Interval
  <2>2. T \subseteq SUBSET S
    OBVIOUS
  <2> HIDE DEF T, S
  <2> QED
    BY <2>1, <2>2, LeastOf
<1>2. m \subseteq 1..n /\ ~ \E g : FoldIter(p, base, seq, m, g)
  OBVIOUS
<1>3. ASSUME NEW u \in SUBSET m, u # {}
      PROVE  Max(u) \in u /\ \A y \in u : Max(u) >= y /\ y \in Int
  <2>1. u \subseteq 1..n
    BY <1>2
  <2>2. Max(u) \in u /\ \A y \in u : Max(u) >= y
    <3> HIDE DEF T, S
    <3> QED
      BY <1>3, <2>1, MaxOf
  <2> HIDE DEF T, S
  <2> QED
    BY <2>1, <2>2
<1>4. CASE m = {}
  <2>1. FoldIter(p, base, seq, {}, [s \in SUBSET {} |-> base])
    BY DEF FoldIter
  <2> QED
    BY <1>2, <1>4, <2>1
<1>5. CASE m # {}
  <2> DEFINE v == m \ {Max(m)}
  <2>1. Max(m) \in m /\ \A y \in m : Max(m) >= y /\ y \in Int
    BY <1>3, <1>5
  <2>2. v \in SUBSET m /\ v # m /\ v \in SUBSET S
    BY <2>1
  <2>3. PICK h : FoldIter(p, base, seq, v, h)
    BY <1>1, <2>2
  <2>4. \A s \in SUBSET v : h[s] = IF s = {} THEN base ELSE Op(p, h[s \ {Max(s)}], seq[Max(s)])
    BY <2>3 DEF FoldIter
  <2> DEFINE g == [s \in SUBSET m |->
                     IF s = {} THEN base ELSE Op(p, h[s \ {Max(s)}], seq[Max(s)])]
  <2>5. ASSUME NEW u \in SUBSET m, u # {}
        PROVE  g[u \ {Max(u)}] = h[u \ {Max(u)}]
    <3>1. u \ {Max(u)} \in SUBSET v
      <4>1. CASE Max(m) \in u
        <5>1. Max(u) = Max(m)
          <6>1. Max(u) \in u /\ Max(u) \in Int /\ Max(m) \in Int /\ Max(u) >= Max(m) /\ Max(m) >= Max(u)
            BY <1>3, <2>1, <2>5, <4>1
          <6> QED
            BY <6>1
        <5> QED
          BY <5>1
      <4>2. CASE Max(m) \notin u
        BY <4>2
      <4> QED
        BY <4>1, <4>2
    <3> QED
      BY <2>4, <3>1
  <2>6. g = [s \in SUBSET m |->
              IF s = {} THEN base ELSE Op(p, g[s \ {Max(s)}], seq[Max(s)])]
    BY <2>5
  <2>7. FoldIter(p, base, seq, m, g)
    BY <2>6 DEF FoldIter
  <2> QED
    BY <1>2, <2>7
<1> QED
  BY <1>4, <1>5

\* The same, as FoldLeft of the community modules writes it.
LEMMA FoldsExist ==
    \A p, base, seq, D : \A n \in Nat : D = 1..n => \E it : it = [s \in SUBSET D |->
            IF s = {} THEN base
            ELSE Op(p, it[s \ {CHOOSE x \in s : \A y \in s : x >= y}],
                       seq[CHOOSE x \in s : \A y \in s : x >= y])]
<1> SUFFICES ASSUME NEW p, NEW base, NEW seq, NEW D, NEW n \in Nat, D = 1..n
             PROVE  \E it : FoldIter(p, base, seq, D, it)
  BY DEF FoldIter, Max
<1> QED
  BY FoldIterExists

\* Its values on 1..0, 1..1, 1..2 and so on are the states of the loop.
LEMMA FoldSteps ==
    \A p, base, seq, it, D : \A n \in Nat :
      /\ D = 1..n
      /\ it = [s \in SUBSET D |->
            IF s = {} THEN base
            ELSE Op(p, it[s \ {CHOOSE x \in s : \A y \in s : x >= y}],
                       seq[CHOOSE x \in s : \A y \in s : x >= y])]
      => \E f : /\ f[0] = base
                /\ \A k \in 1..n : f[k] = Op(p, f[k - 1], seq[k])
                /\ f[n] = it[D]
<1> TAKE p, base, seq, it, D
<1> TAKE n \in Nat
<1> HAVE /\ D = 1..n
         /\ it = [s \in SUBSET D |->
            IF s = {} THEN base
            ELSE Op(p, it[s \ {CHOOSE x \in s : \A y \in s : x >= y}],
                       seq[CHOOSE x \in s : \A y \in s : x >= y])]
<1>0. FoldIter(p, base, seq, D, it)
  BY DEF FoldIter, Max
<1>4. \A s \in SUBSET (1..n) : it[s] = IF s = {} THEN base ELSE Op(p, it[s \ {Max(s)}], seq[Max(s)])
  BY <1>0 DEF FoldIter
<1> DEFINE f == [k \in 0..n |-> it[1..k]]
<1>5. f[0] = base
  <2>1. 1..0 = {} /\ 0 \in 0..n
    OBVIOUS
  <2> QED
    BY <1>4, <2>1
<1>6. ASSUME NEW k \in 1..n PROVE f[k] = Op(p, f[k - 1], seq[k])
  <2>1. k - 1 \in 0..n /\ k \in 0..n /\ 1..k \in SUBSET (1..n) /\ k \in 1..k
    OBVIOUS
  <2>2. Max(1..k) = k
    <3>1. Max(1..k) \in 1..k /\ \A y \in 1..k : Max(1..k) >= y
      BY <2>1, MaxOf
    <3> QED
      BY <2>1, <3>1
  <2>3. (1..k) \ {k} = 1..(k - 1)
    OBVIOUS
  <2> QED
    BY <1>4, <2>1, <2>2, <2>3
<1>7. f[n] = it[D]
  <2>1. n \in 0..n
    OBVIOUS
  <2>2. f[n] = it[1..n]
    BY <2>1
  <2> HIDE DEF f
  <2> QED
    BY <2>2
<1> QED
  <2> HIDE DEF f
  <2> QED
    BY <1>5, <1>6, <1>7
=============================================================================
