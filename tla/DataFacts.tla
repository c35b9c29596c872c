------------------------------ MODULE DataFacts ------------------------------
(***************************************************************************)
(* Facts about numbers, sums over finite sets, functions defined by        *)
(* recursion and sequences that the proofs of several components rest on.  *)
(*                                                                         *)
(* Sums, powers and walks along links are defined by recursive functions.  *)
(* What holds of all of them is shown without induction over the function: *)
(* if it failed somewhere, there would be a least argument at which it     *)
(* fails, and the argument before that one gives a contradiction.          *)
(***************************************************************************)
EXTENDS Integers, Functions, SequencesExt, FiniteSetTheorems, SequenceTheorems,
        WellFoundedInduction, TLAPS

(* Quotients. *)

\* A number is its quotient times the divisor, plus the remainder.
LEMMA DivMod ==
    ASSUME NEW a \in Nat, NEW n \in Nat \ {0}
    PROVE  /\ a \div n \in Nat
           /\ (a % n) \in Nat
           /\ (a \div n) * n + (a % n) = a
<1>1. a = n * (a \div n) + (a % n) /\ (a % n) \in 0..n-1
  OBVIOUS
<1>2. a \div n \in Nat
  OBVIOUS
<1> QED
  BY <1>1, <1>2

\* A product of natural numbers is one.
LEMMA NatProduct ==
    ASSUME NEW m \in Nat, NEW n \in Nat
    PROVE  m * n \in Nat
  OBVIOUS

\* A product grows with a factor.
LEMMA TimesMonotone ==
    ASSUME NEW a \in Int, NEW b \in Int, NEW k \in Nat, a <= b
    PROVE  k * a <= k * b /\ a * k <= b * k
<1>1. k * (b - a) \in Nat
  BY NatProduct
<1>2. k * (b - a) = k * b - k * a /\ a * k = k * a /\ b * k = k * b
  OBVIOUS
<1>3. k * a \in Int /\ k * b \in Int
  OBVIOUS
<1> QED
  BY <1>1, <1>2, <1>3

\* A product of positive numbers is positive.
LEMMA PositiveProduct ==
    ASSUME NEW m \in Nat \ {0}, NEW n \in Nat \ {0}
    PROVE  m * n \in Nat \ {0}
  OBVIOUS

\* A common factor can be taken away.
LEMMA FactorAtMost ==
    ASSUME NEW a \in Int, NEW b \in Int, NEW n \in Nat \ {0}, a * n <= b * n
    PROVE  a <= b
<1> SUFFICES ASSUME b + 1 <= a PROVE FALSE
  OBVIOUS
<1>1. (b + 1) * n <= a * n
  BY TimesMonotone
<1>2. (b + 1) * n = b * n + n /\ b * n \in Int /\ a * n \in Int
  OBVIOUS
<1> QED
  BY <1>1, <1>2

\* A quotient, rounded down, is the largest number that times the divisor
\* is at most the dividend.
LEMMA QuotientBounds ==
    ASSUME NEW a \in Int, NEW n \in Nat \ {0}
    PROVE  /\ a \div n \in Int
           /\ (a \div n) * n <= a
           /\ a < (a \div n + 1) * n
<1>1. a = n * (a \div n) + (a % n) /\ (a % n) \in 0..n-1
  OBVIOUS
<1>2. a \div n \in Int
  OBVIOUS
<1> QED
  BY <1>1, <1>2

\* A quotient of natural numbers is one.
LEMMA QuotientNat ==
    ASSUME NEW a \in Nat, NEW n \in Nat \ {0}
    PROVE  a \div n \in Nat
BY DivMod

\* A quotient is at most what times the divisor is at least the dividend.
LEMMA QuotientAtMost ==
    ASSUME NEW a \in Int, NEW n \in Nat \ {0}, NEW q \in Int, a <= q * n
    PROVE  a \div n <= q
<1> DEFINE k == a \div n
<1>1. k \in Int /\ k * n <= a
  BY QuotientBounds
<1> HIDE DEF k
<1>2. SUFFICES ASSUME q + 1 <= k PROVE FALSE
  BY <1>1 DEF k
<1>3. (q + 1) * n <= k * n
  BY <1>1, <1>2, TimesMonotone
<1>4. (q + 1) * n = q * n + n
  OBVIOUS
<1>5. q * n \in Int /\ k * n \in Int
  BY <1>1
<1> QED
  BY <1>1, <1>3, <1>4, <1>5

\* Quotients grow with the dividend.
LEMMA QuotientMonotone ==
    ASSUME NEW a \in Int, NEW b \in Int, a <= b, NEW n \in Nat \ {0}
    PROVE  a \div n <= b \div n
<1>1. /\ a \div n \in Int /\ b \div n \in Int
      /\ b < (b \div n + 1) * n /\ (a \div n) * n <= a
  BY QuotientBounds
<1> DEFINE j == a \div n
           k == b \div n
<1> SUFFICES ASSUME k + 1 <= j PROVE FALSE
  BY <1>1
<1> HIDE DEF j, k
<1>2. j \in Int /\ k \in Int /\ b < (k + 1) * n /\ j * n <= a
  BY <1>1 DEF j, k
<1>3. (k + 1) * n <= j * n
  BY <1>2, TimesMonotone
<1>4. (k + 1) * n \in Int /\ j * n \in Int
  BY <1>2
<1> QED
  BY <1>2, <1>3, <1>4

-----------------------------------------------------------------------------
(* Sums. *)

\* Of the subsets of a finite set that are in T there is one none of whose
\* proper subsets is.
LEMMA LeastOf ==
    ASSUME NEW S, IsFiniteSet(S), NEW T, T \subseteq SUBSET S, T # {}
    PROVE  \E m \in T : IsFiniteSet(m) /\ \A t \in SUBSET m : t # m => t \notin T
<1>1. \A x \in T : IsFiniteSet(x)
  BY FS_Subset
<1>2. T \subseteq FiniteSubsetsOf(S)
  BY <1>1 DEF FiniteSubsetsOf
<1> DEFINE R == StrictSubsetOrdering(S)
           F == FiniteSubsetsOf(S)
<1>3. IsWellFoundedOn(R, F)
  BY FS_StrictSubsetOrderingWellFounded
<1>4. PICK m \in T : \A y \in T : ~ (<<y, m>> \in R)
  <2> HIDE DEF R, F
  <2> QED
    BY <1>2, <1>3, WFMin DEF F
<1>5. \A t \in SUBSET m : t # m => t \notin T
  BY <1>4 DEF StrictSubsetOrdering
<1> QED
  BY <1>1, <1>5

\* The function on the subsets of S that the sum of f over S is defined by.
Iter(f, S, it) ==
    it = [s \in SUBSET S |->
            IF s = {} THEN 0
            ELSE f[CHOOSE x \in s : TRUE] + it[s \ {CHOOSE x \in s : TRUE}]]

\* The element a sum begins with.
Pick(s) == CHOOSE x \in s : TRUE

\* What such a function is at one subset.
LEMMA IterValue ==
    ASSUME NEW f, NEW S, NEW g, Iter(f, S, g)
    PROVE  \A s \in SUBSET S : g[s] = IF s = {} THEN 0 ELSE f[Pick(s)] + g[s \ {Pick(s)}]
BY DEF Iter, Pick

\* Pick picks an element of the set.
LEMMA PickIn == ASSUME NEW s, s # {} PROVE Pick(s) \in s
BY DEF Pick

\* The sum is the value of such a function, if there is one.
LEMMA SumIsIter ==
    ASSUME NEW f, NEW S, NEW it, Iter(f, S, it)
    PROVE  \E g : Iter(f, S, g) /\ SumFunctionOnSet(f, S) = g[S]
BY DEF SumFunctionOnSet, FoldFunctionOnSet, MapThenFoldSet, Iter

\* Two of them, for two sets, agree on what the sets have in common.
LEMMA IterAgree ==
    ASSUME NEW f, NEW S, NEW g, Iter(f, S, g), NEW R, NEW h, Iter(f, R, h),
           NEW s \in SUBSET (S \cap R), IsFiniteSet(s)
    PROVE  g[s] = h[s]
<1> DEFINE T == {u \in SUBSET s : g[u] # h[u]}
<1> SUFFICES ASSUME T # {} PROVE FALSE
  OBVIOUS
<1>1. PICK m \in T : \A t \in SUBSET m : t # m => t \notin T
  <2> HIDE DEF T
  <2>1. T \subseteq SUBSET s
    BY DEF T
  <2> QED
    BY <2>1, LeastOf
<1>2. m # {}
  BY IterValue
<1>3. Pick(m) \in m
  BY <1>2, PickIn
<1>4. m \ {Pick(m)} \notin T /\ m \ {Pick(m)} \in SUBSET s
  BY <1>1, <1>3
<1>5. g[m \ {Pick(m)}] = h[m \ {Pick(m)}]
  BY <1>4
<1>7. m \in SUBSET S /\ m \in SUBSET R
  OBVIOUS
<1>6. g[m] = f[Pick(m)] + g[m \ {Pick(m)}] /\ h[m] = f[Pick(m)] + h[m \ {Pick(m)}]
  <2> HIDE DEF T
  <2>1. g[m] = f[Pick(m)] + g[m \ {Pick(m)}]
    BY <1>2, <1>7, IterValue
  <2>2. h[m] = f[Pick(m)] + h[m \ {Pick(m)}]
    BY <1>2, <1>7, IterValue
  <2> QED
    BY <2>1, <2>2
<1> QED
  BY <1>5, <1>6

\* There is one, for a finite set.
LEMMA IterExists ==
    ASSUME NEW f, NEW S, IsFiniteSet(S)
    PROVE  \E g : Iter(f, S, g)
<1> DEFINE T == {u \in SUBSET S : ~ \E g : Iter(f, u, g)}
<1> SUFFICES ASSUME T # {} PROVE FALSE
  OBVIOUS
<1>1. PICK m \in T : IsFiniteSet(m) /\ \A t \in SUBSET m : t # m => t \notin T
  <2> HIDE DEF T
  <2>1. T \subseteq SUBSET S
    BY DEF T
  <2> QED
    BY <2>1, LeastOf
<1>2. \A t \in SUBSET m : t # m => \E h : Iter(f, t, h) /\ SumFunctionOnSet(f, t) = h[t]
  BY <1>1, SumIsIter
<1> DEFINE g == [u \in SUBSET m |->
                    IF u = {} THEN 0 ELSE f[Pick(u)] + SumFunctionOnSet(f, u \ {Pick(u)})]
<1>3. ASSUME NEW u \in SUBSET m, u # {}
      PROVE  g[u \ {Pick(u)}] = SumFunctionOnSet(f, u \ {Pick(u)})
  <2> DEFINE v == u \ {Pick(u)}
  <2>1. v \in SUBSET m /\ v # m
    BY <1>3, PickIn
  <2>2. PICK h : Iter(f, v, h) /\ SumFunctionOnSet(f, v) = h[v]
    BY <1>2, <2>1
  <2>3. CASE v = {}
    <3>1. h[v] = 0
      BY <2>2, <2>3, IterValue
    <3> QED
      BY <3>1, <2>1, <2>2, <2>3
  <2>4. CASE v # {}
    <3> DEFINE w == v \ {Pick(v)}
    <3>1. w \in SUBSET v /\ w \in SUBSET m /\ w # m
      BY <2>1, <2>4, PickIn
    <3>2. PICK k : Iter(f, w, k) /\ SumFunctionOnSet(f, w) = k[w]
      BY <1>2, <3>1
    <3>3. IsFiniteSet(w)
      BY <1>1, <3>1, FS_Subset
    <3>4. k[w] = h[w]
      <4> HIDE DEF w, v
      <4> QED
        BY <2>2, <3>1, <3>2, <3>3, IterAgree
    <3>5. h[v] = f[Pick(v)] + h[w]
      <4>1. v \in SUBSET v
        OBVIOUS
      <4> HIDE DEF v
      <4> QED
        BY <4>1, <2>2, <2>4, IterValue
    <3>6. g[v] = f[Pick(v)] + SumFunctionOnSet(f, w)
      BY <2>1, <2>4
    <3> QED
      BY <3>2, <3>4, <3>5, <3>6, <2>2
  <2> QED
    BY <2>3, <2>4
<1>4. g = [u \in SUBSET m |->
              IF u = {} THEN 0 ELSE f[Pick(u)] + g[u \ {Pick(u)}]]
  <2> DEFINE G == [u \in SUBSET m |->
                      IF u = {} THEN 0 ELSE f[Pick(u)] + g[u \ {Pick(u)}]]
  <2>1. \A u \in SUBSET m : g[u] = G[u]
    BY <1>3
  <2> QED
    BY <2>1
<1>5. Iter(f, m, g)
  BY <1>4 DEF Iter, Pick
<1> QED
  BY <1>1, <1>5

\* The sum over a finite set, one element taken out.
LEMMA SumUnfold ==
    ASSUME NEW f, NEW S, IsFiniteSet(S)
    PROVE  SumFunctionOnSet(f, S) =
             IF S = {} THEN 0 ELSE f[Pick(S)] + SumFunctionOnSet(f, S \ {Pick(S)})
<1>1. PICK g : Iter(f, S, g) /\ SumFunctionOnSet(f, S) = g[S]
  BY IterExists, SumIsIter
<1> DEFINE R == S \ {Pick(S)}
<1>2. IsFiniteSet(R) /\ R \in SUBSET S
  BY FS_Subset
<1>3. PICK h : Iter(f, R, h) /\ SumFunctionOnSet(f, R) = h[R]
  BY <1>2, IterExists, SumIsIter
<1>4. g[R] = h[R]
  <2> HIDE DEF R
  <2> QED
    BY <1>1, <1>2, <1>3, IterAgree
<1>5. g[S] = IF S = {} THEN 0 ELSE f[Pick(S)] + g[R]
  <2>1. S \in SUBSET S
    OBVIOUS
  <2> QED
    BY <2>1, <1>1, IterValue
<1> QED
  BY <1>1, <1>3, <1>4, <1>5

\* A sum of integers is one.
LEMMA SumInt ==
    ASSUME NEW f, NEW S, IsFiniteSet(S), \A x \in S : f[x] \in Int
    PROVE  \A u \in SUBSET S : SumFunctionOnSet(f, u) \in Int
<1> DEFINE T == {u \in SUBSET S : SumFunctionOnSet(f, u) \notin Int}
<1> SUFFICES ASSUME T # {} PROVE FALSE
  OBVIOUS
<1>1. PICK m \in T : IsFiniteSet(m) /\ \A t \in SUBSET m : t # m => t \notin T
  <2> HIDE DEF T
  <2>1. T \subseteq SUBSET S
    BY DEF T
  <2> QED
    BY <2>1, LeastOf
<1>2. SumFunctionOnSet(f, m) =
        IF m = {} THEN 0 ELSE f[Pick(m)] + SumFunctionOnSet(f, m \ {Pick(m)})
  BY <1>1, SumUnfold
<1>3. m # {} /\ Pick(m) \in m
  BY <1>2, PickIn
<1>4. SumFunctionOnSet(f, m \ {Pick(m)}) \in Int
  BY <1>1, <1>3
<1> QED
  BY <1>2, <1>3, <1>4

\* Whichever element is taken out, the sum is the same.
LEMMA SumTake ==
    ASSUME NEW f, NEW S, IsFiniteSet(S), \A x \in S : f[x] \in Int
    PROVE  \A u \in SUBSET S : \A x \in u :
             SumFunctionOnSet(f, u) = f[x] + SumFunctionOnSet(f, u \ {x})
<1> DEFINE T == {u \in SUBSET S : \E x \in u :
                    SumFunctionOnSet(f, u) # f[x] + SumFunctionOnSet(f, u \ {x})}
<1> SUFFICES ASSUME T # {} PROVE FALSE
  OBVIOUS
<1>1. PICK m \in T : IsFiniteSet(m) /\ \A t \in SUBSET m : t # m => t \notin T
  <2> HIDE DEF T
  <2>1. T \subseteq SUBSET S
    BY DEF T
  <2> QED
    BY <2>1, LeastOf
<1>2. PICK x \in m : SumFunctionOnSet(f, m) # f[x] + SumFunctionOnSet(f, m \ {x})
  OBVIOUS
<1> DEFINE c == Pick(m)
<1>3. c \in m
  BY <1>2, PickIn
<1>4. SumFunctionOnSet(f, m) = f[c] + SumFunctionOnSet(f, m \ {c})
  BY <1>1, <1>3, SumUnfold
<1>5. x # c
  BY <1>2, <1>4
<1> HIDE DEF c
<1>6. m \ {c} \notin T /\ m \ {x} \notin T
  BY <1>1, <1>2, <1>3
<1>7. SumFunctionOnSet(f, m \ {c}) = f[x] + SumFunctionOnSet(f, (m \ {c}) \ {x})
  BY <1>5, <1>6
<1>8. SumFunctionOnSet(f, m \ {x}) = f[c] + SumFunctionOnSet(f, (m \ {x}) \ {c})
  BY <1>3, <1>5, <1>6
<1>9. (m \ {x}) \ {c} = (m \ {c}) \ {x}
  OBVIOUS
<1>10. SumFunctionOnSet(f, (m \ {c}) \ {x}) \in Int
  <2>1. (m \ {c}) \ {x} \in SUBSET S
    OBVIOUS
  <2> QED
    BY <2>1, SumInt
<1>11. f[x] \in Int /\ f[c] \in Int
  BY <1>3
<1>12. SumFunctionOnSet(f, m \ {x}) = f[c] + SumFunctionOnSet(f, (m \ {c}) \ {x})
  BY <1>8, <1>9
<1> DEFINE rest == SumFunctionOnSet(f, (m \ {c}) \ {x})
           withoutc == SumFunctionOnSet(f, m \ {c})
           withoutx == SumFunctionOnSet(f, m \ {x})
           fx == f[x]
           fc == f[c]
<1> HIDE DEF T, rest, withoutc, withoutx, fx, fc
<1>13. withoutc = fx + rest /\ withoutx = fc + rest /\ rest \in Int /\ fx \in Int /\ fc \in Int
  BY <1>7, <1>10, <1>11, <1>12 DEF rest, withoutc, withoutx, fx, fc
<1>14. fc + withoutc = fx + withoutx
  BY <1>13
<1> QED
  BY <1>2, <1>4, <1>14 DEF withoutc, withoutx, fx, fc

\* Sums of a function that is at most another one.
LEMMA SumAtMost ==
    ASSUME NEW f, NEW g, NEW S, IsFiniteSet(S),
           \A x \in S : f[x] \in Int /\ g[x] \in Int /\ f[x] <= g[x]
    PROVE  SumFunctionOnSet(f, S) <= SumFunctionOnSet(g, S)
<1> DEFINE T == {u \in SUBSET S : ~ (SumFunctionOnSet(f, u) <= SumFunctionOnSet(g, u))}
<1>0. \A u \in SUBSET S : SumFunctionOnSet(f, u) \in Int /\ SumFunctionOnSet(g, u) \in Int
  BY SumInt
<1> SUFFICES ASSUME T # {} PROVE FALSE
  OBVIOUS
<1>1. PICK m \in T : IsFiniteSet(m) /\ \A t \in SUBSET m : t # m => t \notin T
  <2> HIDE DEF T
  <2>1. T \subseteq SUBSET S
    BY DEF T
  <2> QED
    BY <2>1, LeastOf
<1> DEFINE c == Pick(m)
<1>2. /\ SumFunctionOnSet(f, m) = IF m = {} THEN 0 ELSE f[c] + SumFunctionOnSet(f, m \ {c})
      /\ SumFunctionOnSet(g, m) = IF m = {} THEN 0 ELSE g[c] + SumFunctionOnSet(g, m \ {c})
  BY <1>1, SumUnfold
<1>3. m # {} /\ c \in m
  BY <1>2, PickIn
<1> HIDE DEF c
<1>4. SumFunctionOnSet(f, m \ {c}) <= SumFunctionOnSet(g, m \ {c})
  BY <1>1, <1>3
<1>5. m \in SUBSET S /\ m \ {c} \in SUBSET S /\ c \in S
  BY <1>3
<1>6. ~ (SumFunctionOnSet(f, m) <= SumFunctionOnSet(g, m))
  OBVIOUS
<1> HIDE DEF T
<1> QED
  BY <1>0, <1>2, <1>3, <1>4, <1>5, <1>6

\* The sum of a sum of two functions.
LEMMA SumPlus ==
    ASSUME NEW f, NEW g, NEW h, NEW S, IsFiniteSet(S),
           \A x \in S : f[x] \in Int /\ g[x] \in Int /\ h[x] = f[x] + g[x]
    PROVE  SumFunctionOnSet(h, S) = SumFunctionOnSet(f, S) + SumFunctionOnSet(g, S)
<1> DEFINE T == {u \in SUBSET S :
                    SumFunctionOnSet(h, u) # SumFunctionOnSet(f, u) + SumFunctionOnSet(g, u)}
<1>0. \A u \in SUBSET S : SumFunctionOnSet(f, u) \in Int /\ SumFunctionOnSet(g, u) \in Int
  BY SumInt
<1> SUFFICES ASSUME T # {} PROVE FALSE
  OBVIOUS
<1>1. PICK m \in T : IsFiniteSet(m) /\ \A t \in SUBSET m : t # m => t \notin T
  <2> HIDE DEF T
  <2>1. T \subseteq SUBSET S
    BY DEF T
  <2> QED
    BY <2>1, LeastOf
<1> DEFINE c == Pick(m)
<1>2. /\ SumFunctionOnSet(f, m) = IF m = {} THEN 0 ELSE f[c] + SumFunctionOnSet(f, m \ {c})
      /\ SumFunctionOnSet(g, m) = IF m = {} THEN 0 ELSE g[c] + SumFunctionOnSet(g, m \ {c})
      /\ SumFunctionOnSet(h, m) = IF m = {} THEN 0 ELSE h[c] + SumFunctionOnSet(h, m \ {c})
  BY <1>1, SumUnfold
<1>3. m # {} /\ c \in m
  BY <1>2, PickIn
<1> HIDE DEF c
<1>4. SumFunctionOnSet(h, m \ {c})
        = SumFunctionOnSet(f, m \ {c}) + SumFunctionOnSet(g, m \ {c})
  BY <1>1, <1>3
<1>5. m \ {c} \in SUBSET S /\ c \in S
  BY <1>3
<1>6. SumFunctionOnSet(h, m) # SumFunctionOnSet(f, m) + SumFunctionOnSet(g, m)
  OBVIOUS
<1> HIDE DEF T
<1> QED
  BY <1>0, <1>2, <1>3, <1>4, <1>5, <1>6

\* A common factor.
LEMMA SumTimes ==
    ASSUME NEW f, NEW h, NEW k \in Int, NEW S, IsFiniteSet(S),
           \A x \in S : f[x] \in Int /\ h[x] = k * f[x]
    PROVE  SumFunctionOnSet(h, S) = k * SumFunctionOnSet(f, S)
<1> DEFINE T == {u \in SUBSET S : SumFunctionOnSet(h, u) # k * SumFunctionOnSet(f, u)}
<1>0. \A u \in SUBSET S : SumFunctionOnSet(f, u) \in Int
  BY SumInt
<1> SUFFICES ASSUME T # {} PROVE FALSE
  OBVIOUS
<1>1. PICK m \in T : IsFiniteSet(m) /\ \A t \in SUBSET m : t # m => t \notin T
  <2> HIDE DEF T
  <2>1. T \subseteq SUBSET S
    BY DEF T
  <2> QED
    BY <2>1, LeastOf
<1> DEFINE c == Pick(m)
<1>2. /\ SumFunctionOnSet(f, m) = IF m = {} THEN 0 ELSE f[c] + SumFunctionOnSet(f, m \ {c})
      /\ SumFunctionOnSet(h, m) = IF m = {} THEN 0 ELSE h[c] + SumFunctionOnSet(h, m \ {c})
  BY <1>1, SumUnfold
<1>3. m # {} /\ c \in m
  BY <1>2, PickIn
<1> HIDE DEF c
<1>4. SumFunctionOnSet(h, m \ {c}) = k * SumFunctionOnSet(f, m \ {c})
  BY <1>1, <1>3
<1>5. SumFunctionOnSet(f, m \ {c}) \in Int /\ f[c] \in Int /\ h[c] = k * f[c]
  BY <1>0, <1>3
<1>6. SumFunctionOnSet(h, m) # k * SumFunctionOnSet(f, m)
  OBVIOUS
<1> HIDE DEF T
<1>7. \A a, b \in Int : k * (a + b) = k * a + k * b
  OBVIOUS
<1> QED
  BY <1>2, <1>3, <1>4, <1>5, <1>6, <1>7

\* A sum of natural numbers is one, and no element exceeds it.
LEMMA SumNat ==
    ASSUME NEW f, NEW S, IsFiniteSet(S), \A x \in S : f[x] \in Nat
    PROVE  /\ SumFunctionOnSet(f, S) \in Nat
           /\ \A x \in S : f[x] <= SumFunctionOnSet(f, S)
<1> DEFINE zero == [x \in S |-> 0]
<1>1. \A u \in SUBSET S : SumFunctionOnSet(f, u) \in Nat
  <2> TAKE u \in SUBSET S
  <2>1. IsFiniteSet(u)
    BY FS_Subset
  <2>2. SumFunctionOnSet(zero, u) = 0 * SumFunctionOnSet(f, u)
    <3>1. \A x \in u : f[x] \in Int /\ zero[x] = 0 * f[x]
      OBVIOUS
    <3> HIDE DEF zero
    <3> QED
      BY <2>1, <3>1, SumTimes
  <2>3. SumFunctionOnSet(f, u) \in Int
    <3>1. \A x \in S : f[x] \in Int
      OBVIOUS
    <3> QED
      BY <3>1, SumInt
  <2>4. SumFunctionOnSet(zero, u) <= SumFunctionOnSet(f, u)
    <3>1. \A x \in u : zero[x] \in Int /\ f[x] \in Int /\ zero[x] <= f[x]
      OBVIOUS
    <3> HIDE DEF zero
    <3> QED
      BY <2>1, <3>1, SumAtMost
  <2> QED
    BY <2>2, <2>3, <2>4
<1>2. ASSUME NEW x \in S
      PROVE  f[x] <= SumFunctionOnSet(f, S)
  <2>1. SumFunctionOnSet(f, S) = f[x] + SumFunctionOnSet(f, S \ {x})
    BY SumTake
  <2>2. SumFunctionOnSet(f, S \ {x}) \in Nat /\ f[x] \in Nat
    BY <1>1
  <2> QED
    BY <2>1, <2>2
<1> QED
  BY <1>1, <1>2

\* Functions that agree have the same sum.
LEMMA SumSame ==
    ASSUME NEW f, NEW g, NEW S, IsFiniteSet(S), \A x \in S : f[x] \in Int /\ f[x] = g[x]
    PROVE  SumFunctionOnSet(f, S) = SumFunctionOnSet(g, S)
<1>1. SumFunctionOnSet(f, S) <= SumFunctionOnSet(g, S)
  BY SumAtMost
<1>2. SumFunctionOnSet(g, S) <= SumFunctionOnSet(f, S)
  BY SumAtMost
<1>3. SumFunctionOnSet(f, S) \in Int /\ SumFunctionOnSet(g, S) \in Int
  BY SumInt
<1> QED
  BY <1>1, <1>2, <1>3

\* A change of one value changes the sum by as much.
LEMMA SumChange ==
    ASSUME NEW f, NEW g, NEW S, IsFiniteSet(S), NEW c \in S,
           \A x \in S : f[x] \in Int /\ g[x] \in Int,
           \A x \in S : x # c => g[x] = f[x]
    PROVE  SumFunctionOnSet(g, S) = SumFunctionOnSet(f, S) - f[c] + g[c]
<1> DEFINE R == S \ {c}
<1>1. /\ SumFunctionOnSet(f, S) = f[c] + SumFunctionOnSet(f, R)
      /\ SumFunctionOnSet(g, S) = g[c] + SumFunctionOnSet(g, R)
  BY SumTake
<1>2. IsFiniteSet(R) /\ \A x \in R : f[x] \in Int /\ f[x] = g[x]
  BY FS_Subset
<1>3. SumFunctionOnSet(f, R) = SumFunctionOnSet(g, R)
  <2> HIDE DEF R
  <2> QED
    BY <1>2, SumSame
<1>4. SumFunctionOnSet(f, R) \in Int /\ f[c] \in Int /\ g[c] \in Int
  BY SumInt
<1> QED
  BY <1>1, <1>3, <1>4

-----------------------------------------------------------------------------
(* Least and largest numbers, and functions that follow links. *)

\* A set of natural numbers has a least one.
LEMMA LeastNumber ==
    ASSUME NEW T, T \subseteq Nat, T # {}
    PROVE  \E m \in T : \A x \in T : m <= x
<1> DEFINE R == OpToRel(<, Nat)
<1>1. IsWellFoundedOn(R, Nat)
  BY NatLessThanWellFounded
<1>2. PICK m \in T : \A y \in T : ~ (<<y, m>> \in R)
  <2> HIDE DEF R
  <2> QED
    BY <1>1, WFMin
<1>3. \A y \in T : ~ (y < m)
  <2> TAKE y \in T
  <2>1. y \in Nat /\ m \in Nat
    OBVIOUS
  <2>2. ASSUME y < m PROVE <<y, m>> \in R
    BY <2>1, <2>2 DEF OpToRel
  <2> QED
    BY <1>2, <2>2
<1> QED
  BY <1>3

\* A set of numbers up to n has a largest one.
LEMMA LargestNumber ==
    ASSUME NEW n \in Nat, NEW T, T \subseteq 0..n, T # {}
    PROVE  \E m \in T : \A x \in T : x <= m
<1> DEFINE U == {n - x : x \in T}
<1>0. \A x \in T : x \in Nat /\ n - x \in Nat
  OBVIOUS
<1>1. U \subseteq Nat /\ U # {}
  BY <1>0
<1>2. PICK u \in U : \A x \in U : u <= x
  <2> HIDE DEF U
  <2> QED
    BY <1>1, LeastNumber
<1>3. PICK m \in T : u = n - m
  OBVIOUS
<1>4. \A x \in T : x <= m
  <2> TAKE x \in T
  <2>2. n - x \in U
    OBVIOUS
  <2>1. n - m <= n - x /\ x \in Nat /\ m \in Nat
    BY <1>0, <1>2, <1>3, <2>2
  <2> QED
    BY <2>1
<1> QED
  BY <1>4

-----------------------------------------------------------------------------
(* Recursive functions. *)

\* The function that follows g until it is in Stop.
Follows(D, Stop, g, f) == f = [p \in D |-> IF p \in Stop THEN p ELSE f[g[p]]]

\* The members of Stop that every set closed under g outside Stop has, if it
\* has p.
Ends(D, Stop, g, p) ==
    {r \in Stop : \A T \in SUBSET D :
                     p \in T /\ (\A x \in T \ Stop : g[x] \in T) => r \in T}

\* There is one, whatever g is.
LEMMA FollowsExists ==
    ASSUME NEW D, NEW Stop, Stop \subseteq D, NEW g, \A p \in D \ Stop : g[p] \in D
    PROVE  \E f : Follows(D, Stop, g, f)
<1>1. ASSUME NEW p \in Stop PROVE Ends(D, Stop, g, p) = {p}
  <2>1. {p} \in SUBSET D /\ p \in {p} /\ \A x \in {p} \ Stop : g[x] \in {p}
    BY <1>1
  <2>2. \A r \in Ends(D, Stop, g, p) : r \in {p}
    BY <2>1 DEF Ends
  <2>3. p \in Ends(D, Stop, g, p)
    BY <1>1 DEF Ends
  <2> QED
    BY <2>2, <2>3
<1>2. ASSUME NEW p \in D \ Stop PROVE Ends(D, Stop, g, p) = Ends(D, Stop, g, g[p])
  <2>1. ASSUME NEW r \in Ends(D, Stop, g, p), NEW T \in SUBSET D, g[p] \in T,
               \A x \in T \ Stop : g[x] \in T
        PROVE  r \in T
    <3>1. T \cup {p} \in SUBSET D /\ p \in T \cup {p} /\ \A x \in (T \cup {p}) \ Stop : g[x] \in T \cup {p}
      BY <1>2, <2>1
    <3>2. r \in T \cup {p} /\ r \in Stop
      BY <2>1, <3>1 DEF Ends
    <3> QED
      BY <1>2, <3>2
  <2>2. ASSUME NEW r \in Ends(D, Stop, g, g[p]), NEW T \in SUBSET D, p \in T,
               \A x \in T \ Stop : g[x] \in T
        PROVE  r \in T
    <3>1. g[p] \in T
      BY <1>2, <2>2
    <3> QED
      BY <2>2, <3>1 DEF Ends
  <2>3. \A r \in Ends(D, Stop, g, p) : r \in Ends(D, Stop, g, g[p])
    BY <2>1 DEF Ends
  <2>4. \A r \in Ends(D, Stop, g, g[p]) : r \in Ends(D, Stop, g, p)
    BY <2>2 DEF Ends
  <2> QED
    BY <2>3, <2>4
<1> DEFINE e(p) == CHOOSE r : r \in Ends(D, Stop, g, p)
           f == [p \in D |-> e(p)]
           h == [p \in D |-> IF p \in Stop THEN p ELSE f[g[p]]]
<1>3. ASSUME NEW p \in D PROVE f[p] = h[p]
  <2>1. CASE p \in Stop
    <3>1. Ends(D, Stop, g, p) = {p}
      BY <1>1, <2>1
    <3>2. e(p) = p
      BY <3>1
    <3> QED
      BY <2>1, <3>2
  <2>2. CASE p \notin Stop
    <3>1. Ends(D, Stop, g, p) = Ends(D, Stop, g, g[p])
      BY <1>2, <2>2
    <3>2. e(p) = e(g[p])
      BY <3>1
    <3>3. g[p] \in D
      BY <2>2
    <3> HIDE DEF e
    <3>4. h[p] = f[g[p]] /\ f[p] = e(p) /\ f[g[p]] = e(g[p])
      BY <2>2, <3>3
    <3> QED
      BY <3>2, <3>4
  <2> QED
    BY <2>1, <2>2
<1>4. f = h
  BY <1>3
<1>5. Follows(D, Stop, g, f)
  BY <1>4 DEF Follows
<1> QED
  BY <1>5

\* Where every step outside Stop goes down in rank and stays in T, it ends in
\* a member of T and Stop.
LEMMA FollowsEnds ==
    ASSUME NEW D, NEW Stop, NEW g, NEW f, Follows(D, Stop, g, f),
           NEW T, T \subseteq D, NEW rank,
           \A p \in T : rank[p] \in Nat,
           \A p \in T \ Stop : g[p] \in T /\ rank[g[p]] < rank[p],
           NEW q \in T
    PROVE  f[q] \in T \cap Stop
<1> DEFINE B == {p \in T : f[p] \notin T \cap Stop}
           R == {rank[p] : p \in B}
<1> SUFFICES ASSUME B # {} PROVE FALSE
  OBVIOUS
<1>1. R \subseteq Nat /\ R # {}
  OBVIOUS
<1>2. PICK m \in R : \A x \in R : m <= x
  <2> HIDE DEF R
  <2> QED
    BY <1>1, LeastNumber
<1>3. PICK p \in B : m = rank[p]
  OBVIOUS
<1>4. f[p] = IF p \in Stop THEN p ELSE f[g[p]]
  BY DEF Follows
<1>5. p \notin Stop
  BY <1>4
<1>6. g[p] \in T /\ rank[g[p]] < rank[p] /\ rank[p] \in Nat /\ rank[g[p]] \in Nat
  BY <1>5
<1>7. g[p] \in B
  BY <1>4, <1>5, <1>6
<1>8. rank[g[p]] \in R
  BY <1>7
<1>9. m <= rank[g[p]]
  BY <1>2, <1>8
<1> QED
  BY <1>3, <1>6, <1>9

\* A function defined by its first value and a step, through the set of the
\* pairs that every closed set of pairs has.
Pairs(b) ==
    {z \in Nat \X Nat :
        \A T \in SUBSET (Nat \X Nat) :
            <<0, 1>> \in T /\ (\A y \in T : <<y[1] + 1, b * y[2]>> \in T) => z \in T}

\* p holds the powers of b.
Powers(b, p) == p = [n \in Nat |-> IF n = 0 THEN 1 ELSE b * p[n - 1]]

\* The powers of a positive number exist.
LEMMA PowersExist ==
    ASSUME NEW b \in Nat \ {0}
    PROVE  \E p : Powers(b, p)
<1> DEFINE P == Pairs(b)
<1>1. P \in SUBSET (Nat \X Nat)
  BY DEF Pairs
<1>2. <<0, 1>> \in P
  BY DEF Pairs
<1>3. ASSUME NEW z \in P PROVE <<z[1] + 1, b * z[2]>> \in P
  <2>1. z \in Nat \X Nat
    BY DEF Pairs
  <2>2. z[1] + 1 \in Nat /\ b * z[2] \in Nat
    BY <2>1, NatProduct
  <2>3. <<z[1] + 1, b * z[2]>> \in Nat \X Nat
    BY <2>2
  <2> QED
    BY <1>3, <2>3 DEF Pairs
<1>4. ASSUME NEW T \in SUBSET (Nat \X Nat), <<0, 1>> \in T,
             \A y \in T : <<y[1] + 1, b * y[2]>> \in T
      PROVE  P \subseteq T
  BY <1>4 DEF Pairs
\* each number has a partner, and only one
<1>5. ASSUME NEW w \in P, w[1] = 0 PROVE w[2] = 1
  <2> SUFFICES ASSUME w[2] # 1 PROVE FALSE
    OBVIOUS
  <2> DEFINE T == P \ {w}
  <2>1. <<0, 1>> \in T
    BY <1>2
  <2>2. ASSUME NEW y \in T PROVE <<y[1] + 1, b * y[2]>> \in T
    <3>1. y \in Nat \X Nat
      BY <1>1
    <3>2. y[1] + 1 # 0
      BY <3>1
    <3>3. <<y[1] + 1, b * y[2]>> # w
      BY <1>5, <3>2
    <3> QED
      BY <1>3, <3>3
  <2>3. w \in T
    <3>1. T \in SUBSET (Nat \X Nat)
      BY <1>1
    <3> HIDE DEF T
    <3> QED
      BY <1>4, <2>1, <2>2, <3>1
  <2> QED
    BY <2>3
<1>6. ASSUME NEW w \in P, NEW v \in P, w[1] = v[1] + 1,
             \A u \in P : u[1] = v[1] => u[2] = v[2]
      PROVE  w[2] = b * v[2]
  <2> SUFFICES ASSUME w[2] # b * v[2] PROVE FALSE
    OBVIOUS
  <2> DEFINE T == P \ {w}
  <2>0. w \in Nat \X Nat /\ v \in Nat \X Nat
    BY <1>1
  <2>1. <<0, 1>> \in T
    <3>1. w[1] # 0
      BY <1>6, <2>0
    <3> QED
      BY <1>2, <3>1
  <2>2. ASSUME NEW y \in T PROVE <<y[1] + 1, b * y[2]>> \in T
    <3>1. y \in Nat \X Nat
      BY <1>1
    <3>2. CASE y[1] = v[1]
      <4>1. y[2] = v[2]
        BY <1>6, <3>2
      <4>2. <<y[1] + 1, b * y[2]>> # w
        BY <4>1
      <4> QED
        BY <1>3, <4>2
    <3>3. CASE y[1] # v[1]
      <4>1. y[1] + 1 # w[1]
        BY <1>6, <2>0, <3>1, <3>3
      <4>2. <<y[1] + 1, b * y[2]>> # w
        BY <4>1
      <4> QED
        BY <1>3, <4>2
    <3> QED
      BY <3>2, <3>3
  <2>3. w \in T
    <3>1. T \in SUBSET (Nat \X Nat)
      BY <1>1
    <3> HIDE DEF T
    <3> QED
      BY <1>4, <2>1, <2>2, <3>1
  <2> QED
    BY <2>3
<1> HIDE DEF P
<1> DEFINE One(n) == \E z \in P : z[1] = n /\ \A u \in P : u[1] = n => u[2] = z[2]
           B == {n \in Nat : ~ One(n)}
<1>7. One(0)
  <2>1. \A u \in P : u[1] = 0 => u[2] = 1
    BY <1>5
  <2> WITNESS <<0, 1>> \in P
  <2> QED
    BY <2>1
<1>8. ASSUME NEW n \in Nat, One(n) PROVE One(n + 1)
  <2>1. PICK z \in P : z[1] = n /\ \A u \in P : u[1] = n => u[2] = z[2]
    BY <1>8
  <2>2. <<n + 1, b * z[2]>> \in P
    BY <1>3, <2>1
  <2>3. \A u \in P : u[1] = n + 1 => u[2] = b * z[2]
    BY <1>6, <2>1
  <2> WITNESS <<n + 1, b * z[2]>> \in P
  <2> QED
    BY <2>3
<1>9. \A n \in Nat : One(n)
  <2> SUFFICES ASSUME B # {} PROVE FALSE
    OBVIOUS
  <2>1. B \subseteq Nat
    OBVIOUS
  <2>2. PICK m \in B : \A x \in B : m <= x
    <3> HIDE DEF B
    <3> QED
      BY <2>1, LeastNumber
  <2>3. m \in Nat /\ ~ One(m)
    OBVIOUS
  <2> HIDE DEF One
  <2>4. m # 0
    BY <1>7, <2>3
  <2>5. m - 1 \in Nat /\ m - 1 \notin B
    BY <2>2, <2>3, <2>4
  <2>6. One(m - 1)
    BY <2>5
  <2>7. One(m - 1 + 1) /\ m - 1 + 1 = m
    BY <1>8, <2>3, <2>5, <2>6
  <2> QED
    BY <2>3, <2>7
<1> DEFINE v(n) == CHOOSE k : <<n, k>> \in P
           p == [n \in Nat |-> v(n)]
           q == [n \in Nat |-> IF n = 0 THEN 1 ELSE b * p[n - 1]]
<1>10. ASSUME NEW n \in Nat PROVE <<n, v(n)>> \in P /\ \A k : <<n, k>> \in P => k = v(n)
  <2>1. PICK z \in P : z[1] = n /\ \A u \in P : u[1] = n => u[2] = z[2]
    BY <1>9
  <2>2. z = <<n, z[2]>>
    BY <1>1, <2>1
  <2>3. <<n, v(n)>> \in P
    BY <2>1, <2>2
  <2>4. \A k : <<n, k>> \in P => k = z[2]
    BY <2>1
  <2> QED
    BY <2>3, <2>4
<1> HIDE DEF v
<1>11. ASSUME NEW n \in Nat PROVE p[n] = q[n]
  <2>1. CASE n = 0
    BY <1>2, <1>10, <2>1
  <2>2. CASE n # 0
    <3>1. n - 1 \in Nat /\ n - 1 + 1 = n
      BY <2>2
    <3>2. <<n - 1, v(n - 1)>> \in P
      BY <1>10, <3>1
    <3>3. <<n, b * v(n - 1)>> \in P
      BY <1>3, <3>1, <3>2
    <3>4. b * v(n - 1) = v(n)
      BY <1>10, <3>3
    <3> QED
      BY <2>2, <3>1, <3>4
  <2> QED
    BY <2>1, <2>2
<1>12. p = q
  BY <1>11
<1>13. Powers(b, p)
  BY <1>12 DEF Powers
<1> QED
  BY <1>13

-----------------------------------------------------------------------------
(* Sequences. *)

\* What the first i elements of a sequence are.
LEMMA PrefixProperties ==
    ASSUME NEW S, NEW s \in Seq(S), NEW i \in 0..Len(s)
    PROVE  /\ SubSeq(s, 1, i) \in Seq(S)
           /\ Len(SubSeq(s, 1, i)) = i
           /\ \A j \in 1..i : SubSeq(s, 1, i)[j] = s[j]
<1>1. Len(s) \in Nat /\ \A j \in 1..i : s[j] \in S
    BY LenProperties, ElementOfSeq
<1>2. 1 \in Int /\ i \in Int
    BY <1>1
<1>3. /\ SubSeq(s, 1, i) \in Seq(S)
      /\ Len(SubSeq(s, 1, i)) = IF 1 <= i THEN i - 1 + 1 ELSE 0
      /\ \A j \in 1..(i - 1 + 1) : SubSeq(s, 1, i)[j] = s[1 + j - 1]
    BY <1>1, <1>2, SubSeqProperties
<1>4. i - 1 + 1 = i /\ \A j \in 1..i : 1 + j - 1 = j
    BY <1>1
<1>5. QED
    BY <1>1, <1>3, <1>4

\* What the elements after the i-th are.
LEMMA SuffixProperties ==
    ASSUME NEW S, NEW s \in Seq(S), NEW i \in 0..Len(s)
    PROVE  /\ SubSeq(s, i + 1, Len(s)) \in Seq(S)
           /\ Len(SubSeq(s, i + 1, Len(s))) = Len(s) - i
           /\ \A j \in 1..(Len(s) - i) : SubSeq(s, i + 1, Len(s))[j] = s[j + i]
<1> DEFINE m == i + 1
           n == Len(s)
<1>1. n \in Nat /\ m \in Int /\ n \in Int /\ \A j \in m..n : s[j] \in S
    BY LenProperties, ElementOfSeq
<1>2. m = i + 1 /\ n = Len(s) /\ i \in 0..n
    OBVIOUS
<1> HIDE DEF m, n
<1>3. /\ SubSeq(s, m, n) \in Seq(S)
      /\ Len(SubSeq(s, m, n)) = IF m <= n THEN n - m + 1 ELSE 0
      /\ \A j \in 1..(n - m + 1) : SubSeq(s, m, n)[j] = s[m + j - 1]
    BY <1>1, SubSeqProperties
<1>4. n - m + 1 = n - i /\ \A j \in 1..(n - i) : m + j - 1 = j + i
    BY <1>1, <1>2
<1>5. /\ Len(SubSeq(s, m, n)) = n - i
      /\ \A j \in 1..(n - i) : SubSeq(s, m, n)[j] = s[j + i]
    BY <1>1, <1>2, <1>3, <1>4
<1>6. QED
    BY <1>2, <1>3, <1>5

\* Inserting moves the elements from the i-th on one place up.
LEMMA InsertAtProperties ==
    ASSUME NEW S, NEW s \in Seq(S), NEW i \in 0..Len(s), NEW e \in S
    PROVE  /\ InsertAt(s, i + 1, e) \in Seq(S)
           /\ Len(InsertAt(s, i + 1, e)) = Len(s) + 1
           /\ \A j \in 1..(Len(s) + 1) : InsertAt(s, i + 1, e)[j] =
                 IF j <= i THEN s[j] ELSE IF j = i + 1 THEN e ELSE s[j - 1]
<1> DEFINE p == SubSeq(s, 1, i)
           q == SubSeq(s, i + 1, Len(s))
           pe == p \o <<e>>
           r == pe \o q
<1>1. Len(s) \in Nat /\ i + 1 - 1 = i
    BY LenProperties
<1>2. InsertAt(s, i + 1, e) = r
    <2>1. InsertAt(s, i + 1, e) = SubSeq(s, 1, (i + 1) - 1) \o <<e>> \o q
        BY Zenon DEF InsertAt
    <2>2. SubSeq(s, 1, (i + 1) - 1) = p
        BY <1>1
    <2>3. QED
        BY <2>1, <2>2
<1>3. p \in Seq(S) /\ Len(p) = i /\ \A j \in 1..i : p[j] = s[j]
    BY PrefixProperties
<1>4. q \in Seq(S) /\ Len(q) = Len(s) - i /\ \A j \in 1..(Len(s) - i) : q[j] = s[j + i]
    BY SuffixProperties
<1> HIDE DEF p, q
<1>5. pe \in Seq(S) /\ Len(pe) = i + 1
      /\ \A j \in 1..(i + 1) : pe[j] = IF j <= i THEN s[j] ELSE e
    <2>1. <<e>> \in Seq(S) /\ Len(<<e>>) = 1 /\ <<e>>[1] = e
        OBVIOUS
    <2>2. /\ pe \in Seq(S) /\ Len(pe) = i + 1
          /\ \A j \in 1..(i + 1) : pe[j] = IF j <= i THEN p[j] ELSE <<e>>[j - i]
        BY <1>3, <2>1, ConcatProperties
    <2>3. QED
        BY <1>3, <2>1, <2>2
<1> HIDE DEF pe
<1>6. /\ r \in Seq(S) /\ Len(r) = Len(s) + 1
      /\ \A j \in 1..(Len(s) + 1) :
            r[j] = IF j <= i + 1 THEN pe[j] ELSE q[j - (i + 1)]
    <2>1. /\ r \in Seq(S)
          /\ Len(r) = Len(pe) + Len(q)
          /\ \A j \in 1..(Len(pe) + Len(q)) :
                r[j] = IF j <= Len(pe) THEN pe[j] ELSE q[j - Len(pe)]
        BY <1>4, <1>5, ConcatProperties
    <2>2. Len(pe) + Len(q) = Len(s) + 1
        BY <1>1, <1>4, <1>5
    <2>3. QED
        BY <1>5, <2>1, <2>2
<1> HIDE DEF r
<1>7. \A j \in 1..(Len(s) + 1) : r[j] =
          IF j <= i THEN s[j] ELSE IF j = i + 1 THEN e ELSE s[j - 1]
    <2> TAKE j \in 1..(Len(s) + 1)
    <2>1. CASE j <= i + 1
        BY <1>1, <1>5, <1>6, <2>1
    <2>2. CASE j > i + 1
        <3> DEFINE k == j - (i + 1)
        <3>1. k \in 1..(Len(s) - i) /\ k + i = j - 1 /\ ~(j <= i + 1)
            BY <1>1, <2>2
        <3>2. r[j] = q[k]
            BY <1>6, <3>1
        <3> HIDE DEF k
        <3>3. q[k] = s[j - 1]
            BY <1>4, <3>1
        <3>4. ~(j <= i) /\ j # i + 1
            BY <1>1, <2>2
        <3>5. QED
            BY <3>2, <3>3, <3>4
    <2>3. QED
        BY <1>1, <2>1, <2>2
<1>8. QED
    BY <1>2, <1>6, <1>7

\* Removing moves the elements after the i-th one place down.
LEMMA RemoveAtProperties ==
    ASSUME NEW S, NEW s \in Seq(S), NEW i \in 1..Len(s)
    PROVE  /\ RemoveAt(s, i) \in Seq(S)
           /\ Len(RemoveAt(s, i)) = Len(s) - 1
           /\ \A j \in 1..(Len(s) - 1) :
                 RemoveAt(s, i)[j] = IF j < i THEN s[j] ELSE s[j + 1]
<1> DEFINE h == i - 1
           p == SubSeq(s, 1, h)
           q == SubSeq(s, i + 1, Len(s))
           r == p \o q
<1>1. Len(s) \in Nat /\ h \in 0..Len(s) /\ i \in 0..Len(s) /\ i = h + 1
    BY LenProperties
<1>2. RemoveAt(s, i) = r
    BY DEF RemoveAt
<1> HIDE DEF h
<1>3. p \in Seq(S) /\ Len(p) = h /\ \A j \in 1..h : p[j] = s[j]
    BY <1>1, PrefixProperties
<1>4. q \in Seq(S) /\ Len(q) = Len(s) - i /\ \A j \in 1..(Len(s) - i) : q[j] = s[j + i]
    BY <1>1, SuffixProperties
<1> HIDE DEF p, q
<1>5. /\ r \in Seq(S) /\ Len(r) = Len(s) - 1
      /\ \A j \in 1..(Len(s) - 1) : r[j] = IF j <= h THEN p[j] ELSE q[j - h]
    <2>1. /\ r \in Seq(S)
          /\ Len(r) = Len(p) + Len(q)
          /\ \A j \in 1..(Len(p) + Len(q)) :
                r[j] = IF j <= Len(p) THEN p[j] ELSE q[j - Len(p)]
        BY <1>3, <1>4, ConcatProperties
    <2>2. Len(p) + Len(q) = Len(s) - 1
        BY <1>1, <1>3, <1>4
    <2>3. QED
        BY <1>3, <2>1, <2>2
<1> HIDE DEF r
<1>6. \A j \in 1..(Len(s) - 1) : r[j] = IF j < i THEN s[j] ELSE s[j + 1]
    <2> TAKE j \in 1..(Len(s) - 1)
    <2>1. CASE j <= h
        BY <1>1, <1>3, <1>5, <2>1
    <2>2. CASE j > h
        <3>1. j - h \in 1..(Len(s) - i) /\ (j - h) + i = j + 1
            BY <1>1, <2>2
        <3>2. QED
            BY <1>1, <1>4, <1>5, <2>2, <3>1
    <2>3. QED
        BY <1>1, <2>1, <2>2
<1>7. QED
    BY <1>2, <1>5, <1>6

\* Front drops the last element and nothing else.
LEMMA FrontProperties ==
    ASSUME NEW S, NEW s \in Seq(S), s # <<>>
    PROVE  /\ Front(s) \in Seq(S)
           /\ Len(Front(s)) = Len(s) - 1
           /\ \A i \in 1..(Len(s) - 1) : Front(s)[i] = s[i]
<1> DEFINE m == Len(s) - 1
<1>1. m \in Nat /\ Len(s) = m + 1 /\ \A i \in 1..m : s[i] \in S
    BY EmptySeq, LenProperties, ElementOfSeq
<1>2. Front(s) = SubSeq(s, 1, m)
    BY DEF Front
<1> HIDE DEF m
<1>3. /\ SubSeq(s, 1, m) \in Seq(S)
      /\ Len(SubSeq(s, 1, m)) = IF 1 <= m THEN m - 1 + 1 ELSE 0
      /\ \A i \in 1..(m - 1 + 1) : SubSeq(s, 1, m)[i] = s[1 + i - 1]
    <2>1. 1 \in Int /\ m \in Int
        BY <1>1
    <2>2. QED
        BY <1>1, <2>1, SubSeqProperties
<1>4. m - 1 + 1 = m /\ \A i \in 1..m : 1 + i - 1 = i
    BY <1>1
<1>5. /\ Len(Front(s)) = m
      /\ \A i \in 1..m : Front(s)[i] = s[i]
    BY <1>1, <1>2, <1>3, <1>4
<1>6. QED
    BY <1>1, <1>2, <1>3, <1>5 DEF m

=============================================================================
