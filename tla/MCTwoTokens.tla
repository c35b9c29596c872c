---------------------------- MODULE MCTwoTokens ----------------------------
(* Two tokens, of which the first absorbs the debt of the second when it is *)
(* orphaned, and an adjustment that adds the second.                        *)
EXTENDS TroveLedger, TLC

CONSTANTS t1, t2, b1, b2, b3

TwoTokens == <<t1, t2>>
FullValue == [t \in Tokens |-> 100]
MCAbsorbers == <<t1>>
MCWeights == t1 :> 100

ThreeKinds == {[colls |-> Only(t1, 20), amount |-> 9],
               [colls |-> Only(t2, 13), amount |-> 11],
               [colls |-> Only(t2, 20), amount |-> 9]}

AddSecond == {[collsIn |-> Only(t2, 4), collsOut |-> NoColl, change |-> 0]}

\* Only the price of t2 moves.
High == t1 :> 2 @@ t2 :> 2
Low == t1 :> 2 @@ t2 :> 1
MCPrices == {High, Low}

Symmetry == Permutations(Borrowers)
=============================================================================
