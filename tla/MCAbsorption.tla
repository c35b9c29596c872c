---------------------------- MODULE MCAbsorption ----------------------------
(* Three tokens.  Each borrower opens with one of them, so that a liquidation *)
(* orphans its token and the others absorb the debt; or with two, so that     *)
(* debt is prorated between a shared token and an orphan.  Of the two, one    *)
(* may be withdrawn in full, which leaves its stake behind.                   *)
EXTENDS TroveLedger, TLC

CONSTANTS t1, t2, t3, b1, b2, b3

ThreeTokens == <<t1, t2, t3>>
FullValue == [t \in Tokens |-> 100]
\* t3 is the first to absorb: when it is the orphan its weight is reassigned.
MCAbsorbers == <<t3, t1, t2>>
MCWeights == t1 :> 30 @@ t2 :> 20 @@ t3 :> 50

MCOpenings == {[colls |-> Only(t1, 20), amount |-> 9],
               [colls |-> Only(t2, 20), amount |-> 9],
               [colls |-> Only(t3, 14), amount |-> 12],
               [colls |-> Plus(Only(t1, 7), Only(t3, 7)), amount |-> 12]}
\* A trove with two tokens withdraws one of them in full.
WithdrawThird == {[collsIn |-> NoColl, collsOut |-> Only(t3, 7), change |-> 0]}
\* Only the price of t3 moves.
High == t1 :> 2 @@ t2 :> 2 @@ t3 :> 2
Low == t1 :> 2 @@ t2 :> 2 @@ t3 :> 1
MCPrices == {High, Low}

Symmetry == Permutations(Borrowers)
=============================================================================
