---------------------------- MODULE MCTroveLedger ----------------------------
(* One collateral token, worth its full value in every ratio. *)
EXTENDS TroveLedger, TLC

CONSTANTS t1, b1, b2, b3

OneToken == <<t1>>
FullValue == t1 :> 100
NoTokens == <<>>
NoWeights == [x \in {} |-> 0]
Amt(n) == t1 :> n

\* At the low price the first is worth 130% of its debt, or 100% with a fee of 3,
\* the second 161% or more, and the two together less than CCR.
MCOpenings == {[colls |-> Amt(13), amount |-> 9], [colls |-> Amt(21), amount |-> 12]}
MCAdjustments == {[collsIn |-> Amt(2), collsOut |-> Amt(0), change |-> 0],
                  [collsIn |-> Amt(0), collsOut |-> Amt(1), change |-> -2],
                  [collsIn |-> Amt(0), collsOut |-> Amt(0), change |-> 3]}

\* The first is worth 100% of its debt at the low price.
RiskyOrSafe == {[colls |-> Amt(10), amount |-> 9], [colls |-> Amt(21), amount |-> 5]}
MCOneAdjustment == {[collsIn |-> Amt(3), collsOut |-> Amt(0), change |-> 0]}
High == Amt(2)
Low == Amt(1)
MCPrices == {High, Low}

Symmetry == Permutations(Borrowers)
=============================================================================
