------------------------------- MODULE MCStore -------------------------------
(* TLC instance of LiquityStore: two connections, and a chain of blocks. *)
EXTENDS LiquityStore

CONSTANTS s1, s2, t1, t2

\* A state of the contracts: the user's trove, and the price of each token.
OneToken(coll, debt, price) ==
    [coll |-> coll, debt |-> debt, prices |-> [t \in {t1} |-> price]]
TwoTokens(coll, debt, price) ==
    [coll |-> coll, debt |-> debt, prices |-> [t \in {t1, t2} |-> price]]

\* The debt alone changes; then all, and a token is listed.
LongChain == <<OneToken(1, 1, 1), OneToken(1, 2, 1), TwoTokens(2, 3, 2)>>
\* All changes at once.
ShortChain == <<OneToken(1, 1, 1), TwoTokens(2, 3, 2)>>
MCChains == {LongChain, ShortChain}

=============================================================================
