--------------------------- MODULE MCTroveRegistry ---------------------------
(***************************************************************************)
(* TLC instances of TroveRegistry.  Three troves, four AICRs and every     *)
(* pair of hints exercise the links; two troves, fees and a clock exercise *)
(* the boosts.                                                             *)
(***************************************************************************)
EXTENDS TroveRegistry, TLC

CONSTANTS b1, b2, b3

MCBorrowers == {b1, b2, b3}
MCTwoBorrowers == {b1, b2}

\* Adding nothing, and adding as much value as the trove had.
MCVCWeights == {<<1, 0>>, <<1, 1>>}
MCNoWeights == {<<1, 0>>}

\* Only equality between addresses matters.
BorrowerSymmetry == Permutations(MCBorrowers)
TwoBorrowerSymmetry == Permutations(MCTwoBorrowers)

=============================================================================
