------------------------------ MODULE Addresses ------------------------------
(***************************************************************************)
(* The addresses that can own a trove, shared by the contracts that key    *)
(* their mappings and arrays by them.                                      *)
(***************************************************************************)
EXTENDS FiniteSets

CONSTANT Borrowers

ASSUME BorrowersFinite == IsFiniteSet(Borrowers)

=============================================================================
