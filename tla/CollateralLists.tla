--------------------------- MODULE CollateralLists ---------------------------
(***************************************************************************)
(* checkCollateralListDouble of PREONController.sol: the lists of what an  *)
(* adjustment deposits and withdraws are walked side by side, as in a      *)
(* merge, and must each be strictly increasing in the index of the         *)
(* collateral, must not overlap, must name existing collateral only, and   *)
(* deposit active collateral only.                                         *)
(***************************************************************************)
EXTENDS Integers, Sequences

CONSTANTS
    Tokens,           \* addresses, collateral or not
    Index, Active,    \* collateralParams[token].index and .active
    FirstCollateral,  \* validCollateral[0]
    Lists             \* the lists passed; Seq(Tokens), unless TLC enumerates them

ASSUME IndexOfAll == Index \in [Tokens -> Nat]
ASSUME ActiveOfAll == Active \in [Tokens -> BOOLEAN]
ASSUME ListsOfTokens == Lists \subseteq Seq(Tokens)

\* _exists: index 0 is that of the first collateral and of all that are none.
IsCollateral(t) == t = FirstCollateral \/ Index[t] # 0

\* What the controller guarantees of the indices (Controller's
\* CollateralIndexed).
ASSUME IndexInjective ==
    \A s, t \in Tokens : IsCollateral(s) /\ IsCollateral(t) /\ Index[s] = Index[t] => s = t

VARIABLES
    depositColls, withdrawColls,  \* the two lists
    d_i, w_i,                     \* how many of each have been looked at
    dIndex, wIndex,               \* the index last looked at, in each
    verdict                       \* "merging", "draining", then "accepted" or "rejected"

listVars == <<depositColls, withdrawColls, d_i, w_i, dIndex, wIndex, verdict>>

FirstIndex(list) == IF list = <<>> THEN 0 ELSE Index[list[1]]

\* With an empty list there is nothing to merge: the other one is walked by
\* _checkCollateralListSingle, which is the loop over what is left.
StartVerdict(d, w) == IF d # <<>> /\ w # <<>> THEN "merging" ELSE "draining"

ListsInit ==
    /\ depositColls \in Lists /\ withdrawColls \in Lists
    /\ d_i = 0 /\ w_i = 0
    /\ dIndex = FirstIndex(depositColls)
    /\ wIndex = FirstIndex(withdrawColls)
    /\ verdict = StartVerdict(depositColls, withdrawColls)

\* The next element of a list exists and comes after the one before.
NextProper(list, i, last) ==
    /\ IsCollateral(list[i + 1])
    /\ i # 0 => Index[list[i + 1]] > last

Reject ==
    /\ verdict' = "rejected"
    /\ UNCHANGED <<depositColls, withdrawColls, d_i, w_i, dIndex, wIndex>>

LookAtDeposit ==
    IF NextProper(depositColls, d_i, dIndex) /\ Active[depositColls[d_i + 1]]
    THEN /\ dIndex' = Index[depositColls[d_i + 1]]
         /\ d_i' = d_i + 1
         /\ UNCHANGED <<depositColls, withdrawColls, w_i, wIndex, verdict>>
    ELSE Reject

LookAtWithdrawal ==
    IF NextProper(withdrawColls, w_i, wIndex)
    THEN /\ wIndex' = Index[withdrawColls[w_i + 1]]
         /\ w_i' = w_i + 1
         /\ UNCHANGED <<depositColls, withdrawColls, d_i, dIndex, verdict>>
    ELSE Reject

Drain ==
    /\ verdict' = "draining"
    /\ UNCHANGED <<depositColls, withdrawColls, d_i, w_i, dIndex, wIndex>>

\* Mutant: two lists meeting in an index is not looked for.
NeverOverlaps(d, w) == FALSE

Overlap(d, w) == d = w

\* One iteration of while (true): the list that is behind moves on, until the
\* list that is behind has ended.
Merge ==
    /\ verdict = "merging"
    /\ \/ Overlap(dIndex, wIndex) /\ Reject
       \/ /\ ~ Overlap(dIndex, wIndex) /\ dIndex < wIndex
          /\ IF d_i = Len(depositColls) THEN Drain ELSE LookAtDeposit
       \/ /\ ~ Overlap(dIndex, wIndex) /\ ~ dIndex < wIndex
          /\ IF w_i = Len(withdrawColls) THEN Drain ELSE LookAtWithdrawal

\* The two loops over what is left.
DrainStep ==
    /\ verdict = "draining"
    /\ \/ d_i < Len(depositColls) /\ LookAtDeposit
       \/ d_i = Len(depositColls) /\ w_i < Len(withdrawColls) /\ LookAtWithdrawal
       \/ /\ d_i = Len(depositColls) /\ w_i = Len(withdrawColls)
          /\ verdict' = "accepted"
          /\ UNCHANGED <<depositColls, withdrawColls, d_i, w_i, dIndex, wIndex>>

ListsNext == Merge \/ DrainStep

ListsSpec == ListsInit /\ [][ListsNext]_listVars

-----------------------------------------------------------------------------

Increasing(list) ==
    \A i, j \in 1..Len(list) : i < j => Index[list[i]] < Index[list[j]]

\* What the caller relies on, said without the walk.
Proper ==
    /\ \A i \in 1..Len(depositColls) : IsCollateral(depositColls[i]) /\ Active[depositColls[i]]
    /\ \A j \in 1..Len(withdrawColls) : IsCollateral(withdrawColls[j])
    /\ Increasing(depositColls) /\ Increasing(withdrawColls)
    /\ \A i \in 1..Len(depositColls), j \in 1..Len(withdrawColls) : depositColls[i] # withdrawColls[j]

\* Lists that are accepted are what adjustTrove needs: no token twice, none
\* both deposited and withdrawn, nothing deposited of a deprecated collateral,
\* although elements are only compared with their neighbours and with the one
\* the other list has reached.
AcceptsOnlyProper == verdict = "accepted" => Proper

\* No legitimate adjustment is refused.
RejectsOnlyImproper == verdict = "rejected" => ~ Proper

\* The verdict is right both ways.
VerdictIsRight == AcceptsOnlyProper /\ RejectsOnlyImproper

=============================================================================
