----------------------------- MODULE TroveOwners -----------------------------
(***************************************************************************)
(* The enumeration of active troves that TroveManager.sol keeps beside the *)
(* sorted list: the TroveOwners array and, in every Trove struct, its      *)
(* status and its arrayIndex.  A closed trove is removed by moving the     *)
(* last owner into its slot and popping the array.                         *)
(*                                                                         *)
(* Solidity arrays start at 0 and sequences at 1: arrayIndex holds the     *)
(* code's index, and slot i of the array is TroveOwners[i + 1].            *)
(***************************************************************************)
EXTENDS Addresses, Naturals, Sequences, FiniteSets, SequencesExt

VARIABLES
    TroveOwners,      \* address[] TroveOwners
    arrayIndex,       \* Troves[b].arrayIndex
    status            \* Troves[b].status

ownerVars == <<TroveOwners, arrayIndex, status>>

\* closedByOwner, closedByLiquidation and closedByRedemption differ in name only:
\* _closeTrove treats them alike and no code tells them apart.
Status == {"nonExistent", "active", "closed"}

OwnersInit ==
    /\ TroveOwners = <<>>
    /\ arrayIndex = [b \in Borrowers |-> 0]
    /\ status = [b \in Borrowers |-> "nonExistent"]

\* openTrove: _requireTroveStatus(false), setTroveStatus, addTroveOwnerToArray.
AddTroveOwner(b) ==
    /\ status[b] # "active"
    /\ status' = [status EXCEPT ![b] = "active"]
    /\ TroveOwners' = Append(TroveOwners, b)
    /\ arrayIndex' = [arrayIndex EXCEPT ![b] = Len(TroveOwners)]

\* Mutant: the last owner moves into the freed slot, its arrayIndex does not follow.
RemoveTroveOwnerStaleIndex(b) ==
    LET addressToMove == TroveOwners[Len(TroveOwners)]
    IN  /\ status[b] = "active"
        /\ Len(TroveOwners) > 1
        /\ status' = [status EXCEPT ![b] = "closed"]
        /\ TroveOwners' = Front([TroveOwners EXCEPT ![arrayIndex[b] + 1] = addressToMove])
        /\ UNCHANGED arrayIndex

\* Mutant: the array is popped without moving its last owner into the freed slot.
RemoveTroveOwnerPopOnly(b) ==
    /\ status[b] = "active"
    /\ Len(TroveOwners) > 1
    /\ status' = [status EXCEPT ![b] = "closed"]
    /\ TroveOwners' = Front(TroveOwners)
    /\ UNCHANGED arrayIndex

\* _closeTrove and _removeTroveOwner: the last trove can never be closed.  The
\* closed struct keeps its stale arrayIndex.
RemoveTroveOwner(b) ==
    LET idxLast == Len(TroveOwners) - 1
        index == arrayIndex[b]
        addressToMove == TroveOwners[Len(TroveOwners)]
        moved == [TroveOwners EXCEPT ![index + 1] = addressToMove]
    IN  /\ status[b] = "active"
        /\ Len(TroveOwners) > 1
        /\ index <= idxLast
        /\ status' = [status EXCEPT ![b] = "closed"]
        /\ arrayIndex' = [arrayIndex EXCEPT ![addressToMove] = index]
        /\ TroveOwners' = Front(moved)

OwnersNext ==
    \E b \in Borrowers :
        \/ AddTroveOwner(b)
        \/ RemoveTroveOwner(b)

OwnersSpec == OwnersInit /\ [][OwnersNext]_ownerVars

-----------------------------------------------------------------------------

OwnersTypeOK ==
    /\ TroveOwners \in Seq(Borrowers)
    /\ arrayIndex \in [Borrowers -> Nat]
    /\ status \in [Borrowers -> Status]

\* The array enumerates the active troves, each exactly once, and every active
\* trove's arrayIndex is its slot.  TroveManager.sol reads TroveOwners[i] and
\* writes through arrayIndex, so a wrong index would drop somebody else's trove.
OwnersIndexed ==
    /\ \A b \in Borrowers :
          status[b] = "active" =>
             /\ arrayIndex[b] < Len(TroveOwners)
             /\ TroveOwners[arrayIndex[b] + 1] = b
    /\ \A i \in 1..Len(TroveOwners) :
          /\ status[TroveOwners[i]] = "active"
          /\ arrayIndex[TroveOwners[i]] = i - 1

\* Once a trove exists, some trove exists forever.
NeverEmptied == [][TroveOwners # <<>> => TroveOwners' # <<>>]_ownerVars

=============================================================================
