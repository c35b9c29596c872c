----------------------------- MODULE TroveOrder -----------------------------
(***************************************************************************)
(* What SortedTroves.sol promises to its callers, without the links, the   *)
(* hints and the boost: the troves form one sequence, descending in the    *)
(* boosted AICR each one had when it was last inserted (oldBoostedAICR),   *)
(* next to the registry of troves that were reported under-collateralised. *)
(*                                                                         *)
(* A trove may be inserted wherever its two neighbours allow it, which is  *)
(* the local test of _validInsertPosition; that the whole sequence stays   *)
(* sorted and free of repetitions is what the theorems of                  *)
(* TroveOrder_proofs say.  SortedTroves and TroveRegistry implement this   *)
(* module with a doubly linked list.                                       *)
(***************************************************************************)
EXTENDS Addresses, Naturals, Sequences, FiniteSets, SequencesExt

CONSTANT Keys         \* the boosted AICRs a trove can be inserted with

ASSUME KeysPositive == Keys \subseteq Nat \ {0}

VARIABLES
    order,            \* the troves, largest oldBoostedAICR first
    boostedAICR,      \* oldBoostedAICR of every address, 0 when not listed
    flagged,          \* the troves reported under-collateralised
    flaggedSize       \* the counter the Stability Pool reads

orderVars == <<order, boostedAICR, flagged, flaggedSize>>

Elements(s) == {s[i] : i \in 1..Len(s)}

Listed == Elements(order)

\* Mutant: only the neighbour above is compared.
FitsBelowOnly(s, key, i, k) == i > 0 => key[s[i]] >= k

\* (i, i+1) is a gap into which a trove of boosted AICR k fits.
Fits(s, key, i, k) ==
    /\ i > 0      => key[s[i]] >= k
    /\ i < Len(s) => k >= key[s[i + 1]]

OrderInit ==
    /\ order = <<>>
    /\ boostedAICR = [b \in Borrowers |-> 0]
    /\ flagged = {}
    /\ flaggedSize = 0

\* A trove is opened: it enters the sequence at any gap that fits.
Enter(b, k) ==
    /\ b \notin Listed
    /\ \E i \in 0..Len(order) :
          /\ Fits(order, boostedAICR, i, k)
          /\ order' = InsertAt(order, i + 1, b)
    /\ boostedAICR' = [boostedAICR EXCEPT ![b] = k]
    /\ UNCHANGED <<flagged, flaggedSize>>

\* Mutant: a closed trove is not counted out of the registry.
LeaveUncounted(b) ==
    /\ \E i \in 1..Len(order) : order[i] = b /\ order' = RemoveAt(order, i)
    /\ boostedAICR' = [boostedAICR EXCEPT ![b] = 0]
    /\ flagged' = flagged \ {b}
    /\ UNCHANGED flaggedSize

\* A trove is closed: it leaves the registry first, then the sequence.
Leave(b) ==
    /\ \E i \in 1..Len(order) :
          /\ order[i] = b
          /\ order' = RemoveAt(order, i)
    /\ boostedAICR' = [boostedAICR EXCEPT ![b] = 0]
    /\ flagged' = flagged \ {b}
    /\ flaggedSize' = IF b \in flagged THEN flaggedSize - 1 ELSE flaggedSize

\* A trove is taken out and put back with a new boosted AICR.
Move(b, k) ==
    /\ \E i \in 1..Len(order) :
          /\ order[i] = b
          /\ LET rest == RemoveAt(order, i) IN
             \E j \in 0..Len(rest) :
                /\ Fits(rest, boostedAICR, j, k)
                /\ order' = InsertAt(rest, j + 1, b)
    /\ boostedAICR' = [boostedAICR EXCEPT ![b] = k]
    /\ UNCHANGED <<flagged, flaggedSize>>

\* A trove is reported under-collateralised, or reported healthy again.
Flag(b) ==
    /\ b \in Listed \ flagged
    /\ flagged' = flagged \cup {b}
    /\ flaggedSize' = flaggedSize + 1
    /\ UNCHANGED <<order, boostedAICR>>

Unflag(b) ==
    /\ b \in flagged
    /\ flagged' = flagged \ {b}
    /\ flaggedSize' = flaggedSize - 1
    /\ UNCHANGED <<order, boostedAICR>>

OrderNext ==
    \E b \in Borrowers :
        \/ \E k \in Keys : Enter(b, k) \/ Move(b, k)
        \/ Leave(b)
        \/ Flag(b)
        \/ Unflag(b)

OrderSpec == OrderInit /\ [][OrderNext]_orderVars

-----------------------------------------------------------------------------

OrderTypeOK ==
    /\ order \in Seq(Borrowers)
    /\ boostedAICR \in [Borrowers -> Nat]
    /\ flagged \in SUBSET Borrowers
    /\ flaggedSize \in Nat

Distinct(s) == \A i, j \in 1..Len(s) : s[i] = s[j] => i = j

Sorted(s, key) == \A i, j \in 1..Len(s) : i <= j => key[s[i]] >= key[s[j]]

\* No trove is listed twice.
NoRepetition == Distinct(order)

\* The sequence descends in the boosted AICR of the last insertion, across
\* any distance and not only between neighbours.
Descending == Sorted(order, boostedAICR)

\* The counter the Stability Pool reads is the number of reported troves, and
\* only listed troves are reported.
RegistryExact ==
    /\ flagged \subseteq Listed
    /\ flaggedSize = Cardinality(flagged)

=============================================================================
