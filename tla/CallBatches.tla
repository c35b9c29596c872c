---------------------------- MODULE CallBatches ----------------------------
(***************************************************************************)
(* BatchedProvider gathers the calls of some milliseconds and makes them   *)
(* one call of the Multicall contract, at the one block they are all for.  *)
(* A call for another block, or one that can't be batched, is made by      *)
(* itself.  An answer goes to all callers of the batch.                    *)
(***************************************************************************)
EXTENDS Integers, Sequences

CONSTANTS
    Calls,          \* the calls made
    Tags,           \* what a call may give as its block
    Latest,         \* the block of a call without a tag
    Waiting,        \* no answer yet
    Failure         \* the answer of a call that failed

VARIABLES
    tagOf,          \* the tag of each call, or Latest
    made,           \* the calls that were made
    batched,        \* [calls, blockTag] of _batched
    timerSet,       \* _timeoutId
    flying,         \* batches and calls under way, as batches
    answers         \* the block that each caller was answered from

batchVars == <<tagOf, made, batched, timerSet, flying, answers>>

EmptyBatch == [calls |-> <<>>, blockTag |-> Latest]

BatchInit ==
    /\ tagOf \in [Calls -> Tags \cup {Latest}]
    /\ made = {}
    /\ batched = EmptyBatch
    /\ timerSet = FALSE
    /\ flying = {}
    /\ answers = [c \in Calls |-> Waiting]

\* Mutant: the blocks are not compared.
NoConflict(c) == FALSE

\* _alreadyBatchedCallsConflictWith.
Conflict(c) == batched.calls # <<>> /\ tagOf[c] # batched.blockTag

Alone(c) == [calls |-> <<c>>, blockTag |-> tagOf[c]]

\* The call is made by itself: for another block, or not batchable.
CallAlone(c) ==
    /\ c \notin made
    /\ made' = made \cup {c}
    /\ flying' = flying \cup {Alone(c)}
    /\ UNCHANGED <<tagOf, batched, timerSet, answers>>

\* _enqueueCall: the timer is set anew.
Enqueue(c) ==
    /\ c \notin made
    /\ ~Conflict(c)
    /\ made' = made \cup {c}
    /\ batched' = IF batched.calls = <<>> THEN Alone(c)
                  ELSE [batched EXCEPT !.calls = Append(@, c)]
    /\ timerSet' = TRUE
    /\ UNCHANGED <<tagOf, flying, answers>>

\* _dispatchCalls: the next call begins a batch of its own.
DispatchCalls ==
    /\ timerSet
    /\ timerSet' = FALSE
    /\ flying' = flying \cup {batched}
    /\ batched' = EmptyBatch
    /\ UNCHANGED <<tagOf, made, answers>>

Callers(b) == {b.calls[i] : i \in DOMAIN b.calls}

\* The batch is answered, from the block it was made for.
BatchAnswered(b) ==
    /\ flying' = flying \ {b}
    /\ answers' = [c \in Calls |-> IF c \in Callers(b) THEN b.blockTag ELSE answers[c]]
    /\ UNCHANGED <<tagOf, made, batched, timerSet>>

\* One of its calls reverts, or the node fails: every caller is told.
BatchFailed(b) ==
    /\ flying' = flying \ {b}
    /\ answers' = [c \in Calls |-> IF c \in Callers(b) THEN Failure ELSE answers[c]]
    /\ UNCHANGED <<tagOf, made, batched, timerSet>>

BatchNext ==
    \/ DispatchCalls
    \/ \E c \in Calls : CallAlone(c) \/ Enqueue(c)
    \/ \E b \in flying : BatchAnswered(b) \/ BatchFailed(b)

\* Timers run, and what was sent is answered or fails.
BatchFairness ==
    /\ WF_batchVars(DispatchCalls)
    /\ WF_batchVars(\E b \in flying : BatchAnswered(b) \/ BatchFailed(b))

-----------------------------------------------------------------------------

\* Every caller is told at last, those who called between a dispatch and its
\* answer too, and never from another block than the one asked for, whatever
\* calls of other blocks were made while the batch was gathered.
EveryCallAnswered ==
    (\E c \in made : answers[c] = Waiting)
        ~> (\A c \in made : answers[c] \in {Failure, tagOf[c]})

=============================================================================
