------------------------------- MODULE MCPage -------------------------------
(***************************************************************************)
(* TLC instance of the store, of the providers and of the page's           *)
(* transaction.  They share no state here: the first state picks the part  *)
(* that moves.  What the others must do fairly is disabled until they have *)
(* moved, so that it can be asked for together; only a store must begin by *)
(* itself, so that its fairness is asked for where it is the part.         *)
(***************************************************************************)
EXTENDS MCStore, BlockListeners, TransactionStatus, CallBatches

CONSTANTS k1, k2, k3

VARIABLE part

Parts == {"store", "events", "status", "batches"}

pageVars == <<part, storeVars, eventVars, statusVars, batchVars>>

\* The stores are alike: the provider is rendered with s1 first.
PageInit ==
    /\ part \in Parts
    /\ StoreInit /\ EventInit /\ StatusInit /\ BatchInit
    /\ prop = s1
    /\ part # "store" => chain = LongChain
    /\ part # "status" => \A t \in Transactions : idOf[t] = 1
    /\ part # "batches" => \A c \in Calls : tagOf[c] = Latest

\* On the long chain the connection changes once its last block is there, on
\* the short one at any time.
StoreMoves ==
    /\ part = "store"
    /\ StoreNext
    /\ prop' # prop /\ chain = LongChain => head = 3
    /\ UNCHANGED <<part, eventVars, statusVars, batchVars>>

EventsMove ==
    /\ part = "events"
    /\ EventNext
    /\ UNCHANGED <<part, storeVars, statusVars, batchVars>>

StatusMoves ==
    /\ part = "status"
    /\ StatusNext
    /\ UNCHANGED <<part, storeVars, eventVars, batchVars>>

BatchesMove ==
    /\ part = "batches"
    /\ BatchNext
    /\ UNCHANGED <<part, storeVars, eventVars, statusVars>>

PageNext == StoreMoves \/ EventsMove \/ StatusMoves \/ BatchesMove

\* StoreFairness, while the store is the part that moves.
StoresGoOn ==
    /\ WF_storeVars(part = "store" /\ NewBlock)
    /\ WF_storeVars(part = "store" /\ RunEffect)
    /\ \A s \in Stores :
        /\ WF_storeVars(part = "store" /\ BlockListener(s))
        /\ WF_storeVars(part = "store" /\ \E f \in fetches[s] : Read(s, f) \/ Answer(s, f))

PageSpec ==
    /\ PageInit
    /\ [][PageNext]_pageVars
    /\ StoresGoOn
    /\ EventFairness /\ StatusFairness /\ BatchFairness

=============================================================================
