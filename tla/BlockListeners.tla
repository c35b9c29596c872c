--------------------------- MODULE BlockListeners ---------------------------
(***************************************************************************)
(* The block events of WebSocketAugmentedProvider.  It keeps its own map   *)
(* of listeners and registers one callback, _onBlock, with the source in   *)
(* force: the WebSocket while there is one, else the polling provider that *)
(* it extends.  A listener may stay (on), go after its first call (once),  *)
(* or ask for a receipt at every block; waitForTransaction listens once,   *)
(* asks, and listens again.  Blocks follow each other without end, and     *)
(* their numbers are left out but for what is asked of them: whether the   *)
(* transaction is in one, and whether its receipt is known to every node.  *)
(***************************************************************************)
EXTENDS Integers, FiniteSets

CONSTANTS
    BlockKeys,     \* listeners of "block" that stay
    ReceiptKeys,   \* listeners of the transaction, called once
    Waiters,       \* calls of waitForTransaction
    MaxOpened,     \* bound on the WebSockets opened
    MaxInUse       \* bound on the listeners and waiters in use

Keys == BlockKeys \cup ReceiptKeys \cup Waiters

\* A count that goes no further: as many as this, or more.
Many == 2
More(n) == IF n = Many THEN Many ELSE n + 1
Fewer(n) == IF n = Many THEN {Many - 1, Many} ELSE {n - 1}

VARIABLES
    listeners,       \* _blockListeners
    onBase, onSocket,    \* registrations of _onBlock with either source
    socket,          \* _wsProvider: "none", "open" or "dropped"
    orphan,          \* whether a WebSocket that was replaced still runs
    reconnecting,    \* whether the timer to reconnect is set
    opened,          \* how many WebSockets were opened
    freshBase, freshSocket,  \* whether a source has a block not yet told
    scheduled,       \* _blockListenerScheduled
    tx,              \* "pending", "mined" in the latest block, "visible" to all
    due,             \* deferred calls of each listener
    asking,          \* receipts being fetched for each listener
    called,          \* calls made of those that want a receipt
    waiting          \* where each waitForTransaction is

sourceVars == <<onBase, onSocket, socket, orphan, reconnecting, opened>>
chainSideVars == <<tx, freshBase, freshSocket>>
callVars == <<due, asking, called, waiting>>
eventVars == <<listeners, sourceVars, chainSideVars, scheduled, callVars>>

EventInit ==
    /\ listeners = {}
    /\ onBase = 0 /\ onSocket = 0
    /\ socket = "none" /\ orphan = FALSE
    /\ reconnecting = FALSE /\ opened = 0
    /\ tx = "pending" /\ freshBase = TRUE /\ freshSocket = FALSE
    /\ scheduled = FALSE
    /\ due = [k \in Keys |-> 0]
    /\ asking = [k \in ReceiptKeys |-> 0]
    /\ called = [k \in ReceiptKeys |-> 0]
    /\ waiting = [w \in Waiters |-> "idle"]

-----------------------------------------------------------------------------
(* The chain. *)

\* The next block, which may hold the transaction.  By then a receipt of the
\* block before is known to every node.
NextBlock ==
    /\ tx' \in CASE tx = "pending" -> {"pending", "mined"} [] OTHER -> {"visible"}
    /\ freshBase' = TRUE
    /\ freshSocket' = (socket = "open" /\ onSocket > 0)
    /\ UNCHANGED <<listeners, sourceVars, scheduled, callVars>>

\* The nodes behind the load balancer catch up.
NodesAgree ==
    /\ tx = "mined"
    /\ tx' = "visible"
    /\ UNCHANGED <<listeners, sourceVars, freshBase, freshSocket, scheduled, callVars>>

-----------------------------------------------------------------------------
(* The sources. *)

\* _startBlockEvents and _stopBlockEvents.
StartBlockEvents ==
    IF socket = "none" THEN onBase' = More(onBase) /\ UNCHANGED onSocket
    ELSE onSocket' = More(onSocket) /\ UNCHANGED onBase

StopBlockEvents ==
    IF socket = "none" THEN onBase' \in Fewer(onBase) /\ UNCHANGED onSocket
    ELSE onSocket' \in Fewer(onSocket) /\ UNCHANGED onBase

\* openWebSocket.  One that is open is replaced, and goes on by itself.  With
\* listeners, the callback moves from the polling provider to the new socket.
OpenSocket ==
    /\ opened < MaxOpened
    /\ opened' = opened + 1
    /\ socket' = "open"
    /\ orphan' = (orphan \/ socket # "none")
    /\ freshSocket' = FALSE
    /\ IF listeners # {}
       THEN onSocket' = 1 /\ onBase' \in (IF onBase = 0 THEN {0} ELSE Fewer(onBase))
       ELSE onSocket' = 0 /\ UNCHANGED onBase
    /\ UNCHANGED <<listeners, tx, freshBase, scheduled, callVars>>

OpenWebSocket ==
    /\ OpenSocket
    /\ UNCHANGED reconnecting

\* Without the socket the callback goes back to the polling provider.
TakenBack == IF listeners # {} THEN More(onBase) ELSE onBase

CloseSocket ==
    /\ socket' = "none"
    /\ onSocket' = 0
    /\ freshSocket' = FALSE
    /\ onBase' = TakenBack

\* closeWebSocket.  With no socket it does nothing: a reconnection that is
\* scheduled takes place all the same.
CloseWebSocket ==
    /\ socket # "none"
    /\ CloseSocket
    /\ reconnecting' = FALSE
    /\ UNCHANGED <<listeners, orphan, opened, tx, freshBase, scheduled, callVars>>

SocketDrops ==
    /\ socket = "open"
    /\ socket' = "dropped"
    /\ freshSocket' = FALSE
    /\ UNCHANGED <<listeners, onBase, onSocket, orphan, reconnecting, opened,
                   tx, freshBase, scheduled, callVars>>

\* _onWebSocketClose, of the socket or of one that it replaced: the socket in
\* force is closed, and the timer to reconnect set.
OnWebSocketClose ==
    /\ \/ socket = "dropped" /\ UNCHANGED orphan
       \/ orphan /\ orphan' = FALSE
    /\ IF socket = "none" THEN UNCHANGED <<socket, onBase, onSocket, freshSocket>> ELSE CloseSocket
    /\ reconnecting' = TRUE
    /\ UNCHANGED <<listeners, opened, tx, freshBase, scheduled, callVars>>

Reconnect ==
    /\ reconnecting
    /\ reconnecting' = FALSE
    /\ OpenSocket

-----------------------------------------------------------------------------
(* A block is told. *)

\* _onBlock: calls within 50 ms are one.
OnBlock ==
    /\ scheduled' = TRUE
    /\ UNCHANGED <<listeners, sourceVars, tx, callVars>>

BaseTells ==
    /\ onBase > 0 /\ freshBase
    /\ freshBase' = FALSE
    /\ OnBlock
    /\ UNCHANGED freshSocket

SocketTells ==
    /\ socket = "open" /\ onSocket > 0 /\ freshSocket
    /\ freshSocket' = FALSE
    /\ OnBlock
    /\ UNCHANGED freshBase

\* The listeners are called, those of "block" in a timeout of their own, and
\* those that listen once are gone before that.
Dispatch ==
    /\ scheduled
    /\ scheduled' = FALSE
    /\ due' = [k \in Keys |->
                  IF k \in listeners \ ReceiptKeys THEN More(due[k]) ELSE due[k]]
    /\ asking' = [k \in ReceiptKeys |->
                     IF k \in listeners THEN More(asking[k]) ELSE asking[k]]
    /\ listeners' = listeners \ Waiters
    /\ waiting' = [w \in Waiters |->
                      IF w \in listeners THEN "told" ELSE waiting[w]]
    /\ UNCHANGED <<sourceVars, chainSideVars, called>>

\* A deferred call; that of a waiter resolves its promise.
Call(k) ==
    /\ due[k] > 0
    /\ \E n \in Fewer(due[k]) : due' = [due EXCEPT ![k] = n]
    /\ called' = [r \in ReceiptKeys |-> IF r = k THEN More(called[r]) ELSE called[r]]
    /\ waiting' = [w \in Waiters |->
                      IF w = k THEN "asking" ELSE waiting[w]]
    /\ UNCHANGED <<listeners, sourceVars, chainSideVars, scheduled, asking>>

-----------------------------------------------------------------------------
(* Listeners come and go. *)

\* _addBlockListener.
AddListener(k) ==
    /\ listeners' = listeners \cup {k}
    /\ IF listeners = {} THEN StartBlockEvents ELSE UNCHANGED <<onBase, onSocket>>

InUse ==
    listeners \cup {w \in Waiters : waiting[w] # "idle"}
              \cup {k \in ReceiptKeys : asking[k] + due[k] + called[k] > 0}

Room(k) == Cardinality(InUse \cup {k}) <= MaxInUse

RestOfSource == <<socket, orphan, reconnecting, opened>>

On(k) ==
    /\ k \in BlockKeys \ listeners /\ Room(k)
    /\ AddListener(k)
    /\ UNCHANGED <<RestOfSource, chainSideVars, scheduled, callVars>>

\* Mutant: the source is stopped whoever goes.
Whoever(k) == TRUE

LastListener(k) == listeners = {k}

\* _removeBlockListener; a call that is due is made all the same.
Off(k) ==
    /\ k \in listeners \cap BlockKeys
    /\ listeners' = listeners \ {k}
    /\ IF LastListener(k) THEN StopBlockEvents ELSE UNCHANGED <<onBase, onSocket>>
    /\ UNCHANGED <<RestOfSource, chainSideVars, scheduled, callVars>>

\* once(txHash): the receipt is asked for at once, and again at every block.
OnceReceipt(k) ==
    /\ k \in ReceiptKeys \ listeners /\ Room(k)
    /\ called[k] = 0 /\ due[k] = 0
    /\ AddListener(k)
    /\ asking' = [asking EXCEPT ![k] = More(@)]
    /\ UNCHANGED <<RestOfSource, chainSideVars, scheduled, due, called, waiting>>

IsActive(k) == k \in listeners

\* A receipt is answered: null, or one that is passed on if the listener is
\* still there, which removes it.  The callback stays registered.
ReceiptAnswered(k) ==
    /\ asking[k] > 0
    /\ \E n \in Fewer(asking[k]) : asking' = [asking EXCEPT ![k] = n]
    /\ IF tx = "visible" /\ IsActive(k)
       THEN /\ due' = [due EXCEPT ![k] = More(@)]
            /\ listeners' = listeners \ {k}
       ELSE UNCHANGED <<due, listeners>>
    /\ UNCHANGED <<sourceVars, chainSideVars, scheduled, called, waiting>>

WaitForTransaction(w) ==
    /\ waiting[w] = "idle" /\ Room(w)
    /\ waiting' = [waiting EXCEPT ![w] = "asking"]
    /\ UNCHANGED <<listeners, sourceVars, chainSideVars, scheduled, due, asking, called>>

\* The receipt was answered, once the nodes that lag behind the block told
\* were asked again: the wait is over, or the next block is awaited.
TransactionAsked(w) ==
    /\ waiting[w] = "asking"
    /\ waiting' = [waiting EXCEPT ![w] = IF tx = "visible" THEN "done" ELSE "missed"]
    /\ UNCHANGED <<listeners, sourceVars, chainSideVars, scheduled, due, asking, called>>

ListenAgain(w) ==
    /\ waiting[w] = "missed"
    /\ waiting' = [waiting EXCEPT ![w] = "listening"]
    /\ AddListener(w)
    /\ UNCHANGED <<RestOfSource, chainSideVars, scheduled, due, asking, called>>

KeyStep(k) ==
    \/ Call(k) \/ On(k) \/ Off(k) \/ OnceReceipt(k)
    \/ k \in ReceiptKeys /\ ReceiptAnswered(k)
    \/ k \in Waiters /\ (WaitForTransaction(k) \/ TransactionAsked(k) \/ ListenAgain(k))

EventNext ==
    \/ NextBlock \/ NodesAgree
    \/ OpenWebSocket \/ CloseWebSocket \/ SocketDrops \/ OnWebSocketClose \/ Reconnect
    \/ BaseTells \/ SocketTells \/ Dispatch
    \/ \E k \in Keys : KeyStep(k)

\* While anybody listens or waits, blocks follow each other; the source in force
\* tells of them, and a socket that dropped is noticed; timers and deferred
\* calls run; calls are answered.
EventFairness ==
    /\ WF_eventVars(InUse # {} /\ NextBlock) /\ WF_eventVars(OnWebSocketClose)
    /\ WF_eventVars(BaseTells \/ SocketTells) /\ WF_eventVars(Dispatch)
    /\ \A w \in Waiters : WF_eventVars(Call(w))
    /\ \A w \in Waiters : WF_eventVars(TransactionAsked(w)) /\ WF_eventVars(ListenAgain(w))

EventSpec == EventInit /\ [][EventNext]_eventVars /\ EventFairness

-----------------------------------------------------------------------------

\* Whoever listens is heard of by the source in force, through every change of
\* it, although a listener that goes by itself leaves its registration behind.
NeverDeaf == listeners # {} => (IF socket = "none" THEN onBase ELSE onSocket) > 0

\* waitForTransaction ends once the transaction is mined, although a block may
\* come between the question and the listening, and the nodes may disagree.
WaitEnds ==
    \A w \in Waiters : tx # "pending" /\ waiting[w] # "idle" ~> waiting[w] = "done"

=============================================================================
