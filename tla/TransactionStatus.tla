-------------------------- MODULE TransactionStatus --------------------------
(***************************************************************************)
(* The transaction that the front end shows (Transaction.tsx).  There is   *)
(* one status for the whole page.  A modal sends whenever it is asked to,  *)
(* so that sends may overlap; TransactionMonitor waits for the receipt in  *)
(* an effect, which is cleaned up when the transaction or the provider     *)
(* changes, and lets a verdict fade after five seconds.                    *)
(*                                                                         *)
(* The effects of a render are passive (useEffect of React 17): they run   *)
(* in a task of their own, and at the latest before the next render.  A    *)
(* receipt, an answer of the wallet, a timer or a change of provider may   *)
(* come in between.  Its own change of the status is then queued before    *)
(* those that the effects make, and the last one stays.                    *)
(***************************************************************************)
EXTENDS Integers, FiniteSets

CONSTANTS
    Transactions,    \* the sends
    Ids,             \* ids of the buttons that send
    NoTransaction,
    MaxProviders     \* bound on the changes of provider

ASSUME NoTransactionIsNone == NoTransaction \notin Transactions

VARIABLES
    idOf,            \* the id each transaction is sent with
    sent,            \* "unsent", "approving" by the user, or "over"
    status,          \* transactionState: its type, and the transaction
    provider,        \* how often the provider was changed
    mounted,         \* what the monitoring effect was last run for
    monitors,        \* calls of waitForConfirmation
    shown,           \* what the second effect was last run for
    fading           \* whether its timer is set

renderedVars == <<status, mounted, monitors, shown, fading>>
statusVars == <<idOf, sent, provider, renderedVars>>

Idle == [type |-> "idle", tx |-> NoTransaction]
Status(type, t) == [type |-> type, tx |-> t]

Verdicts == {"confirmed", "failed", "cancelled"}

StatusInit ==
    /\ idOf \in [Transactions -> Ids]
    /\ sent = [t \in Transactions |-> "unsent"]
    /\ status = Idle
    /\ provider = 0
    /\ mounted = [tx |-> NoTransaction, provider |-> 0]
    /\ monitors = {}
    /\ shown = [type |-> "idle", id |-> NoTransaction]
    /\ fading = FALSE

-----------------------------------------------------------------------------
(* Effects.  A page is what was rendered last, with what effects left.     *)

Page == [status |-> status, mounted |-> mounted, monitors |-> monitors,
         shown |-> shown, fading |-> fading]

Becomes(p) ==
    /\ status' = p.status
    /\ mounted' = p.mounted
    /\ monitors' = p.monitors
    /\ shown' = p.shown
    /\ fading' = p.fading

\* The transaction that is monitored while its status is shown.
Monitored(s) ==
    [tx |-> IF s.type = "waitingForConfirmation" THEN s.tx ELSE NoTransaction,
     provider |-> provider]

ShownAs(s) ==
    [type |-> s.type, id |-> IF s.type = "idle" THEN NoTransaction ELSE idOf[s.tx]]

MonitorIsDue(p) == p.mounted # Monitored(p.status)
ShownIsDue(p) == p.shown # ShownAs(p.status)

Pending == MonitorIsDue(Page) \/ ShownIsDue(Page)

Monitor(m) == [tx |-> m.tx, provider |-> m.provider, stage |-> "receipt", cancelled |-> FALSE]

\* The monitor that the effect in force began, so long as it has not finished.
Unfinished(p) == {m \in p.monitors : m = Monitor(p.mounted)}

\* Mutant: the monitor is not told.
Untold(p) == p.monitors

Cancelled(p) ==
    (p.monitors \ Unfinished(p)) \cup {[m EXCEPT !.cancelled = TRUE] : m \in Unfinished(p)}

Begun(m) == IF m.tx = NoTransaction THEN {} ELSE {Monitor(m)}

Fades(s) == s.type \in Verdicts

\* The clean-up of the first effect cancels its monitor, unless that has
\* finished; then a monitor is begun for the transaction that was rendered.
\* The second effect sets the timer of a verdict, and its clean-up stops it.
AfterEffects(p) ==
    [p EXCEPT
        !.mounted = Monitored(p.status),
        !.monitors = IF MonitorIsDue(p) THEN Cancelled(p) \cup Begun(Monitored(p.status)) ELSE @,
        !.shown = ShownAs(p.status),
        !.fading = IF ShownIsDue(p) THEN Fades(p.status) ELSE @]

\* The next render: the effects that are due have run.  The clean-up of a
\* monitor that had not finished took the status to idle, and confirmedOneShot
\* was turned into confirmed; else the status is what it was set to.
Render(p, s) ==
    [AfterEffects(p) EXCEPT !.status =
        IF ShownIsDue(p) /\ p.status.type = "confirmedOneShot" THEN Status("confirmed", p.status.tx)
        ELSE IF MonitorIsDue(p) /\ Unfinished(p) # {} THEN Idle
        ELSE s]

RunEffects ==
    /\ Pending
    /\ Becomes(Render(Page, status))
    /\ UNCHANGED <<idOf, sent, provider>>

-----------------------------------------------------------------------------
(* Sending. *)

\* sendTransaction, of a button or of a modal.  React runs the effects that are
\* due before it tells of a click, but not those of the render they lead to.
Send(t) ==
    /\ sent[t] = "unsent"
    /\ sent' = [sent EXCEPT ![t] = "approving"]
    /\ Becomes(Render(Render(Page, status), Status("waitingForApproval", t)))
    /\ UNCHANGED <<idOf, provider>>

\* The wallet answers.  An error without data makes the handler throw, and
\* the status stays.
Approved(t) ==
    /\ sent[t] = "approving"
    /\ sent' = [sent EXCEPT ![t] = "over"]
    /\ \/ \E type \in {"waitingForConfirmation", "cancelled", "failed"} :
              Becomes(Render(Page, Status(type, t)))
       \/ UNCHANGED renderedVars
    /\ UNCHANGED <<idOf, provider>>

ChangeProvider ==
    /\ provider < MaxProviders
    /\ provider' = provider + 1
    /\ Becomes(Render(Page, status))
    /\ UNCHANGED <<idOf, sent>>

-----------------------------------------------------------------------------
(* waitForConfirmation. *)

PageWith(m, stage) ==
    [Page EXCEPT !.monitors = (@ \ {m}) \cup {[m EXCEPT !.stage = stage]}]

\* Mutant: another error than a cancellation is only logged.
OnlyCancellations(m) == {Status("cancelled", m.tx), status}

\* What a rejected receipt is shown as.
Errors(m) == {Status("cancelled", m.tx), Status("failed", m.tx)}

\* The receipt of a success, or an error: the monitor has finished.
ReceiptArrives(m) ==
    /\ m.stage = "receipt"
    /\ IF m.cancelled THEN Becomes(PageWith(m, "over"))
       ELSE \E s \in {Status("confirmedOneShot", m.tx)} \cup Errors(m) :
               Becomes(Render(PageWith(m, "over"), s))
    /\ UNCHANGED <<idOf, sent, provider>>

\* The receipt of a failure: the monitor has finished, and asks for the reason.
Reverted(m) ==
    /\ m.stage = "receipt" /\ ~m.cancelled
    /\ Becomes(PageWith(m, "reason"))
    /\ UNCHANGED <<idOf, sent, provider>>

ReasonArrives(m) ==
    /\ m.stage = "reason"
    /\ Becomes(Render(PageWith(m, "over"), Status("failed", m.tx)))
    /\ UNCHANGED <<idOf, sent, provider>>

Fade ==
    /\ fading
    /\ Becomes(Render([Page EXCEPT !.fading = FALSE], Idle))
    /\ UNCHANGED <<idOf, sent, provider>>

MonitorStep == \E m \in monitors : ReceiptArrives(m) \/ Reverted(m) \/ ReasonArrives(m)

StatusNext ==
    \/ RunEffects \/ ChangeProvider \/ Fade \/ MonitorStep
    \/ \E t \in Transactions : Send(t) \/ Approved(t)

\* Effects and timers run; receipts and reasons are answered at last, which is
\* WaitEnds of BlockListeners for the receipts.
StatusFairness ==
    /\ WF_statusVars(RunEffects) /\ WF_statusVars(Fade) /\ WF_statusVars(MonitorStep)

StatusSpec == StatusInit /\ [][StatusNext]_statusVars /\ StatusFairness

-----------------------------------------------------------------------------

\* A transaction is only shown as confirmed by the monitor of the effect in
\* force: once the effects of another send, or of another provider, have run,
\* no late receipt brings it back over what the user sees then.  (Before they
\* have run, one may.)
ConfirmedWasMonitored ==
    [][status'.type = "confirmedOneShot" /\ status # status'
         => /\ mounted.tx = status'.tx
            /\ Pending \/ status = Status("waitingForConfirmation", status'.tx)]_statusVars

\* The page does not wait for a receipt for ever, whatever sends and changes
\* of provider overlap.
ConfirmationEnds ==
    status.type = "waitingForConfirmation" ~> status.type # "waitingForConfirmation"

=============================================================================
