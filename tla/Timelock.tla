------------------------------- MODULE Timelock -------------------------------
(***************************************************************************)
(* Timelock.sol, for every time lock the system deploys (three days, two   *)
(* weeks): the admin of a lock announces a call with the time at which it  *)
(* may be executed, may cancel it, and executes it between that time and   *)
(* the end of the grace period.  What the call does is in the module that  *)
(* models its target.                                                      *)
(***************************************************************************)
EXTENDS Integers, FiniteSets

CONSTANTS
    Locks,
    MinimumDelay,     \* of every lock
    GracePeriod,
    Accounts,         \* who may be the admin of a lock
    Calls,            \* <<_target, value, signature, data>>
    MaxLockTime,      \* bound on the clock
    MaxQueued         \* bound on the calls that stand at once

ASSUME DelaysPositive == MinimumDelay \in [Locks -> Nat \ {0}]

Entries == [lock : Locks, call : Calls, eta : 0..MaxLockTime]

NoAccount == "address(0)"

VARIABLES
    queuedTransactions,
    admin, pendingAdmin,
    lockTime,         \* block.timestamp
    announced         \* history: since when an entry has been standing

lockVars == <<queuedTransactions, admin, pendingAdmin, lockTime, announced>>

LockInit ==
    /\ queuedTransactions = {}
    /\ admin \in [Locks -> Accounts]
    /\ pendingAdmin = [l \in Locks |-> NoAccount]
    /\ lockTime = 0
    /\ announced = <<>>

SetPendingAdmin(sender, l, a) ==
    /\ sender = admin[l]
    /\ pendingAdmin' = [pendingAdmin EXCEPT ![l] = a]
    /\ UNCHANGED <<queuedTransactions, admin, lockTime, announced>>

AcceptAdmin(sender, l) ==
    /\ sender = pendingAdmin[l]
    /\ admin' = [admin EXCEPT ![l] = sender]
    /\ pendingAdmin' = [pendingAdmin EXCEPT ![l] = NoAccount]
    /\ UNCHANGED <<queuedTransactions, lockTime, announced>>

\* Mutant: the time given may be any time to come.
AnyTimeToCome(e) == e.eta >= lockTime

FarEnough(e) == e.eta >= lockTime + MinimumDelay[e.lock]

Since(e) == IF e \in queuedTransactions THEN announced ELSE
    [f \in DOMAIN announced \cup {e} |-> IF f = e THEN lockTime ELSE announced[f]]

QueueTransaction(sender, e) ==
    /\ sender = admin[e.lock]
    /\ FarEnough(e)
    /\ Cardinality(queuedTransactions \cup {e}) <= MaxQueued
    /\ queuedTransactions' = queuedTransactions \cup {e}
    /\ announced' = Since(e)
    /\ UNCHANGED <<admin, pendingAdmin, lockTime>>

Forget(e) == [f \in DOMAIN announced \ {e} |-> announced[f]]

CancelTransaction(sender, e) ==
    /\ sender = admin[e.lock]
    /\ queuedTransactions' = queuedTransactions \ {e}
    /\ announced' = Forget(e)
    /\ UNCHANGED <<admin, pendingAdmin, lockTime>>

Ripe(e) == e \in queuedTransactions /\ e.eta <= lockTime /\ lockTime <= e.eta + GracePeriod

\* The lock's part of executeTransaction: the call itself is conjoined by the
\* module of its target, and reverts the whole transaction when it fails.
Release(sender, e) ==
    /\ sender = admin[e.lock]
    /\ Ripe(e)
    /\ queuedTransactions' = queuedTransactions \ {e}
    /\ announced' = Forget(e)
    /\ UNCHANGED <<admin, pendingAdmin, lockTime>>

LockTick ==
    /\ lockTime < MaxLockTime
    /\ lockTime' = lockTime + 1
    /\ UNCHANGED <<queuedTransactions, admin, pendingAdmin, announced>>

\* The steps that concern the locks alone.
LockStep ==
    \/ \E sender \in Accounts :
          \/ \E l \in Locks :
                \/ \E a \in Accounts : SetPendingAdmin(sender, l, a)
                \/ AcceptAdmin(sender, l)
          \/ \E e \in Entries : QueueTransaction(sender, e)
          \/ \E e \in queuedTransactions : CancelTransaction(sender, e)
    \/ LockTick

=============================================================================
