------------------------------ MODULE Controller ------------------------------
(***************************************************************************)
(* The parameters PREONController.sol keeps of the collaterals, and who    *)
(* may change them: the owner at once while the bootstrap lasts, and to    *)
(* shut a collateral down at any time; otherwise only the time locks, by   *)
(* executing a call that was announced.                                    *)
(***************************************************************************)
EXTENDS Timelock, Sequences, SequencesExt

CONSTANTS
    Collaterals,
    Unit,               \* DECIMAL_PRECISION, 100 %
    InitialMaxColls,    \* maxSystemColls
    ThreeDays, TwoWeeks \* the two locks

\* Collaterals are all the addresses that a call may name.
ASSUME CallsTyped ==
    \A call \in Calls :
        /\ call.fn \in {"addCollateral", "unDeprecateCollateral", "changeRatios"} =>
              call.coll \in Collaterals
        /\ call.fn \in {"addCollateral", "changeRatios"} =>
              call.safety \in Nat /\ call.recovery \in Nat

\* [safetyRatio, recoveryRatio, index, active] of the collaterals added.
VARIABLES collateralParams, validCollateral, absorptionColls, maxSystemColls, bootstrapEnded

controllerVars ==
    <<collateralParams, validCollateral, absorptionColls, maxSystemColls, bootstrapEnded>>

BlankParams == [safetyRatio |-> 0, recoveryRatio |-> 0, index |-> 0, active |-> FALSE]

ControllerInit ==
    /\ collateralParams = [c \in Collaterals |-> BlankParams]
    /\ validCollateral = <<>>
    /\ absorptionColls = <<>>
    /\ maxSystemColls = InitialMaxColls
    /\ bootstrapEnded = FALSE

\* _exists: index 0 is also what a collateral never added has.
Exists(c) ==
    /\ validCollateral # <<>>
    /\ validCollateral[1] # c => collateralParams[c].index # 0

\* Mutant: the collateral at index 0 is not looked at.
IndexUnset(c) == validCollateral # <<>> => collateralParams[c].index = 0

NotAdded(c) ==
    validCollateral # <<>> => validCollateral[1] # c /\ collateralParams[c].index = 0

AddCollateral(call) ==
    /\ call.safety * 10 < 11 * Unit
    /\ call.recovery >= call.safety
    /\ Len(validCollateral) < maxSystemColls
    /\ NotAdded(call.coll)
    /\ validCollateral' = Append(validCollateral, call.coll)
    /\ collateralParams' =
          [collateralParams EXCEPT ![call.coll] =
             [safetyRatio |-> call.safety, recoveryRatio |-> call.recovery,
              index |-> Len(validCollateral), active |-> TRUE]]
    /\ UNCHANGED <<absorptionColls, maxSystemColls, bootstrapEnded>>

UnDeprecateCollateral(call) ==
    /\ Exists(call.coll)
    /\ ~ collateralParams[call.coll].active
    /\ collateralParams' = [collateralParams EXCEPT ![call.coll].active = TRUE]
    /\ UNCHANGED <<validCollateral, absorptionColls, maxSystemColls, bootstrapEnded>>

\* recoveryModeAfter: whether the system is in recovery mode at the new ratios.
ChangeRatios(call, recoveryModeAfter) ==
    LET old == collateralParams[call.coll] IN
    /\ Exists(call.coll)
    /\ call.safety * 10 < 11 * Unit
    /\ call.recovery < 2 * Unit
    /\ old.safetyRatio <= call.safety
    /\ call.recovery >= call.safety
    /\ recoveryModeAfter => call.recovery >= old.recoveryRatio
    /\ collateralParams' = [collateralParams EXCEPT ![call.coll].safetyRatio = call.safety,
                                                    ![call.coll].recoveryRatio = call.recovery]
    /\ UNCHANGED <<validCollateral, absorptionColls, maxSystemColls, bootstrapEnded>>

UpdateAbsorptionColls(call) ==
    /\ call.colls # <<>>
    /\ \A i \in DOMAIN call.colls : collateralParams[call.colls[i]].active
    /\ absorptionColls' = call.colls
    /\ UNCHANGED <<collateralParams, validCollateral, maxSystemColls, bootstrapEnded>>

UpdateMaxSystemColls(call) ==
    /\ call.max > Len(validCollateral)
    /\ maxSystemColls' = call.max
    /\ UNCHANGED <<collateralParams, validCollateral, absorptionColls, bootstrapEnded>>

RequiredLock(call) == IF call.fn = "updateMaxSystemColls" THEN {TwoWeeks} ELSE {ThreeDays}

\* The change a call makes, whoever makes it.
Change(call) ==
    \/ call.fn = "addCollateral" /\ AddCollateral(call)
    \/ call.fn = "unDeprecateCollateral" /\ UnDeprecateCollateral(call)
    \/ call.fn = "changeRatios" /\ \E r \in BOOLEAN : ChangeRatios(call, r)
    \/ call.fn = "updateAbsorptionColls" /\ UpdateAbsorptionColls(call)
    \/ call.fn = "updateMaxSystemColls" /\ UpdateMaxSystemColls(call)

\* executeTransaction: the lock's call, with the lock as its sender.
ExecuteTransaction(sender, e) ==
    /\ Release(sender, e)
    /\ bootstrapEnded
    /\ e.lock \in RequiredLock(e.call)
    /\ Change(e.call)

\* Until the bootstrap ends the owner makes the same changes at once.
OwnerChanges(call) ==
    /\ ~ bootstrapEnded
    /\ Change(call)
    /\ UNCHANGED lockVars

EndBootstrap ==
    /\ bootstrapEnded' = TRUE
    /\ UNCHANGED <<collateralParams, validCollateral, absorptionColls, maxSystemColls>>
    /\ UNCHANGED lockVars

DeprecateCollateral(c) ==
    /\ Exists(c)
    /\ collateralParams[c].active
    /\ collateralParams' = [collateralParams EXCEPT ![c].active = FALSE]
    /\ UNCHANGED <<validCollateral, absorptionColls, maxSystemColls, bootstrapEnded>>
    /\ UNCHANGED lockVars

DeprecateAllCollateral ==
    /\ collateralParams' =
          [c \in Collaterals |-> [collateralParams[c] EXCEPT !.active = FALSE]]
    /\ UNCHANGED <<validCollateral, absorptionColls, maxSystemColls, bootstrapEnded>>
    /\ UNCHANGED lockVars

GovernanceInit == LockInit /\ ControllerInit

GovernanceNext ==
    \/ LockStep /\ UNCHANGED controllerVars
    \/ \E sender \in Accounts, e \in queuedTransactions : ExecuteTransaction(sender, e)
    \/ \E call \in Calls : OwnerChanges(call)
    \/ EndBootstrap
    \/ \E c \in Collaterals : DeprecateCollateral(c)
    \/ DeprecateAllCollateral

governanceVars == <<lockVars, controllerVars>>

GovernanceSpec == GovernanceInit /\ [][GovernanceNext]_governanceVars

-----------------------------------------------------------------------------

\* Every collateral added has one slot in validCollateral, and its index says
\* which (the index 0 of the first one is also that of a collateral never
\* added, which addCollateral and _exists tell apart by looking at slot 0).
CollateralIndexed ==
    /\ IsInjective(validCollateral)
    /\ \A i \in DOMAIN validCollateral : collateralParams[validCollateral[i]].index = i - 1

\* What the locks protect: everything but shutting a collateral down.
Protected ==
    <<validCollateral, absorptionColls, maxSystemColls,
      [c \in Collaterals |-> <<collateralParams[c].safetyRatio, collateralParams[c].recoveryRatio>>]>>

Reactivated == \E c \in Collaterals : ~ collateralParams[c].active /\ collateralParams'[c].active

\* After the bootstrap nothing the locks protect changes, and no collateral
\* that was shut down comes back, but by a call that has been standing,
\* uncancelled, for the whole delay of the lock it needs.
DelayRespected ==
    [][bootstrapEnded /\ (Protected' # Protected \/ Reactivated) =>
          \E e \in queuedTransactions :
             /\ lockTime >= announced[e] + MinimumDelay[e.lock]
             /\ maxSystemColls' # maxSystemColls => e.lock = TwoWeeks
             /\ e \notin queuedTransactions']_governanceVars

=============================================================================
