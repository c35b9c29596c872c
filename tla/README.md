# Preon Finance: a verification development in TLA+

Preon Finance is a borrowing protocol in Solidity, a multi-collateral descendant of Liquity and
Yeti. A borrower locks several collateral tokens in a *trove* and draws the stablecoin STAR against
them. Troves that fall below a minimum ratio are liquidated: the Stability Pool burns STAR against
their debt, and what it cannot take is redistributed to the troves that are left. Anyone may redeem
STAR at face value against the worst collateralised troves.

This directory models the contracts under `packages/contracts/contracts/`, and the part of the
TypeScript client that runs concurrently: the providers, the polled store and the transaction monitor.
Paths below are relative to the directory of the contracts unless they start with `packages/` or end in `.ts` or `.tsx`,
whose names are unique.

## 1. Inventory

| Part | State | Operations | What makes it correct |
|---|---|---|---|
| `BorrowerOperations` | none of its own | open, adjust, close a trove; lever and unlever; fees | an allowed operation leaves ratios where the mode demands; debts, pools and supply move together |
| `TroveManager` | `Troves`, `TroveOwners`, stakes, `L_Coll`, `L_STARDebt`, error terms, system snapshots, `baseRate` | apply rewards, change stakes, redistribute, close, snapshot, batch re-insertion | every redistributed unit is collected at most once, and the DefaultPool can pay it |
| `TroveManagerLiquidations` | none; working totals | `batchLiquidateTroves` in normal and recovery mode | only risky troves are closed; the totals settled are the sum of what was closed |
| `TroveManagerRedemptions` | `baseRate` through TroveManager | redemption over a list of troves, or of one collateral of one trove | no trove is left worse off, nothing is paid beyond what is burnt |
| `SortedTroves` | a doubly linked list, boosts, the under-collateralised registry | insert, remove, re-insert with hints | one sorted list of exactly the open troves, whatever the hints |
| `ActivePool`, `DefaultPool`, `GasPool` | collateral and debt held | receive, send, change debt | cover what the troves are recorded to own |
| `CollSurplusPool` | balances per account, redemption bonus | account, receive, claim | holds what the accounts add up to |
| `StabilityPool` | deposits, P, S, epoch, scale, gains | provide, withdraw, offset, claim | shares add up to the pool; gains are what offsets brought |
| `STARToken` | supply, balances, allowances, cap | mint, burn, transfer, permit | supply is backed by debt |
| `PREONController`, `Timelock` | collateral list and parameters, queued changes | add, deprecate, change parameters, queue, execute, cancel | changes wait; deprecation does not lock troves |
| `ThreePieceWiseLinearFeeCurve`, base rate | last fee and its time | fee of a deposit, decay | fees bounded and monotone between breakpoints |
| `PriceFeed*`, `STARPriceFeed`, `VaultOracle`, `Oracles/` | last good price | fetch | a bad answer is not stored |
| `LPRewards/`, `vePREON*`, emissions | reward-per-token sums, locks | stake, lock, claim | rewards paid never exceed those notified |
| `PREON/`, `TeamAllocation`, lockups | supply, issued total, unlock times | issue, lock, release | issuance below the cap; nothing early |
| `Vaults/` | shares, underlying balance | deposit, withdraw, compound | shares are worth what was put in |
| `HintHelpers`, `MultiTroveGetter`, `Router`, `Lever` | none | views; swaps | - |
| `WebSocketAugmentedProvider` | block listeners, the WebSocket, the timer to reconnect | on, once, off, waitForTransaction; open, close, reconnect | whoever listens is heard of by the source in force; a wait ends |
| `BatchedProvider` | the batch being gathered | call, dispatch | each caller gets its answer, from the block it asked for |
| `LiquityStore`, `BlockPolledLiquityStore`, `LiquityStoreProvider` | base and derived state, fetches, which store is shown | start, stop, fetch, reduce, derive | what is shown is of one block and of the connection in force |
| `Transaction.tsx` | one status for the page | send, monitor, show a verdict | verdicts belong to what was waited for, and end |
| the rest of `packages/lib-*`, `dev-frontend`, `subgraph`, `fuzzer` | - | population of transactions, display | - |

**How they interact.** A user calls one entry point (`BorrowerOperations`, `TroveManager`,
`StabilityPool`, `CollSurplusPool`); it calls the others synchronously, each checking its caller, and
the whole transaction happens or reverts. State shared by several contracts is never locked: the same
fact (a trove's debt, its collateral, its existence) is recorded in three or four of them and kept equal by
every path writing to all. Between transactions anything may happen: prices move, other users'
transactions come first, and position hints or batches computed off chain are stale on arrival.

The client sees the chain through calls that are answered late, out of order or not at all. A block event, which
comes from a WebSocket or from polling, starts a fetch of several awaits in the store; the store tells the page; the page sends
transactions through the wallet and waits for receipts with the help of the same block events.

**What is hard.** In the contracts there are no threads and no messages. The difficulty is in long sequences of legal
transactions by several actors, each of which leaves some record a little different from another:
stakes that change between two redistributions, rounding that accumulates, snapshots of some tokens
and not of others, a batch whose earlier members change the mode its later members are judged in.
In the client it is the usual one of asynchronous programs: state read before an await and used after it, callbacks that
outlive what they were made for, timers that race answers.
Tests of the repository (`packages/contracts/test`) drive one or two such steps; `PROJECT.json` lists
the places as *hazards*, with the properties that watch them, or the reason none does yet.

## 2. Modules

```
 TroveOrder   <--refines--  TroveRegistry = SortedTroves + TroveOwners + their callers
 RewardPool   <--refines--  TroveLedger   = BorrowerOperations + Liquidations + Redemptions
                                                        all on TroveManager
 Controller = parameters on Timelock       FeeCurve    BaseRate    CollateralLists
 StabilityPool                             Farm
 LiquityStore    BlockListeners    TransactionStatus    CallBatches
 DataFacts   FoldFacts   Parts_proofs   TroveRegistry_proofs   TroveBooks_proofs   TroveLedger_proofs
             TroveOutcomes_proofs   PoolAndClient_proofs
```

| Module | Models | Correspondence |
|---|---|---|
| `Addresses` | the constant `Borrowers` that the other modules share | none |
| `TroveOrder` | what SortedTroves promises | one sequence, inserted into by looking at two neighbours; the registry counter |
| `SortedTroves` | `SortedTroves.sol` | `data` is the contract's struct; each internal function is an operator on it; `now` counts units of 7200 minutes |
| `TroveOwners` | the array in TroveManager | swap-with-last removal and `arrayIndex` |
| `TroveRegistry` | list, array and callers | opening, adjusting, closing, partial redemption, the two bot functions, governance of boosts; a list of re-insertions is done one by one |
| `RewardPool` | what redistribution promises | one asset: pool, claims, carried remainder, stakes |
| `TroveManager` | `TroveManager.sol`, pools, supply | the *books*: one record of troves, terms, pools and STAR. Each internal function is an operator from books to books; `Commit` makes a result the next state unless it went below zero, where SafeMath reverts |
| `Liquidations` | `TroveManagerLiquidations.sol`, `offset` | the batch is a fold over the named troves, then the settlement of totals in the code's order |
| `Redemptions` | `TroveManagerRedemptions.sol` | the loop is a fold; the walk over troves is any sequence of active troves, since the list's order may be stale |
| `BorrowerOperations` | `BorrowerOperations.sol`, the doors of StabilityPool and CollSurplusPool | both fees are arguments |
| `TroveLedger` | all of these under one Next | one transaction or price change per step |
| `StabilityPool` | the depositors' shares in `StabilityPool.sol` | the contract's variables, for one collateral; an offset is one action with the error terms, the sum, the product, the scale and the epoch |
| `FeeCurve` | `ThreePieceWiseLinearFeeCurve.sol`, `changeFeeCurve` | the storage of every curve and which one a collateral uses |
| `BaseRate` | `baseRate` in TroveManager and `TroveManagerRedemptions` | one clock in seconds; two history variables count what has decayed |
| `Timelock` | `Timelock.sol` | every lock of the system; a history variable says since when a call has stood |
| `Controller` | `PREONController.sol` | the parameters of the collaterals; an executed call is the lock's step and the change together |
| `CollateralLists` | `checkCollateralListDouble` | one step per iteration of its loops, so that the walk can be reasoned about |
| `Farm` | `LPRewards/Farm.sol` | the contract's variables; history variables of what was emitted and paid |
| `LiquityStore` | `LiquityStore.ts`, `BlockPolledLiquityStore.ts`, `LiquityStoreProvider.tsx` | a fetch records from which block each of its awaits was answered |
| `BlockListeners` | block events of `WebSocketAugmentedProvider.ts` | the listener map, and how often the callback is registered with either source |
| `TransactionStatus` | `Transaction.tsx` | the status, the monitors under way, and what the two effects were last run for |
| `CallBatches` | `BatchedProvider.ts` | the batch being gathered and those under way |
| `DataFacts` | none: lemmas | quotients, sums over finite sets, functions defined by recursion, sequences |
| `FoldFacts` | none: lemmas | a fold over a sequence is what its steps make one after another; the step is the constant operator `Op` |
| `*_proofs` | none: theorems | section 4; each extends the modules it is about or takes instances of them. `Parts_proofs` has a section each for `TroveOrder`, `RewardPool` and `Farm`, the two modules of fees, `Controller` with its lock, and `CollateralLists`; `TroveBooks_proofs` follows the internal functions up to the settlement of a batch, `TroveLedger_proofs` the transactions, `TroveOutcomes_proofs` who is liquidated; `PoolAndClient_proofs` has a section for the Stability Pool and one for three modules of the client |
| `MC*` | instances for TLC | constants, and in `MCParts` and `MCPage` the choice of the part that moves |

`MCParts` and `MCPage` put modules that share no state into one instance: the first state says which of them moves, and
the others stand still. Nothing is lost by that, since no interleaving of theirs can matter.

**Abstractions.** An amount is a small natural number; a bundle of collateral is a function from
tokens to amounts, so the sorted token arrays, their merging and index look-ups are not represented. `Scale` is
DECIMAL_PRECISION for the reward terms and `Percent` for ratios; both are 100 in the runs, which makes
rounding frequent instead of rare. All tokens have the same decimals. STAR holders other than GasPool
and StabilityPool are one; transfers between them (redemption fees, the borrower's split) do
not appear. In the ledger the Stability Pool's deposits are one amount; `StabilityPool` tells depositors apart and leaves the troves out. Routers, levers and wrapped rewards are left out.
Prices are chosen freely among those of the configuration.

Reading of the code that deserves a remark:

* `SetCollAndStake` does not touch the stake of a token that is no longer in the list, and
  `UpdateRewardSnapshots` only sees tokens in the list: this is what the code does (finding 1, and the list after the findings).
* `StabilityPool.offset` returns early when it has nothing to do, and the collateral left over by rounding in a
  full offset stays in ActivePool: `ActiveCollCovers`, a part of `ActivePoolAgrees`, is therefore an inequality.
* `StabilityPool` takes one collateral: the sums of several do not influence each other. The product P of the code has 18 digits and
  is scaled by 9; `parts` uses 16 and 4, in the same relation, `ScaleFactor^2 = Decimals`.
* A gain that spans two changes of scale loses what came after the second one. `GainsKept` says that it never falls, not that it is complete.
* Effects are passive (`useEffect` of React 17): they run in a task of their own after the render, and at the latest before the next render. `TransactionStatus` keeps what was rendered apart
  from what the effects were last run for; a receipt, an answer of the wallet, a timer or a change of provider may come in between, and runs the effects then (`Render`). A click does so too,
  before it is told. In `LiquityStore` an answer may come between the render with a new store and its effect in the same way.
* A block listener that is called once deletes itself without stopping the source, so that registrations accumulate.
  `BlockListeners` counts them (none, one, several) because `off` of ethers removes one of them.
* In a recovery-mode batch the running ratio uses VC, while the mode itself uses RVC; `LiquidationRun` keeps both.

## 3. What is checked

| Run | Instance | Shows |
|---|---|---|
| `registry_links` | 3 borrowers, AICRs 0..3 (0 is rejected), every pair of hints, batches of 2 | links and array are sound; the list and its counter refine `TroveOrder`, which is sorted and exact |
| `registry_boosts` | 2 borrowers, fees, a clock of 2, both parameters governed | the list stays sorted by what was inserted; a boost is worth more only after an adjustment of that trove that pays a fee, and no more than the fee buys |
| `ledger_books` | 3 borrowers, 1 token, 2 prices, batches and walks of 2, 6 steps | debts, collateral, supply, gas reserve and surplus agree; openings and closings keep normal mode; only risky troves are liquidated; redemptions are fair |
| `ledger_rewards` | 3 borrowers, 1 token, 11 steps around liquidations | repeated redistributions implement `RewardPool` for debt and for collateral, so that the DefaultPool can pay all (section 4) |
| `absorption` | 3 tokens, 3 borrowers, a withdrawal of one token in full, 8 steps | debt of an orphaned token is absorbed in full; a liquidation of a trove below MCR never reverts; stakes add up, with those that are left behind |
| `parts` | list: 4 borrowers, 3 keys; rewards: amounts 0..4, Scale 3; curves: 2 of them, 2 configurations; rate: 12 seconds of 3 to the minute; governance: 2 collaterals, 2 locks; lists of up to 3 of 4 tokens; farm: 2 accounts; Stability Pool: 2 depositors of 100, 3 offsets of 5 kinds | the invariants the proofs use, and those of each module that stands alone |
| `page` | 2 connections and chains of 2 and 3 blocks; a listener, a receipt listener and a waiter (two at a time), 2 WebSockets; 2 sends, 2 providers; 3 calls | the store that is shown is current and of the block it names, and is shown at last; nobody who listens goes unheard, waits end, only the monitor in force shows a confirmation, calls are answered at their block |
| `two_tokens_snapshot`, `two_tokens_stake`, `fee_curve`, `store_debt`, `favors_pool` | as small as they can be | the findings, each violated |

**Bounds.** Three borrowers are the fewest with which a liquidation shares something between two
that remain, or closes one while the *last trove* rule still allows it. Six
steps reach: two openings, an adjustment or a deposit, a price drop, a liquidation with offset or redistribution,
and one transaction after it. Eleven steps (with few kinds) reach three redistributions with openings,
closings and top-ups between them, so that errors are carried and stakes are scaled by snapshots more than
once. `MCOpenings` is chosen so that at the low price the ratios fall on both sides of 100%, MCR and CCR, the
system enters recovery mode and leaves it in mid-batch, capped offsets leave a surplus, and one redemption
closes one trove and cuts into the next. `MaxSteps` counts transactions and is a guard of `Next`: the ledger's
runs stop there, which is why they do not check deadlock; those of the registry and of `parts`
do. Symmetry is over borrowers or depositors, which no definition tells apart, and is not used with liveness.

The offsets of the Stability Pool in `parts` are chosen so that one takes a small part of the pool, another nearly all of it and a third
all: three of them cross scales or begin epochs. The pool is worth several times `Decimals` there, as it is in the code: 18 digits against a supply of millions of tokens.
In `parts` the curves have a second piece with a negative intercept, or a third one alone; a lock is given time to announce,
wait, let a call expire and announce again. Lists of three meet in any position. The long chain of `page` has a block in which the debt
alone changes, and one in which all does and a token is listed: three blocks are the fewest with two fetches that overtake each other
after the store is loaded. On it the connection changes once the last block is there, with the fetches of all blocks still under way; on the short
chain, of two blocks, it changes at any time. `page` opens a second WebSocket over the first, which goes on by itself. `MaxInUse` lets two of
the three listeners be in use at a time; every pair occurs. `page` does not check deadlock: its chains, its sends and
its calls end.

The shortest way of `absorption` to a debt that is absorbed beside a stake that was left behind takes seven steps; its bound of eight lets another transaction follow.

**Fairness.** Nothing in the contracts is scheduled, and every transaction may simply never be sent: liveness is stated of the client only.
Weak fairness is asked for what its environment does do: blocks follow each other while anybody listens (`NextBlock`, `NewBlock`), React runs effects, timers fire
(`Dispatch`, `Fade`, `DispatchCalls`, a deferred `Call`), a source that has a block tells of it, a socket that dropped is noticed
(`OnWebSocketClose`; ethers calls `onClose`), and a call that is under way is answered or rejected. Nothing is asked of the user (`Send`, `On`, `Off`, opening and closing the WebSocket), of the wallet
(`Approved`), of the timer to reconnect, nor of a node to reject rather than answer. `Rejected` is possible for every read but those of the last block: a
node that rejects everything for ever shows nothing. That a receipt arrives at last, which `TransactionStatus` assumes, is `WaitEnds` of `BlockListeners`.
In `page` the conditions of the parts are conjoined: what is fair in a part is disabled until that part has moved, so that the condition of one does not bind another.
Only a store has to begin by itself (`RunEffect`, `NewBlock`); `StoresGoOn` asks for `StoreFairness` action by action while the store is the part that moves.

**Mutants.** Every property of a passing run is shown to be breakable: next to a definition stands its
mutant, the definition with a plausible slip (a dropped guard, a missing reset, rounding the wrong way),
and with the mutant in its place the run finds the property violated. Invariants that belong together
(`ActivePoolAgrees`, `ReservesExact`, `RefinesRewardPool`, `VerdictIsRight`) are checked as one conjunction of named parts.

### Findings

The code and its comments disagree in these places; each has a run whose counterexample shows it.

1. `two_tokens_snapshot`. A trove that *adds* a token in `_adjustTrove` gets a stake in it without
   `L_Coll` and `L_STARDebt` being snapshotted (`TroveManager.sol:80` says they are, at the instant
   the stake is made): its first reward is counted from the beginning of time, and DefaultPool may not cover it.
2. `fee_curve`. `adjustParams` makes the third piece start from `m2 * cutoff2 + b2` with `b2` an absolute value: when the second
   piece has a negative intercept the two do not meet at `cutoff2` (`ThreePieceWiseLinearFeeCurve.sol:40` says they do) and the fee jumps up.
3. `store_debt`. `Trove.equals` compares collaterals only, and the store keeps an object that is equal to the new one: when the debt
   alone changed, the state says it is of a block (`BlockPolledLiquityStore.ts:16`) whose debt it does not have.

4. `favors_pool`. `_computeRewardsPerUnitStaked` takes the error of the previous offset off the loss of the next one, although the
   deposits it belongs to have shrunk since: the deposits can come out worth more than the pool, which `StabilityPool.sol:639` says the rounding
   excludes. With the contract's constants, a single deposit of 3,000,000 STAR after offsets of 1,503,807 and 1,447,972 STAR is worth
   1,000,000 wei more than the pool holds, and withdrawing all of it reverts. This was met by a proof that could not be finished: an earlier
   property said that the deposits are covered, every run agreed, and no inductive invariant was to be found, because it is false for pools larger than `Decimals`.
   `DepositsBacked` now says by how much the code can miss, and that is proved.

5. `two_tokens_stake`. With several tokens all troves that hold one may be gone while others exist. When the last of them, which had collected rewards, is
   liquidated and another token absorbs its debt, the token has no stakes left, but what rounding kept in the DefaultPool is in `totalCollateralSnapshot`: `_computeNewStake` reverts
   for every trove that would hold the token, and nobody can open one. The comment at `TroveManager.sol:721` argues that the snapshot would be zero, from there
   being one trove at least; it does not count by token, nor what rounding keeps.

The first three and the last were met by violating a property in a small instance. So were these, which have no run of their own:

* `hasPendingRewards` compares `L_Coll` only; absorbed debt raises `L_STARDebt` alone
  and stays unapplied until some collateral is redistributed. A trove closed meanwhile does not pay it (`TroveManager.sol:614` says what pending rewards are).
* A token withdrawn in full leaves its stake in `stakes` and `totalStakes`, and `_removeStake` misses it (`TroveManager.sol:689`):
  what is redistributed to that stake reaches nobody. `StakesAddUp` counts it, on both sides.
* The total ratio an adjustment is checked with omits the variable deposit fee (`BorrowerOperations.sol:962`).
* `compareMaps` in `LiquityStore.ts` walks the keys of the old map only: when a collateral is listed and no old price changed, the old map is
  kept and the derivation throws with half of the state assigned (`LiquityStore.ts:185` speaks of false positives).
* The monitor of a transaction is cancelled by a passive effect, some time after the render that ends it (`Transaction.tsx:385`). When a modal sends again while the first
  transaction is waited for, a receipt that arrives in that time is shown as `confirmedOneShot` over `waitingForApproval` of the second
  (five states: a send, its approval, another send, the receipt). `ConfirmedWasMonitored` is about what happens once the effects have run.

Noticed while reading and not modelled yet: `updateTroves` passes its two hint arrays swapped
(harmless, since hints are searched from; `registry_*` accepts any hint); `STARToken` compares its cap
before adding the amount. Modelled, and the reason why properties are stated as narrowly as they are: `adjustParams` keeps a negative sign of the old parameters
(`FeeRisesWithShare` is about curves configured once); a monitor that has begun to ask for the revert reason is not cancelled
(`ConfirmedWasMonitored` is about confirmations); `notifyRewardAmount` does not count what it still owes (`EarnedWasEmitted` is about what was emitted, not about what is held).

`DefaultPoolCovers`, `RiskyIsLiquidatable` and `OpenAndCloseKeepNormalMode` pass because the operations that break
them are not offered in their runs: an adjustment that adds a token (finding 1), or one with a variable fee. The one adjustment of `absorption` withdraws a token in full.

## 4. What is proved

TLAPS proves these for every value of the constants that the named assumptions of the modules allow; the runs above check the same
definitions on instances, and evaluate the assumptions.

| Theorem | States | Assumes |
|---|---|---|
| `Parts_proofs!OrderSorted` | the abstract sequence is sorted and free of repetitions | finitely many borrowers, positive keys |
| `Parts_proofs!RegistryCorrect` | the registry counter is the number of reported, listed troves | same |
| `TroveRegistry_proofs!ListStaysLinked` | the two link directions are one list of the active troves, whatever the hints (`WellLinked`) | natural numbers, finitely many fees and factors, `address(0)` is no borrower |
| `TroveRegistry_proofs!ListAndOwnersAgree`, `OwnersStayIndexed` | list, array and indexes name the same troves | same |
| `TroveRegistry_proofs!ListStaysSorted` | the keys of the last insertion descend along the list | same |
| `TroveRegistry_proofs!ListImplementsOrder` | the registry implements `TroveOrder` (`RefinesTroveOrder`) | same |
| `TroveRegistry_proofs!BoostsAreBought` | a boost is worth more only after an adjustment of that trove that pays a fee, and at most what the fee buys | same |
| `TroveRegistry_proofs!OwnersNeverEmptied` | the last trove stays | none |
| `Parts_proofs!PoolAlwaysCovers` | `claims + error <= Scale * pool` | `Scale > 0`, natural amounts |
| `Parts_proofs!NoUnderflow` | no payment exceeds the pool | same |
| `Parts_proofs!FarmPaysWhatItEmits` | what accounts were paid and are owed was emitted | finitely many accounts, natural amounts, positive unit |
| `TroveLedger_proofs!LedgerTyped` | every amount of the ledger stays a natural number (`TypeOK`) | `LedgerAssumption`, `InputsAssumption`, finitely many borrowers |
| `TroveLedger_proofs!ActivePoolAlwaysAgrees` | the ActivePool's debt is the sum of the troves', its collateral covers theirs | same |
| `TroveLedger_proofs!SupplyAlwaysBacked` | no STAR beyond the initial mint is without a debt | same |
| `TroveLedger_proofs!ReservesAlwaysExact` | the GasPool holds one compensation per active trove, CollSurplusPool what its accounts are owed | same |
| `TroveLedger_proofs!StakesAlwaysAddUp` | the total a redistribution divides by is the sum of the stakes, with those left behind (`StakesAddUp`) | same |
| `TroveOutcomes_proofs!OnlyRiskyAreLiquidated` | what is liquidated was below MCR, or below CCR in recovery mode, when the batch began (`LiquidatedWereRisky`) | same |
| `TroveLedger_proofs!LedgerInvariant`, `RedemptionKeeps`, `TroveBooks_proofs!RunKeeps`, `Settled` | the inductive invariant, and what it becomes inside a redemption, a batch, and after the batch's settlement | same |
| `PoolAndClient_proofs!DepositsAreBacked` | deposits are worth no more than the pool, but for one part in `Decimals` per offset | finitely many depositors, natural amounts, positive precision and scale factor |
| `PoolAndClient_proofs!PoolTyped`, `LossAlwaysComputable` | amounts stay natural; a compounded deposit never exceeds the initial one | same |
| `PoolAndClient_proofs!GainsAreByShare`, `GainsAreKept` | an offset credits a depositor at most by share; only the owner lowers a gain | same |
| `Parts_proofs!CollateralAlwaysIndexed` | every added collateral has one slot, and its index is that slot | none beyond typed calls |
| `Parts_proofs!DelayAlwaysRespected` | nothing the locks guard changes without its delay | same |
| `Parts_proofs!AcceptedListsAreProper` | accepted lists are increasing, disjoint, of existing and (deposits) active collateral | indices are injective on collateral |
| `Parts_proofs!RejectedListsAreImproper`, `ListsDecided` | rejected lists are not; the verdict is right | same |
| `Parts_proofs!RateDecaysInTime` | decay since the last redemption is at least half of the time passed, never a minute ahead | a minute is positive |
| `Parts_proofs!FeesRise` | the fee of a curve configured once does not fall as the share of the system grows | natural parameters, positive precision |
| `Parts_proofs!FloorStands` | nothing lowers what is left of the last fee at a later time | same |
| `PoolAndClient_proofs!ShownStoreIsCurrent`, `CollateralIsOfItsBlock` | what is shown is of the connection in force, its collateral of the block it names | none |
| `PoolAndClient_proofs!ListenersAreHeard` | whoever listens for blocks is registered with the source in force | none |
| `PoolAndClient_proofs!ConfirmedByMonitorInForce` | only the monitor of the effect in force shows a confirmation, and over another status only before the effects of the last render | the marker for no transaction is none |

*Order.* An insertion compares the new key with its two neighbours only. That the whole sequence stays
sorted needs that it was sorted (neighbours bound everything beyond them) and that no trove occurs twice (else writing its key would
disturb another place). The inductive invariant `OrderInv` is the conjunction of the type, `NoRepetition`,
`Descending` and `RegistryExact`; lemmas state what `InsertAt` and `RemoveAt` do point by point.

*Registry.* `Linked(d, s)` says that the contract's struct `d` is the list of the sequence `s`: both directions of the links, head, tail and
size, and all-zero nodes elsewhere. Its consequences carry the proof. A pair that `ValidInsertPosition` accepts is a gap of `s` into which the key fits. So
is what `DescendList` and `AscendList` return, from any start: they follow links to the last node that is too large (too small), and a
walk along a list ends (`FollowsEnds`); with hints that the code has verified, or dropped, the node before the start is not passed by.
Linking there gives the list of `InsertAt(s, k + 1, id)`, unlinking the list of `RemoveAt(s, i)`, in each of the four cases of the code. The invariant
`RegInv` says that the nodes are linked in the order of the walk and descend in their keys, that the listed troves are the active ones and as many as the array holds,
that the array's indexes are exact (`OwnersInv`: removal moves the last owner into the hole) and that boosts and clocks are bounded. One lemma per action
shows three things at once: it keeps `RegInv`, it is a step of the abstract sequence or none, and it makes no boost worth more, unless it is an adjustment that
pays for it. The last one needs that a decayed boost is what `ReInsert` writes, that powers grow, and that a weighted mean lies between its ends.

*Rewards.* The bound on the pool is not inductive without the carried remainder: after a redistribution
`PerUnit * stakes + remainder = amount * Scale + old remainder`, so the division's loss must be counted on the left-hand side. With
`error` in the sum each redistribution adds the same to both sides, and each payment, rounded down, takes at most as
much from the pool as from the claims. `ledger_rewards` shows that the two kinds of rewards in the contracts implement `RewardPool`
when there is one token, so the theorem explains why the DefaultPool never underflows there. In the farm, `FarmInv` keeps what an account is owed in
fractions of a unit, which no rounding touches; a second adds the rate to what was emitted and to the sum over accounts at most that.

*Ledger.* Between transactions `Sound` holds of the books: they are typed, the totals of the stakes are their sums, no snapshot is ahead of its term, and
a trove is active exactly if its debt is at least the gas compensation and the least net debt, else it has none. That the pools agree with the troves is
not inductive within a transaction: inside the loop of a batch, troves are closed whose debt is still in the ActivePool, and in a redemption the troves are
cut before anything is paid. `Accounts(s, d, g, c, u)` therefore says that the pools of the books `s` agree with the troves up to amounts in transit: debt, gas
compensations, collateral and surplus. `RunInv` says that a batch's running totals are exactly these amounts; it holds when the loop begins with nothing in transit, every
way of closing a trove adds the same to the totals and to what is missing (`ClosesKeeps`), and the settlement moves what the totals say, so that nothing is in transit
at the end (`Settled`). The redemption's loop is the same with its own totals. The loops are folds, of which `FoldFacts` says that what each turn keeps
holds at the end; a step of a fold there is a constant operator, so that the lemma is proved once and instantiated. A pool may be below zero on the way in the model: subtractions that
underflow revert in the code, and `Commit` demands `NoUnderflow` of the result, which is where `TypeOK` comes from.

*Who is liquidated.* A batch judges its later troves after it has closed the earlier ones. The terms of the rewards do not move before the settlement, so the
ratio that is looked at is the one of the beginning (`Judged`). In normal mode that is all. In recovery mode, a trove between MCR and CCR is taken only if its ratio is no more than its AICR, which is
below the running ratio of the system, while that is below CCR; the running amounts start from VC, which is at most RVC, the value that decides the mode (`InMode`, `BeginsInMode`), so that the
system was in recovery mode when the batch began. The running subtractions revert below zero, without which a negative total would compare as a low ratio. A trove below MCR
needs nothing more. Every other operation leaves no trove `closedByLiquidation` that was not (`Spared`).

*Stability Pool.* `SPInv` relates a snapshot to the present P, scale and epoch; that a loss is computable follows. For the sum of the deposits,
`BackedInv` claims that bounds exist, one per depositor, fractions that no rounding has touched: a depositor's operation changes one of them, and an offset multiplies all by
what is left of a unit. The error an offset carries over is paid for in their sum, where the slack of `DepositsBacked` comes from. Gains follow from
`FutureEmpty` (no place that has not been reached holds a gain) and from an offset crediting the present place only.

*Governance.* A collateral that is added is in no slot yet: those in other slots than the first have an index that is not 0, and slot 0 is
looked at. `LockInv` says that a queued call was announced a delay before its time, even if the lock changed hands since; every change after the
bootstrap executes a queued call. The walk of `checkCollateralListDouble` compares an element with its predecessor and with the one the other list has reached. Its
invariant says that all that was looked at in one list, but its last element, is behind the other list's last index, so that no two elements looked at are
equal. The comment after the loop in the code (`PREONController.sol:825`) argues the same. Index 0, which the first collateral shares with everything never
added, needs the injectivity that `CollateralIndexed` states.

*Fees.* The time of the last fee operation lags behind the operations, by less than a minute at each one that moved it; `RateInv`
bounds both ways what was applied up to that time. The factor two is real: an operation just short of two minutes applies one. A curve
rises along each piece, and at a cutoff the next piece starts no lower (`ConfiguredRises`): the wrong sign of finding 2 can only make the fee jump up. The floor is lowered by
nothing because whatever restarts the decay restarts it from a fee that is at least what was left, and leaves no less at any later time (`RestartedDecay`).

*Client.* The store: the only one with the callback is the one whose effect is in force. The listeners: how often the callback is registered with either source is counted,
and the count is not zero where somebody must hear. The status: the only monitor that may still report a receipt is the one the effect in force began, and
once no effect is due the status is the one that effect was run for.

*Sums, powers, links.* These are recursive functions. What holds of all of them is proved without induction over an operator: if it failed somewhere there would be a least
argument at which it fails, and the one before gives a contradiction (`DataFacts`).

Only model-checked, of the ledger:

* `DefaultPoolCovers` and `RiskyIsLiquidatable`. With several tokens and all operations they are false (finding 1 and the list after the
  findings); they hold where the runs leave out what breaks them, and a theorem would have to assume that.
* `OpenAndCloseKeepNormalMode` and `RedemptionIsFair`. Both compare sums of prices times amounts that are rounded token by token; they are checked for one token.
* `RefinesRewardPool`, which is about one token. The theorem `PoolAlwaysCovers` about `RewardPool` is for all constants, its link to the ledger is checked on instances.

Of the rest: that each call of a batch is answered at its block (`CallBatches`), which is a liveness property like those of the client under
fairness and out of the prover's reach; and what a recursive definition such as `Squaring` computes for every input.

The theorems of the ledger assume `InputsAssumption` and `LedgerAssumption` as the modules state them, among them that a token is listed once as an absorption collateral:
`updateAbsorptionColls` of the controller does not look for repetitions, and its owner has to.

## 5. What is not modelled, and why

The components with status `not_modelled` or `partly` in `PROJECT.json` say what and why. In short: price feeds and routers
talk to outside systems and are covered by arbitrary prices and amounts; views have no state; libraries
are vendored; `vePREON.sol`, `vePREONEmissions.sol` and the contract of `PREON/CommunityIssuance.sol` are commented out; vaults are mostly the external protocols they call;
the readers and populators of the client compute one call from another and keep no state. By lines most of the repository's JavaScript and
TypeScript is lists of accounts, icons, generated artefacts, tests and views, which have no behaviour to model.

Of `WebSocketAugmentedProvider` the listeners `on(hash)` and `once("block")` of other code than `waitForTransaction` are left out (they differ in when they go), and so
are confirmations above one. Of `LiquityStore` the notification of subscribers is left out: hooks render what the store has.

## 6. Plan

Done: the registry (`SortedTroves`, `TroveOwners`, `TroveRegistry`, `TroveOrder`); the ledger (`TroveManager`, `Liquidations`, `Redemptions`,
`BorrowerOperations`, `TroveLedger`, `RewardPool`); `StabilityPool`; governance (`Timelock`, `Controller`); `BaseRate`, `FeeCurve`,
`CollateralLists`, `Farm`; the client (`LiquityStore`, `BlockListeners`, `TransactionStatus`, `CallBatches`).

Proved: the parts in section 4; of the ledger the invariants about debts, reserves, supply and types, and who is liquidated.

Worth proving next: that `TroveLedger` implements `RewardPool` when there is one token, from which `DefaultPoolCovers` follows for it;
`OpenAndCloseKeepNormalMode`, from a bound on what rounding per token takes from a sum.

To model, if the code changes that way: the redemption bonus of `CollSurplusPool`, the cap and minters of STAR, lever paths, `BoostedFarm`.
