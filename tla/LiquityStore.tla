---------------------------- MODULE LiquityStore ----------------------------
(***************************************************************************)
(* What the front end knows of the contracts.  A BlockPolledLiquityStore   *)
(* reads their state when it is started and again at every block, in       *)
(* several awaits, so that answers of two blocks may come in any order.    *)
(* LiquityStore reduces each answer into the state it keeps, and           *)
(* LiquityStoreProvider shows a store once it is loaded, and replaces it   *)
(* when the wallet's connection changes.                                   *)
(***************************************************************************)
EXTENDS Integers, FiniteSets

CONSTANTS
    Stores,      \* one for each connection
    NoStore,     \* undefined
    Chains       \* sequences of the contracts' states, block by block

\* A state of the contracts: the user's trove, the listed collaterals with
\* their prices.
ASSUME ChainsOfStates ==
    \A c \in Chains : \A b \in DOMAIN c :
        {"coll", "debt", "prices"} \subseteq DOMAIN c[b]

VARIABLES
    chain, head,            \* the chain, and its latest block
    prop,                   \* the store the provider is rendered with
    effect,                 \* the store its effect was last run for
    loadedStore,            \* the store its children see
    onLoaded,               \* stores with the onLoaded callback
    started,                \* stores that were started
    heard,                  \* the block each store last heard of
    fetches,                \* calls of _get under way
    loaded, base, extra,    \* _loaded, _baseState and _extraState
    timer                   \* stores with an update scheduled

chainVars == <<chain, head>>
providerVars == <<prop, effect, loadedStore, onLoaded>>
stateVars == <<loaded, base, extra, timer>>
storeVars == <<chainVars, providerVars, stateVars, started, heard, fetches>>

Unread == 0

\* A call of _get: the blocks that its awaits have read.  What is read at the
\* block of the call is read at that block, whenever the answer comes.
Fetch(tag) == [tag |-> tag, whitelist |-> tag, timestamp |-> tag, total |-> Unread, rest |-> Unread]

Untagged == 0

NoBase == [coll |-> 0, debt |-> 0, total |-> {}, prices |-> <<>>, ratios |-> {}]

StoreInit ==
    /\ chain \in Chains
    /\ head = 1
    /\ prop \in Stores
    /\ effect = NoStore /\ loadedStore = NoStore
    /\ onLoaded = {} /\ started = {} /\ loaded = {} /\ timer = {}
    /\ heard = [s \in Stores |-> 0]
    /\ fetches = [s \in Stores |-> {}]
    /\ base = [s \in Stores |-> NoBase]
    /\ extra = [s \in Stores |-> [blockTag |-> Untagged, blockTimestamp |-> 0]]

LastBlock == Cardinality(DOMAIN chain)

NewBlock ==
    /\ head < LastBlock
    /\ head' = head + 1
    /\ UNCHANGED <<chain, providerVars, stateVars, started, heard, fetches>>

-----------------------------------------------------------------------------
(* LiquityStoreProvider. *)

\* The connection changed: the provider is rendered with a new store.
ChangeStore(s) ==
    /\ s # prop /\ s \notin started
    /\ prop' = s
    /\ UNCHANGED <<chainVars, effect, loadedStore, onLoaded, stateVars, started, heard, fetches>>

\* Mutant: the store that is let go keeps its callback.
StillAttached(old, new) == onLoaded \cup {new}

Attached(old, new) == (onLoaded \ {old}) \cup {new}

\* React runs the effect after the render: the clean-up of the old store, then
\* the start of the new one.
RunEffect ==
    /\ effect # prop
    /\ effect' = prop
    /\ onLoaded' = Attached(effect, prop)
    /\ loadedStore' = NoStore
    /\ timer' = timer \ {effect}
    /\ started' = started \cup {prop}
    /\ heard' = [heard EXCEPT ![prop] = head]
    /\ fetches' = [fetches EXCEPT ![prop] = @ \cup {Fetch(Untagged)}]
    /\ UNCHANGED <<chainVars, prop, loaded, base, extra>>

-----------------------------------------------------------------------------
(* BlockPolledLiquityStore. *)

\* The provider tells of the latest block; blocks between may go unheard.
BlockListener(s) ==
    /\ s = effect
    /\ heard[s] < head
    /\ heard' = [heard EXCEPT ![s] = head]
    /\ fetches' = [fetches EXCEPT ![s] = @ \cup {Fetch(head)}]
    /\ UNCHANGED <<chainVars, providerVars, stateVars, started>>

\* The next of the awaits in _get is answered with the latest state.
ReadNext(f) ==
    CASE f.whitelist = Unread -> [f EXCEPT !.whitelist = head]
      [] f.whitelist # Unread /\ f.timestamp = Unread -> [f EXCEPT !.timestamp = head]
      [] f.timestamp # Unread /\ f.total = Unread -> [f EXCEPT !.total = head]
      [] OTHER -> [f EXCEPT !.rest = head]

Read(s, f) ==
    /\ f.rest = Unread
    /\ fetches' = [fetches EXCEPT ![s] = (@ \ {f}) \cup {ReadNext(f)}]
    /\ UNCHANGED <<chainVars, providerVars, stateVars, started, heard>>

\* A read is rejected, and _get with it; nobody tries again.
Rejected(s, f) ==
    /\ head < LastBlock
    /\ fetches' = [fetches EXCEPT ![s] = @ \ {f}]
    /\ UNCHANGED <<chainVars, providerVars, stateVars, started, heard>>

\* Mutant: the block of the call is not passed on to what reads the trove.
LatestBlock(f) == f.rest

TroveBlock(f) == IF f.tag = Untagged THEN f.rest ELSE f.tag

\* The user's trove is read at the block of the call, the tokens of `total`
\* and the prices at the latest; prices and ratios are asked for the tokens of
\* the whitelist.
Answered(f) ==
    LET listed == DOMAIN chain[f.whitelist].prices
        trove == chain[TroveBlock(f)] IN
    [coll |-> trove.coll, debt |-> trove.debt,
     total |-> DOMAIN chain[f.total].prices,
     prices |-> [t \in listed |-> chain[f.rest].prices[t]],
     ratios |-> listed]

ExtraOf(f) == [blockTag |-> f.tag, blockTimestamp |-> f.timestamp]

-----------------------------------------------------------------------------
(* LiquityStore. *)

\* compareMaps walks the keys of the old map only, oldest listing first.
SamePrices(old, new) ==
    \A t \in DOMAIN old.prices \cap DOMAIN new.prices : old.prices[t] = new.prices[t]

\* Unless it found a difference before, it throws at a key the new map lacks.
\* The ratios of a token do not change here.
Throws(old, new) ==
    \/ ~ (old.ratios \subseteq new.ratios)
    \/ SamePrices(old, new) /\ ~ (DOMAIN old.prices \subseteq DOMAIN new.prices)

\* _reduce.  Trove.equals looks at the collateral and not at the debt.
Reduced(old, new) ==
    [coll |-> new.coll,
     debt |-> IF old.coll = new.coll THEN old.debt ELSE new.debt,
     total |-> new.total,
     prices |-> IF SamePrices(old, new) THEN old.prices ELSE new.prices,
     ratios |-> old.ratios]

\* _derive multiplies every collateral of `total` by its price and its ratio,
\* and throws if one is undefined.
Derivable(b) == b.total \subseteq DOMAIN b.prices \cap b.ratios

\* What is reduced or loaded before _derive throws stays.
Settle(s, b, f) ==
    /\ base' = [base EXCEPT ![s] = b]
    /\ IF Derivable(b)
       THEN /\ extra' = [extra EXCEPT ![s] = ExtraOf(f)]
            /\ timer' = timer \cup {s}
       ELSE UNCHANGED <<extra, timer>>

Load(s, f) ==
    /\ Settle(s, Answered(f), f)
    /\ IF Derivable(Answered(f))
       THEN /\ loaded' = loaded \cup {s}
            /\ loadedStore' = IF s \in onLoaded THEN s ELSE loadedStore
       ELSE UNCHANGED <<loaded, loadedStore>>
    /\ UNCHANGED <<prop, effect, onLoaded>>

Update(s, f) ==
    /\ IF Throws(base[s], Answered(f)) THEN UNCHANGED <<base, extra, timer>>
       ELSE Settle(s, Reduced(base[s], Answered(f)), f)
    /\ UNCHANGED <<loaded, providerVars>>

Ignore == UNCHANGED <<stateVars, providerVars>>

\* Mutant: a block that is answered before the store is loaded is not used.
OnlyInitialLoads(s, f) ==
    IF s \in loaded THEN IF f.tag = Untagged THEN Ignore ELSE Update(s, f)
    ELSE IF f.tag = Untagged THEN Load(s, f) ELSE Ignore

\* The initial answer loads the store, and is ignored if a block's came first.
Use(s, f) ==
    IF s \notin loaded THEN Load(s, f)
    ELSE IF f.tag = Untagged THEN Ignore ELSE Update(s, f)

Answer(s, f) ==
    /\ f.rest # Unread
    /\ fetches' = [fetches EXCEPT ![s] = @ \ {f}]
    /\ Use(s, f)
    /\ UNCHANGED <<chainVars, started, heard>>

\* 30 seconds without an answer: the state is derived again, and the next
\* update scheduled unless that throws.
Timeout(s) ==
    /\ s \in timer
    /\ timer' = IF Derivable(base[s]) THEN timer ELSE timer \ {s}
    /\ UNCHANGED <<chainVars, providerVars, loaded, base, extra, started, heard, fetches>>

StoreStep(s) ==
    \/ BlockListener(s) \/ Timeout(s)
    \/ \E f \in fetches[s] : Read(s, f) \/ Rejected(s, f) \/ Answer(s, f)

StoreNext ==
    \/ NewBlock \/ RunEffect
    \/ \E s \in Stores : ChangeStore(s) \/ StoreStep(s)

\* Blocks follow each other, effects run, and a call is answered or rejected.
StoreFairness ==
    /\ WF_storeVars(NewBlock)
    /\ WF_storeVars(RunEffect)
    /\ \A s \in Stores :
        /\ WF_storeVars(BlockListener(s))
        /\ WF_storeVars(\E f \in fetches[s] : Read(s, f) \/ Answer(s, f))

StoreSpec == StoreInit /\ [][StoreNext]_storeVars /\ StoreFairness

-----------------------------------------------------------------------------

\* The children see a loaded store, and only the one whose effect is in force:
\* an answer to a store that was let go never brings it back.
ShownIsCurrent == loadedStore # NoStore => loadedStore \in loaded /\ loadedStore = effect

\* The trove is of the block that the state is said to be fetched from, in
\* whatever order the answers came, so long as the state could be derived.
CollateralOfItsBlock ==
    \A s \in loaded :
        Derivable(base[s]) /\ extra[s].blockTag # Untagged
            => base[s].coll = chain[extra[s].blockTag].coll

\* Once a store was mounted, the one in force is shown at last, however often
\* it was replaced and whatever reads were rejected on the way.
ShownAtLast == effect # NoStore ~> loadedStore = effect

\* "Number of block that the store state was fetched from": so is the debt.
DebtOfItsBlock ==
    \A s \in loaded :
        Derivable(base[s]) /\ extra[s].blockTag # Untagged
            => base[s].debt = chain[extra[s].blockTag].debt

=============================================================================
