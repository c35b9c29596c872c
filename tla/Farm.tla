-------------------------------- MODULE Farm --------------------------------
(***************************************************************************)
(* LPRewards/Farm.sol.  The owner sets a rate and a period; the PREON of   *)
(* every second is shared among the LP tokens staked in it.  A running     *)
(* sum says what one token has earned since the beginning, and every       *)
(* account is settled against it before its balance changes.               *)
(***************************************************************************)
EXTENDS Integers, FiniteSets, FiniteSetsExt, Functions

CONSTANTS
    Farmers,
    FarmUnit,        \* 1e18, the unit of the running sum
    LPAmounts,       \* amounts staked and withdrawn
    Programmes,      \* [reward, duration] that the owner notifies
    FarmFunds,       \* PREON sent to the contract
    MaxLP,           \* bound on the tokens staked by one account
    MaxFarmTime      \* bound on the clock

ASSUME FarmUnitPositive == FarmUnit \in Nat \ {0}
ASSUME FarmAmountsNat ==
    LPAmounts \subseteq Nat /\ FarmFunds \subseteq Nat /\ MaxFarmTime \in Nat
ASSUME ProgrammesNat == Programmes \subseteq [reward : Nat, duration : Nat]
ASSUME FarmersFinite == IsFiniteSet(Farmers)

VARIABLES
    staked,                   \* _balances
    rewardRate, periodFinish, lastUpdateTime,
    rewardPerTokenStored,
    userRewardPerTokenPaid,
    settled,                  \* rewards
    preonHeld,                \* preonToken.balanceOf(farm)
    farmTime,                 \* block.timestamp
    emitted, paidOut          \* history: PREON emitted by the seconds, and paid

periodVars == <<rewardRate, periodFinish>>
sumVars == <<lastUpdateTime, rewardPerTokenStored, userRewardPerTokenPaid>>
farmVars == <<staked, periodVars, sumVars, settled, preonHeld, farmTime, emitted, paidOut>>

FarmInit ==
    /\ staked = [a \in Farmers |-> 0]
    /\ rewardRate = 0 /\ periodFinish = 0 /\ lastUpdateTime = 0
    /\ rewardPerTokenStored = 0
    /\ userRewardPerTokenPaid = [a \in Farmers |-> 0]
    /\ settled = [a \in Farmers |-> 0]
    /\ preonHeld \in FarmFunds
    /\ farmTime = 0 /\ emitted = 0 /\ paidOut = 0

TotalStaked == FoldFunction(+, 0, staked)

LastTimeRewardApplicable == IF farmTime < periodFinish THEN farmTime ELSE periodFinish

\* While nothing is staked the sum stands still, and what is emitted is lost.
RewardPerToken ==
    IF TotalStaked = 0 THEN rewardPerTokenStored
    ELSE rewardPerTokenStored +
           ((LastTimeRewardApplicable - lastUpdateTime) * rewardRate * FarmUnit) \div TotalStaked

Earned(a) ==
    (staked[a] * (RewardPerToken - userRewardPerTokenPaid[a])) \div FarmUnit + settled[a]

\* Mutant: the account keeps the mark of its first stake.
Unmarked(a) == userRewardPerTokenPaid

Marked(a) == [userRewardPerTokenPaid EXCEPT ![a] = RewardPerToken]

\* The modifier updateReward, which leaves `reward` of what a has earned.
UpdateReward(a, reward) ==
    /\ rewardPerTokenStored' = RewardPerToken
    /\ lastUpdateTime' = LastTimeRewardApplicable
    /\ settled' = [settled EXCEPT ![a] = reward]
    /\ userRewardPerTokenPaid' = Marked(a)

Stake(a, n) ==
    /\ n > 0 /\ staked[a] + n <= MaxLP
    /\ UpdateReward(a, Earned(a))
    /\ staked' = [staked EXCEPT ![a] = @ + n]
    /\ UNCHANGED <<periodVars, preonHeld, farmTime, emitted, paidOut>>

Withdraw(a, n) ==
    /\ n > 0 /\ n <= staked[a]
    /\ UpdateReward(a, Earned(a))
    /\ staked' = [staked EXCEPT ![a] = @ - n]
    /\ UNCHANGED <<periodVars, preonHeld, farmTime, emitted, paidOut>>

\* The transfer fails, and all with it, if the farm does not hold the reward.
Pay(a) ==
    /\ Earned(a) <= preonHeld
    /\ UpdateReward(a, 0)
    /\ preonHeld' = preonHeld - Earned(a)
    /\ paidOut' = paidOut + Earned(a)
    /\ UNCHANGED <<periodVars, farmTime, emitted>>

GetReward(a) == Pay(a) /\ UNCHANGED staked

\* withdraw and getReward in one: what is withdrawn has been settled before.
Exit(a) ==
    /\ staked[a] > 0
    /\ Pay(a)
    /\ staked' = [staked EXCEPT ![a] = 0]

\* The farm has to hold the new reward; what it still owes is not counted.
NotifyRewardAmount(p) ==
    /\ preonHeld >= p.reward
    /\ p.duration # 0
    /\ rewardPerTokenStored' = RewardPerToken
    /\ rewardRate' = p.reward \div p.duration
    /\ lastUpdateTime' = farmTime
    /\ periodFinish' = farmTime + p.duration
    /\ UNCHANGED <<staked, userRewardPerTokenPaid, settled, preonHeld, farmTime, emitted, paidOut>>

FarmTick ==
    /\ farmTime < MaxFarmTime
    /\ farmTime' = farmTime + 1
    /\ emitted' = IF farmTime < periodFinish THEN emitted + rewardRate ELSE emitted
    /\ UNCHANGED <<staked, periodVars, sumVars, settled, preonHeld, paidOut>>

FarmNext ==
    \/ FarmTick
    \/ \E p \in Programmes : NotifyRewardAmount(p)
    \/ \E a \in Farmers :
        \/ GetReward(a) \/ Exit(a)
        \/ \E n \in LPAmounts : Stake(a, n) \/ Withdraw(a, n)

FarmSpec == FarmInit /\ [][FarmNext]_farmVars

-----------------------------------------------------------------------------

\* Whatever is staked, withdrawn and collected in between, and however often
\* the rate is replaced in the middle of a period, what was paid and what can
\* be claimed together never exceed what the seconds emitted: nobody earns for
\* the time before a stake, or twice for the same time.
EarnedWasEmitted ==
    paidOut + FoldFunction(+, 0, [a \in Farmers |-> Earned(a)]) <= emitted

=============================================================================
