------------------------------- MODULE MCParts -------------------------------
(***************************************************************************)
(* TLC instance of the modules that stand alone.  They share no state, so  *)
(* that their joint behaviours show nothing the separate ones do not: the  *)
(* first state picks the part that moves.                                  *)
(***************************************************************************)
EXTENDS TroveOrder, RewardPool, FeeCurve, BaseRate, Controller, CollateralLists, Farm, StabilityPool

CONSTANTS b1, b2, b3, b4, c1, c2

VARIABLE part

Parts == {"order", "rewards", "curve", "rate", "controller", "lists", "farm", "stability"}

partVars == <<part, orderVars, vars, curveVars, rateVars, governanceVars, listVars, farmVars, spVars>>

PartsInit ==
    /\ part \in Parts
    /\ OrderInit /\ Init /\ CurveInit /\ RateInit /\ GovernanceInit /\ ListsInit /\ FarmInit /\ SPInit
    /\ part # "lists" => depositColls = <<>> /\ withdrawColls = <<>>

OrderMoves ==
    /\ part = "order"
    /\ OrderNext
    /\ UNCHANGED <<part, vars, curveVars, rateVars, governanceVars, listVars, farmVars, spVars>>

RewardsMove ==
    /\ part = "rewards"
    /\ Next
    /\ UNCHANGED <<part, orderVars, curveVars, rateVars, governanceVars, listVars, farmVars, spVars>>

CurveMoves ==
    /\ part = "curve"
    /\ CurveNext
    /\ UNCHANGED <<part, orderVars, vars, rateVars, governanceVars, listVars, farmVars, spVars>>

RateMoves ==
    /\ part = "rate"
    /\ RateNext
    /\ UNCHANGED <<part, orderVars, vars, curveVars, governanceVars, listVars, farmVars, spVars>>

ControllerMoves ==
    /\ part = "controller"
    /\ GovernanceNext
    /\ UNCHANGED <<part, orderVars, vars, curveVars, rateVars, listVars, farmVars, spVars>>

\* A check that has come to its verdict is over.
ListsMove ==
    /\ part = "lists"
    /\ \/ ListsNext
       \/ verdict \in {"accepted", "rejected"} /\ UNCHANGED listVars
    /\ UNCHANGED <<part, orderVars, vars, curveVars, rateVars, governanceVars, farmVars, spVars>>

FarmMoves ==
    /\ part = "farm"
    /\ FarmNext
    /\ UNCHANGED <<part, orderVars, vars, curveVars, rateVars, governanceVars, listVars, spVars>>

StabilityMoves ==
    /\ part = "stability"
    /\ SPNext
    /\ UNCHANGED <<part, orderVars, vars, curveVars, rateVars, governanceVars, listVars, farmVars>>

PartsNext ==
    \/ OrderMoves \/ RewardsMove \/ CurveMoves \/ RateMoves
    \/ ControllerMoves \/ ListsMove \/ FarmMoves \/ StabilityMoves

PartsSpec == PartsInit /\ [][PartsNext]_partVars

MCBorrowers == {b1, b2, b3, b4}

MCAmounts == 0..4

\* One curve whose second piece has a negative intercept, and one whose third
\* piece alone has.
MCParams == {
    [m1 |-> 0, b1 |-> 1, cutoff1 |-> 4, m2 |-> 5, cutoff2 |-> 7, m3 |-> 20,
     decayTime |-> 3, dollarCap |-> 0],
    [m1 |-> 5, b1 |-> 6, cutoff1 |-> 3, m2 |-> 10, cutoff2 |-> 5, m3 |-> 15,
     decayTime |-> 3, dollarCap |-> 8]}

MCDelay == [l \in Locks |-> IF l = TwoWeeks THEN 2 ELSE 1]

MCCalls ==
    [fn : {"addCollateral"}, coll : {c1, c2}, safety : {80}, recovery : {100}] \cup
    {[fn |-> "changeRatios", coll |-> c1, safety |-> 100, recovery |-> 100],
     [fn |-> "unDeprecateCollateral", coll |-> c1],
     [fn |-> "updateAbsorptionColls", colls |-> <<c2>>],
     [fn |-> "updateMaxSystemColls", max |-> 2]}

\* Tokens 0, 1 and 2 are collateral, 2 is deprecated; 4 is none, and its index 0.
MCIndex == [t \in Tokens |-> t % 4]
MCActive == [t \in Tokens |-> t # 2]
MCLists == UNION {[1..n -> Tokens] : n \in 0..3}

\* The owner may begin it again before or after its end.
MCProgrammes == {[reward |-> 3, duration |-> 2]}

\* Offsets that take a part of the pool, nearly all of it, or all.  The pool
\* is worth several times Decimals, as it is in the code.
MCOffsets == {<<38, 2>>, <<95, 3>>, <<100, 3>>, <<143, 4>>, <<200, 5>>}

=============================================================================
