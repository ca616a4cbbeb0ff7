--------------------------- MODULE MCPolicyApproval ---------------------------
(***************************************************************************)
(* Small instances of PolicyApproval under one of several loads. A load    *)
(* says how many calls are served at a time, how many are made, how many   *)
(* may die, and which approval chains the tenant switches between.         *)
(***************************************************************************)
EXTENDS PolicyApproval, TLC

CONSTANT Loads

VARIABLE load

Chain(gate, sod, techSod, steps) ==
    [gate |-> gate, sod |-> sod, techSod |-> techSod, steps |-> steps]

\* The default chain with one extra step, a stricter one, one without the gate.
Default == Chain(TRUE, TRUE, FALSE, {"s1"})
Strict == Chain(TRUE, TRUE, TRUE, {"s1", "s2"})
Ungated == Chain(FALSE, TRUE, FALSE, {"s1"})

AnyConfigs == {Default, Strict, Ungated}

Load(atOnce, calls, deaths, chains) ==
    [atOnce |-> atOnce, calls |-> calls, deaths |-> deaths, chains |-> chains]

\* Five calls two at a time between two gated chains, and six one after the
\* other with and without the gate.
PairsAndSerial == {Load(2, 5, 1, {Default, Strict}), Load(1, 6, 1, {Default, Ungated})}

Within ==
    /\ Cardinality(InFlight) <= load.atOnce
    /\ \A c \in Calls : c > load.calls => At(c, "idle")
    /\ crashes <= load.deaths
    /\ config \in load.chains

MCInit == Init /\ load \in Loads /\ Within
MCNext == UNCHANGED load /\ Next /\ Within'
MCVars == <<vars, load>>
MCSpec == MCInit /\ [][MCNext]_MCVars

Serial == load.atOnce = 1

\* Served one at a time, the books of a policy are posted once and an award is
\* used for one policy, whatever is reverted in between.
SerialPostedOnce == Serial => BooksPostedOnce /\ OnePolicyPerAward

\* Served one at a time, a policy that was taken back is approved anew.
SerialReapprovedAfterRevert == Serial => ReapprovedAfterRevert

\* Served one at a time and without a death, nobody approves what he issued.
SerialSegregationOfDuties == Serial => SegregationOfDuties

Interchangeable == Permutations(Users)
=============================================================================
