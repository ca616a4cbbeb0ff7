------------------------------ MODULE MCPipeline ------------------------------
(***************************************************************************)
(* Small instances of Pipeline: one deal, one request being quoted and one *)
(* policy about to expire, under one of several loads. A load says how     *)
(* many calls are served at a time, how many are made and how many may die.*)
(***************************************************************************)
EXTENDS Pipeline

CONSTANTS d1, i1, i2, Loads

VARIABLE load

Load(atOnce, calls, deaths) == [atOnce |-> atOnce, calls |-> calls, deaths |-> deaths]
PairsAndSerial == {Load(2, 3, 1), Load(1, 4, 1)}

Within ==
    /\ Cardinality(InFlight) <= load.atOnce
    /\ \A c \in Calls : c > load.calls => At(c, "idle")
    /\ crashes <= load.deaths

MCInit == Init /\ load \in Loads
MCNext == UNCHANGED load /\ Next /\ Within'
MCSpec == MCInit /\ [][MCNext]_<<vars, load>>

Serial == load.atOnce = 1

\* Served one at a time, nothing is made twice: a deal is converted once, a policy
\* has one renewal with one form, a request has one cover note in force and none
\* older than its policy.
SerialMadeOnce ==
    Serial => /\ OneRequestPerDeal /\ OneRenewalPerPolicy /\ FormIsNotMixed
              /\ OneCoverInForce /\ PolicySupersedesCover

\* Served one at a time, what was agreed reaches the policy: insurers written to
\* are on the slip unless a call has died, the client accepts what he was shown, an
\* award can be issued, a policy was ordered, and its request shows how far it is.
SerialOrderIsFollowed ==
    Serial => /\ crashes = 0 => MailIsRecorded
              /\ AcceptedWasPresented /\ AwardCanBeIssued
              /\ PolicyWasOrdered /\ RequestShowsItsPolicy

\* Served one at a time, the client's acceptance is not taken back.
SerialAcceptanceKept == [][Serial => AcceptanceKept]_vars
=============================================================================
