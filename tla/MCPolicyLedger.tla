---------------------------- MODULE MCPolicyLedger ----------------------------
(***************************************************************************)
(* Small instances of PolicyLedger: a policy whose premium the broker      *)
(* collects and one whose insurer does, under one of several loads. A load *)
(* says how many calls are served at a time, how many are made and how     *)
(* many may die.                                                           *)
(***************************************************************************)
EXTENDS PolicyLedger

CONSTANTS p1, p2, Loads

VARIABLE load

Term(total, kept, direct, producer, sales) ==
    [total |-> total, kept |-> kept, direct |-> direct, producer |-> producer, sales |-> sales]

\* Odd amounts, so that half of them has to be rounded.
TwoTerms == [p \in {p1, p2} |-> IF p = p1 THEN Term(3, 2, FALSE, 1, 1) ELSE Term(2, 1, TRUE, 1, 0)]

OneEachWay == {-1, 1}

Load(atOnce, calls, deaths) == [atOnce |-> atOnce, calls |-> calls, deaths |-> deaths]
PairsAndSerial == {Load(2, 3, 1), Load(1, 4, 1)}
Alone == {Load(1, 1, 0)}

Within ==
    /\ Cardinality(InFlight) <= load.atOnce
    /\ \A c \in Calls : c > load.calls => At(c, "idle")
    /\ crashes <= load.deaths

MCInit == Init /\ load \in Loads
MCNext == UNCHANGED load /\ Next /\ Within'
MCSpec == MCInit /\ [][MCNext]_<<vars, load>>

Serial == load.atOnce = 1

\* Served one at a time, the rows and the vouchers say the same: a credit note is
\* refunded once, a policy is reversed once and last, and a commission shows
\* exactly what its receipts add up to.
SerialRowsMatchVouchers ==
    Serial => RefundedOnce /\ CancellationIsLast /\ CommissionMatchesVouchers

\* Served one at a time, no payee is paid more than its share.
SerialPaidWithinShares == Serial => PaidWithinShares
=============================================================================
