---------------------------- MODULE MCGeneralLedger ----------------------------
(***************************************************************************)
(* Small instances of GeneralLedger under one of several loads: how many   *)
(* calls are served at a time, how many are made, how many may die, and    *)
(* whether they are all about payroll.                                     *)
(***************************************************************************)
EXTENDS GeneralLedger

CONSTANTS Loads

VARIABLE load

\* Balanced lines, lines a halala apart, and lines resolveEntries refuses.
SomeLines ==
    {[cash |-> 2, capital |-> -2], [clients |-> 2, income |-> -1], [client |-> 1, income |-> -1],
     [cash |-> 1, trust |-> -3]}

PlusOrMinus == {-1, 1}

Load(atOnce, calls, deaths, payroll) ==
    [atOnce |-> atOnce, calls |-> calls, deaths |-> deaths, payroll |-> payroll]

\* A run is created, its line filled in, and it is posted and posted again, or removed.
PairsAndSerial == {Load(2, 3, 1, FALSE), Load(2, 6, 1, TRUE), Load(1, 4, 1, FALSE)}

OnPayroll ==
    /\ \A c \in Calls : call[c].step \in {"idle", "run", "line", "post", "remove", "done"}
    /\ Entered(txns) = {}

Within ==
    /\ load.payroll => OnPayroll
    /\ Cardinality(InFlight) <= load.atOnce
    /\ \A c \in Calls : c > load.calls => At(c, "idle")
    /\ crashes <= load.deaths

MCInit == Init /\ load \in Loads
MCNext == UNCHANGED load /\ Next /\ Within'
MCSpec == MCInit /\ [][MCNext]_<<vars, load>>

Serial == load.atOnce = 1

\* Codes of accounts are never shared. Served one at a time, vouchers and accounts
\* are numbered without a gap and a client gets one account, whatever fails.
NumbersAreSound ==
    CodesAreDistinct /\ (Serial => NumbersAreGapless /\ OneAccountPerClient)

\* A matched bank line names a cash voucher. Served one at a time, every
\* reconciliation adds up and a payroll voucher says what its run says.
VouchersMatch ==
    MatchedIsCash /\ (Serial => ReconciliationAddsUp /\ RunMatchesVoucher)
=============================================================================
