----------------------------- MODULE Receivable -----------------------------
(***************************************************************************)
(* What finance.service.ts promises of the receivables: a note is owed its *)
(* gross amount, and money collected on it comes off what is owed, never   *)
(* more than that. The waiting, the vouchers, the installments and the     *)
(* card payments of Receivables are invisible here.                        *)
(***************************************************************************)
EXTENDS Integers

CONSTANTS Notes, Gross

VARIABLES
    owed,           \* what is still owed on each note
    collected       \* what has been collected on it; with owed it makes up the note

Init == owed = Gross /\ collected = [n \in Notes |-> 0]

Collect(n) ==
    \E a \in 1..owed[n] :
        /\ owed' = [owed EXCEPT ![n] = @ - a]
        /\ collected' = [collected EXCEPT ![n] = @ + a]

Next == \E n \in Notes : Collect(n)

Spec == Init /\ [][Next]_<<owed, collected>>
=============================================================================
