---------------------------- MODULE MCReceivables ----------------------------
(***************************************************************************)
(* Small instances of Receivables: one note of three halalas, under one of *)
(* several loads. A load says how many requests are served at a time, how  *)
(* many are sent and how many may die.                                     *)
(***************************************************************************)
EXTENDS Receivables

CONSTANT Loads

VARIABLE load

OneNote == [n \in Notes |-> 3]

Quick(count) == [mode |-> "quick", count |-> count]
Custom(rows) == [mode |-> "custom", rows |-> rows]
Due(month, money) == [due |-> month, amount |-> money]

\* 2 + 1 in the quick mode, 1 + 2 and a schedule one halala over by hand.
PlanDtos == {Quick(2), Custom(<<Due(1, 2), Due(0, 1)>>), Custom(<<Due(0, 2), Due(1, 2)>>)}
NoDtos == {}

Load(atOnce, requests, deaths) == [atOnce |-> atOnce, requests |-> requests, deaths |-> deaths]

\* Four requests two at a time, and five one after the other.
PairsAndSerial == {Load(2, 4, 1), Load(1, 5, 2)}
Pairs == {Load(2, 4, 0)}

Within ==
    /\ Cardinality(InFlight) <= load.atOnce
    /\ \A r \in Requests : r > load.requests => At(r, "idle")
    /\ crashes <= load.deaths

MCInit == Init /\ load \in Loads
MCNext == UNCHANGED load /\ Next /\ Within'
MCVars == <<vars, load>>
MCSpec == MCInit /\ [][MCNext]_MCVars

\* Node.js runs a request on once what it awaits is there; nothing makes a
\* client or a clerk send one, and nothing excludes a crash. The requests are
\* finitely many, so fairness of their union is fairness of each.
MCFairSpec == MCSpec /\ WF_MCVars(UNCHANGED load /\ \E r \in Requests : Continue(r))

\* Under either load, once the requests a load allows have been sent, all are
\* answered: no one waits for ever for a row lock whose holder died, or for a row
\* that another request deleted.
AllAnswered == <>[](InFlight = {})

Serial == load.atOnce = 1

\* No installment is ever credited beyond its amount. Served one at a time, money
\* reaches the installments oldest first, and while none has died plan and note
\* agree between requests, however receipts, plans and replacements alternate.
PlanIsSound == RowsWithinAmount /\ (Serial => OldestFirst /\ PlanFollowsNote)

\* No receipt is posted for money that was not captured. Served one at a time and
\* without a death, captured money is receipted at most once, confirmed and
\* delivered as often as one likes.
CapturedIsReceiptedOnce == ReceiptIsCaptured /\ (Serial => OneReceiptPerPayment)

\* Served one at a time, receipts implement the abstract receivable: what is owed
\* is what is outstanding, what is collected is the ledger's balance.
SerialAbstract == INSTANCE Receivable WITH
    owed <- [n \in Notes |-> IF Serial THEN Outstanding(n) ELSE Gross[n]],
    collected <- [n \in Notes |-> IF Serial THEN posted[n] ELSE 0]

SerialImplementsReceivable == SerialAbstract!Spec
=============================================================================
