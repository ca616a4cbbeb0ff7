----------------------------- MODULE Receivables -----------------------------
(***************************************************************************)
(* What clients owe and what is collected from them: debit notes, receipt  *)
(* vouchers, installment plans (finance.service.ts) and the client's card  *)
(* payments (payment-charge.service.ts).                                   *)
(*                                                                         *)
(* Every request is a sequence of database calls with an `await` between   *)
(* them, and the API serves many requests at once over PostgreSQL at READ  *)
(* COMMITTED. An action is what happens between two awaits that matter; a  *)
(* $transaction shows its writes at its commit. `req` holds what a request *)
(* has read and carries over an await, and may be stale when it is used.   *)
(***************************************************************************)
EXTENDS InstallmentPlan, FiniteSets

CONSTANTS
    Notes,          \* debit notes
    Gross,          \* netAmount + vatAmount of each note, in halalas
    Payments,       \* portal payments that clients may start
    Requests,       \* HTTP requests, numbered in order of arrival
    Amounts,        \* amounts a clerk or a client may enter
    Dtos,           \* bodies of the installment-plan requests
    MaxInFlight,    \* requests the API serves at a time
    MaxCrashes,     \* requests that may be cut short
    None            \* a null column

ASSUME NotesAssumption == Gross \in [Notes -> Nat \ {0}]
ASSUME RequestsAssumption == Requests \subseteq Nat
ASSUME AmountsAssumption == Amounts \subseteq Nat \ {0}
ASSUME DtosAssumption ==
    \A dto \in Dtos : \/ dto.mode = "quick" /\ dto.count \in Nat
                      \/ dto.mode = "custom" /\ dto.rows \in Seq([due : Nat, amount : Int])

VARIABLES
    settled,        \* DebitNote.settledAmount
    posted,         \* what the RCV vouchers of a note add up to in the ledger
    vouchers,       \* the RCV voucher a request posted (a request posts one at most)
    plan,           \* the Installment rows of a note
    lock,           \* the request whose transaction holds the note's row lock
    pay,            \* the PortalPayment rows
    gateway,        \* the charge at the payment gateway
    req,            \* where each request is and the values it has read
    todo,           \* the installment rows it has read, or is about to write
    crashes

vars == <<settled, posted, vouchers, plan, lock, pay, gateway, req, todo, crashes>>

-----------------------------------------------------------------------------
PayStatus == {"none", "PENDING", "PAID", "FAILED"}

PayRow == [status : PayStatus, charged : BOOLEAN, note : Notes \union {None},
           amount : Nat, receipt : Requests \union {None}]

Payment(status, charged, n, a, receipt) ==
    [status |-> status, charged |-> charged, note |-> n, amount |-> a, receipt |-> receipt]

NoPayment == Payment("none", FALSE, None, 0, None)

Voucher == [note : Notes, amount : Nat, pay : Payments \union {None}]

ASSUME NoneAssumption == None \notin Notes \union Payments \union Requests \union Voucher

Steps == {"idle", "charge", "retrieve", "failed", "pending", "settle", "receipt", "locked",
          "mark", "insert", "spread", "write", "replace", "deleted", "done"}

\* The local variables of a request at a step.
Local(step, n, p, a, already) ==
    [step |-> step, note |-> n, pay |-> p, amount |-> a, already |-> already]

Idle == Local("idle", None, None, 0, 0)
Over == Local("done", None, None, 0, 0)

InFlight == {r \in Requests : req[r].step \notin {"idle", "done"}}

\* Requests start in order of arrival, as many at a time as the API serves.
CanStart(r) ==
    /\ req[r].step = "idle"
    /\ \A q \in Requests : q < r => req[q].step # "idle"
    /\ Cardinality(InFlight) < MaxInFlight

Begin(r, local) == CanStart(r) /\ req' = [req EXCEPT ![r] = local]
At(r, step) == req[r].step = step
Goto(r, step) == req' = [req EXCEPT ![r].step = step]
Take(r, rows) == todo' = [todo EXCEPT ![r] = rows]
Finish(r) == req' = [req EXCEPT ![r] = Over] /\ Take(r, {})

Outstanding(n) == Gross[n] - settled[n]

Key(row) == <<row.batch, row.seq>>
Keys(rows) == {Key(x) : x \in rows}
Without(rows, keys) == {x \in rows : Key(x) \notin keys}
Overwrite(rows, writes) == Without(rows, Keys(writes)) \union writes

Init ==
    /\ settled = [n \in Notes |-> 0]
    /\ posted = [n \in Notes |-> 0]
    /\ vouchers = [r \in Requests |-> None]
    /\ plan = [n \in Notes |-> {}]
    /\ lock = [n \in Notes |-> None]
    /\ pay = [p \in Payments |-> NoPayment]
    /\ gateway = [p \in Payments |-> "none"]
    /\ req = [r \in Requests |-> Idle]
    /\ todo = [r \in Requests |-> {}]
    /\ crashes = 0

-----------------------------------------------------------------------------
(* recordReceipt: checks the note, then posts the voucher in a transaction  *)

\* Mutant: only a fully settled note is refused.
MayReceive_NoLimit(n, a) == Outstanding(n) > 0

\* `remaining` and `already` are read outside the transaction.
MayReceive(n, a) == Outstanding(n) > 0 /\ a <= Outstanding(n)

ReadNote(n, a, p) ==
    Local("receipt", n, p, a, settled[n])

\* POST /finance/debit-notes/:id/receipt; a refused receipt changes nothing.
RecordReceipt(r, n, a) ==
    /\ MayReceive(n, a)
    /\ Begin(r, ReadNote(n, a, None))
    /\ UNCHANGED <<settled, posted, vouchers, plan, lock, pay, gateway, todo, crashes>>

\* Mutant: the note is updated on its own, before the voucher's transaction.
LockNote_UpdatesAlone(r) ==
    LET n == req[r].note IN
    /\ At(r, "receipt")
    /\ lock[n] = None
    /\ lock' = [lock EXCEPT ![n] = r]
    /\ settled' = [settled EXCEPT ![n] = req[r].already + req[r].amount]
    /\ Goto(r, "locked")
    /\ UNCHANGED <<posted, vouchers, plan, pay, gateway, todo, crashes>>

\* debitNote.update waits for the row lock; the installments are read under it.
LockNote(r) ==
    LET n == req[r].note IN
    /\ At(r, "receipt")
    /\ lock[n] = None
    /\ lock' = [lock EXCEPT ![n] = r]
    /\ Take(r, Waterfall(plan[n], req[r].amount))
    /\ Goto(r, "locked")
    /\ UNCHANGED <<settled, posted, vouchers, plan, pay, gateway, crashes>>

\* The transaction commits, or rolls back because an installment it updates has
\* been deleted under it (Prisma's P2025).
CommitReceipt(r) ==
    LET l == req[r]
        n == l.note
    IN
    /\ At(r, "locked")
    /\ lock' = [lock EXCEPT ![n] = None]
    /\ \/ /\ Keys(todo[r]) \subseteq Keys(plan[n])
          /\ settled' = [settled EXCEPT ![n] = l.already + l.amount]
          /\ posted' = [posted EXCEPT ![n] = @ + l.amount]
          /\ vouchers' = [vouchers EXCEPT ![r] = [note |-> n, amount |-> l.amount, pay |-> l.pay]]
          /\ plan' = [plan EXCEPT ![n] = Overwrite(@, todo[r])]
          /\ IF l.pay = None
             THEN Finish(r)
             ELSE Goto(r, "mark") /\ Take(r, {})
       \/ /\ ~ Keys(todo[r]) \subseteq Keys(plan[n])
          /\ Finish(r)
          /\ UNCHANGED <<settled, posted, vouchers, plan>>
    /\ UNCHANGED <<pay, gateway, crashes>>

-----------------------------------------------------------------------------
(* Card payments of the client portal                                       *)

\* createCharge: checks the outstanding amount, which it does not reserve, and
\* inserts the row; one halala over is let through.
CreateCharge(r, p, n, a) ==
    /\ pay[p] = NoPayment
    /\ a <= Outstanding(n) + 1
    /\ Begin(r, Local("charge", None, p, 0, 0))
    /\ pay' = [pay EXCEPT ![p] = Payment("PENDING", FALSE, n, a, None)]
    /\ UNCHANGED <<settled, posted, vouchers, plan, lock, gateway, todo, crashes>>

\* gateway.createCharge, then its charge id is saved and the client redirected.
RegisterCharge(r) ==
    LET p == req[r].pay IN
    /\ At(r, "charge")
    /\ gateway' = [gateway EXCEPT ![p] = "INITIATED"]
    /\ pay' = [pay EXCEPT ![p].charged = TRUE]
    /\ Finish(r)
    /\ UNCHANGED <<settled, posted, vouchers, plan, lock, crashes>>

\* The client pays, or the bank declines, on the gateway's hosted page.
ClientPays(p) ==
    /\ gateway[p] = "INITIATED"
    /\ \E outcome \in {"CAPTURED", "DECLINED"} : gateway' = [gateway EXCEPT ![p] = outcome]
    /\ UNCHANGED <<settled, posted, vouchers, plan, lock, pay, req, todo, crashes>>

\* POST /portal/pay/:id/confirm: a payment that is already PAID needs nothing.
Confirm(r, p) ==
    /\ pay[p].charged
    /\ pay[p].status # "PAID"
    /\ Begin(r, Local("retrieve", None, p, 0, 0))
    /\ UNCHANGED <<settled, posted, vouchers, plan, lock, pay, gateway, todo, crashes>>

RetrieveCharge(r) ==
    LET p == req[r].pay IN
    /\ At(r, "retrieve")
    /\ Goto(r, CASE gateway[p] = "CAPTURED" -> "settle"
                 [] gateway[p] = "DECLINED" -> "failed"
                 [] OTHER -> "pending")
    /\ UNCHANGED <<settled, posted, vouchers, plan, lock, pay, gateway, todo, crashes>>

\* An unpaid charge overwrites the status, whatever it has become meanwhile.
WriteStatus(r) ==
    LET p == req[r].pay IN
    /\ \/ At(r, "failed") /\ pay' = [pay EXCEPT ![p].status = "FAILED"]
       \/ At(r, "pending") /\ pay' = [pay EXCEPT ![p].status = "PENDING"]
    /\ Finish(r)
    /\ UNCHANGED <<settled, posted, vouchers, plan, lock, gateway, crashes>>

\* Mutant: a webhook for a payment that is PAID is settled again.
Webhook_Again(r, p) ==
    /\ pay[p].charged
    /\ gateway[p] = "CAPTURED"
    /\ Begin(r, Local("settle", None, p, 0, 0))
    /\ UNCHANGED <<settled, posted, vouchers, plan, lock, pay, gateway, todo, crashes>>

\* POST /payments/webhook with a signed CAPTURED body, delivered once or more.
\* Any other body, and a payment already PAID, is answered and changes nothing.
Webhook(r, p) ==
    /\ pay[p].charged
    /\ gateway[p] = "CAPTURED"
    /\ pay[p].status # "PAID"
    /\ Begin(r, Local("settle", None, p, 0, 0))
    /\ UNCHANGED <<settled, posted, vouchers, plan, lock, pay, gateway, todo, crashes>>

\* Mutant: the payment is marked before its receipt is posted.
Settle_MarksFirst(r) ==
    LET p == req[r].pay IN
    /\ At(r, "settle")
    /\ pay' = [pay EXCEPT ![p] = Payment("PAID", @.charged, @.note, @.amount, r)]
    /\ IF MayReceive(pay[p].note, pay[p].amount)
       THEN req' = [req EXCEPT ![r] = ReadNote(pay[p].note, pay[p].amount, p)] /\ UNCHANGED todo
       ELSE Finish(r)
    /\ UNCHANGED <<settled, posted, vouchers, plan, lock, gateway, crashes>>

\* Mutant: a Conflict is waited out instead of answered.
Settle_WaitsForRoom(r) ==
    LET p == req[r].pay IN
    /\ At(r, "settle")
    /\ MayReceive(pay[p].note, pay[p].amount)
    /\ req' = [req EXCEPT ![r] = ReadNote(pay[p].note, pay[p].amount, p)]
    /\ UNCHANGED <<settled, posted, vouchers, plan, lock, pay, gateway, todo, crashes>>

\* settle calls recordReceipt; a Conflict leaves the payment as it is.
Settle(r) ==
    LET p == req[r].pay
        row == pay[p]
    IN
    /\ At(r, "settle")
    /\ IF MayReceive(row.note, row.amount)
       THEN /\ req' = [req EXCEPT ![r] = ReadNote(row.note, row.amount, p)]
            /\ UNCHANGED todo
       ELSE Finish(r)
    /\ UNCHANGED <<settled, posted, vouchers, plan, lock, pay, gateway, crashes>>

\* ... and marks the payment PAID in a call of its own.
MarkPaid(r) ==
    /\ At(r, "mark")
    /\ pay' = [pay EXCEPT ![req[r].pay] = Payment("PAID", @.charged, @.note, @.amount, r)]
    /\ Finish(r)
    /\ UNCHANGED <<settled, posted, vouchers, plan, lock, gateway, crashes>>

-----------------------------------------------------------------------------
(* Installment plans                                                        *)

NewRows(r, n, dto) ==
    {[batch |-> r, seq |-> x.seq, due |-> x.due, amount |-> x.amount, settled |-> 0] :
        x \in InstallmentRows(Gross[n], dto)}

ReadForPlan(step, r, n, dto) ==
    /\ Begin(r, Local(step, n, None, 0, settled[n]))
    /\ Take(r, NewRows(r, n, dto))

\* generateInstallments is not a transaction: it checks that there is no plan,
GenerateInstallments(r, n, dto) ==
    /\ plan[n] = {}
    /\ Accepts(Gross[n], dto)
    /\ ReadForPlan("insert", r, n, dto)
    /\ UNCHANGED <<settled, posted, vouchers, plan, lock, pay, gateway, crashes>>

\* then inserts the rows,
InsertRows(r) ==
    LET n == req[r].note IN
    /\ At(r, "insert")
    /\ plan' = [plan EXCEPT ![n] = @ \union todo[r]]
    /\ IF req[r].already > 0
       THEN Goto(r, "spread") /\ Take(r, {})
       ELSE Finish(r)
    /\ UNCHANGED <<settled, posted, vouchers, lock, pay, gateway, crashes>>

\* then reads them back,
ReadRows(r) ==
    LET n == req[r].note
        writes == Waterfall(plan[n], req[r].already)
    IN
    /\ At(r, "spread")
    /\ IF writes = {} THEN Finish(r)
       ELSE Goto(r, "write") /\ Take(r, writes)
    /\ UNCHANGED <<settled, posted, vouchers, plan, lock, pay, gateway, crashes>>

\* and writes them one by one, oldest first; a row that is gone ends it in error.
WriteRow(r) ==
    LET n == req[r].note
        row == CHOOSE x \in todo[r] : \A y \in todo[r] \ {x} : Older(x, y)
        rest == todo[r] \ {row}
    IN
    /\ At(r, "write")
    /\ IF Key(row) \in Keys(plan[n])
       THEN /\ plan' = [plan EXCEPT ![n] = {IF Key(x) = Key(row) THEN [x EXCEPT !.settled = row.settled]
                                            ELSE x : x \in @}]
            /\ IF rest = {} THEN Finish(r) ELSE Take(r, rest) /\ UNCHANGED req
       ELSE Finish(r) /\ UNCHANGED plan
    /\ UNCHANGED <<settled, posted, vouchers, lock, pay, gateway, crashes>>

\* replaceInstallments reads the note and checks that there is a plan,
ReplaceInstallments(r, n, dto) ==
    /\ plan[n] # {}
    /\ Accepts(Gross[n], dto)
    /\ ReadForPlan("replace", r, n, dto)
    /\ UNCHANGED <<settled, posted, vouchers, plan, lock, pay, gateway, crashes>>

\* then, in a transaction, deletes the rows its DELETE statement sees,
DeleteRows(r) ==
    /\ At(r, "replace")
    /\ Goto(r, "deleted")
    /\ Take(r, todo[r] \union plan[req[r].note])
    /\ UNCHANGED <<settled, posted, vouchers, plan, lock, pay, gateway, crashes>>

\* inserts the new ones and spreads what the note had settled when it was read.
CommitReplace(r) ==
    LET l == req[r]
        fresh == {x \in todo[r] : x.batch = r}
        kept == Without(plan[l.note], Keys(todo[r] \ fresh))
        rows == kept \union fresh
    IN
    /\ At(r, "deleted")
    /\ plan' = [plan EXCEPT ![l.note] = Overwrite(rows, Waterfall(rows, l.already))]
    /\ Finish(r)
    /\ UNCHANGED <<settled, posted, vouchers, lock, pay, gateway, crashes>>

-----------------------------------------------------------------------------
\* The process dies, a call of the request fails, or its transaction times out:
\* what it committed stays, its open transaction is rolled back.
Crash(r) ==
    /\ r \in InFlight
    /\ crashes < MaxCrashes
    /\ crashes' = crashes + 1
    /\ lock' = [n \in Notes |-> IF lock[n] = r THEN None ELSE lock[n]]
    /\ Finish(r)
    /\ UNCHANGED <<settled, posted, vouchers, plan, pay, gateway>>

Continue(r) ==
    \/ LockNote(r) \/ CommitReceipt(r)
    \/ RegisterCharge(r) \/ RetrieveCharge(r) \/ WriteStatus(r) \/ Settle(r) \/ MarkPaid(r)
    \/ InsertRows(r) \/ ReadRows(r) \/ WriteRow(r)
    \/ DeleteRows(r) \/ CommitReplace(r)

Start(r) ==
    \/ \E n \in Notes, a \in Amounts : RecordReceipt(r, n, a)
    \/ \E p \in Payments, n \in Notes, a \in Amounts : CreateCharge(r, p, n, a)
    \/ \E p \in Payments : Confirm(r, p) \/ Webhook(r, p)
    \/ \E n \in Notes, dto \in Dtos : GenerateInstallments(r, n, dto)
    \/ \E n \in Notes, dto \in Dtos : ReplaceInstallments(r, n, dto)

Next ==
    \/ \E r \in Requests : Start(r) \/ Continue(r) \/ Crash(r)
    \/ \E p \in Payments : ClientPays(p)

Spec == Init /\ [][Next]_vars

-----------------------------------------------------------------------------
(* Properties                                                               *)

Row == [batch : Requests, seq : Nat \ {0}, due : Nat, amount : Int, settled : Nat]

Request == [step : Steps, note : Notes \union {None}, pay : Payments \union {None},
            amount : Nat, already : Nat]

\* The columns and the local variables hold what their declarations say, and
\* only a receipt between its note update and its commit holds a row lock.
TypeOK ==
    /\ settled \in [Notes -> Nat]
    /\ posted \in [Notes -> Nat]
    /\ vouchers \in [Requests -> Voucher \union {None}]
    /\ plan \in [Notes -> SUBSET Row]
    /\ lock \in [Notes -> Requests \union {None}]
    /\ pay \in [Payments -> PayRow]
    /\ gateway \in [Payments -> {"none", "INITIATED", "CAPTURED", "DECLINED"}]
    /\ req \in [Requests -> Request]
    /\ todo \in [Requests -> SUBSET Row]
    /\ crashes \in 0..MaxCrashes
    /\ \A r \in Requests, n \in Notes : lock[n] = r <=> At(r, "locked") /\ req[r].note = n

\* However receipts interleave, no note is recorded as settled beyond its gross
\* amount (the guard of recordReceipt holds for the value it writes).
SettledWithinGross == \A n \in Notes : settled[n] <= Gross[n]

\* However receipts interleave or die, every halala a note counts as settled is
\* backed by a posted RCV voucher (voucher and note are one transaction).
SettledIsVouched == \A n \in Notes : settled[n] <= posted[n]

\* What a note counts as settled is both owed and collected.
SettledIsSound == SettledWithinGross /\ SettledIsVouched

\* A payment marked PAID names a voucher of its own: same note, same amount,
\* and the payment's reference, whoever settled it (confirm or webhook).
PaidHasReceipt ==
    \A p \in Payments :
        pay[p].status = "PAID" =>
            LET v == pay[p].receipt
            IN  v # None /\ vouchers[v] = [note |-> pay[p].note, amount |-> pay[p].amount, pay |-> p]

\* No receipt is posted for a payment unless the gateway captured its charge.
ReceiptIsCaptured ==
    \A r \in Requests : vouchers[r] # None /\ vouchers[r].pay # None
                            => gateway[vouchers[r].pay] = "CAPTURED"

\* No installment is credited beyond its amount, whichever of the three
\* waterfalls (receipt, generate, replace) wrote it.
RowsWithinAmount ==
    \A n \in Notes : \A x \in plan[n] : x.settled > 0 => x.settled <= x.amount

-----------------------------------------------------------------------------
(* What holds when requests are served one at a time (MaxInFlight = 1)       *)

\* Money reaches the installments oldest first: a row has something only when
\* every older row is full, also when generateInstallments dies half-way.
OldestFirst ==
    \A n \in Notes : \A x, y \in plan[n] : Older(x, y) /\ y.settled > 0 => Open(x) = 0

\* Between requests, while none has died, a plan shows as settled what its note
\* has settled, up to the plan's own total (which may be a halala off the note).
PlanFollowsNote ==
    crashes = 0 /\ InFlight = {} => \A n \in Notes :
        plan[n] # {} => Settled(plan[n]) = Smaller(settled[n], Total(plan[n]))

\* While no request has died, one captured payment is receipted at most once.
OneReceiptPerPayment ==
    crashes = 0 => \A q, r \in Requests :
        vouchers[q] # None /\ vouchers[q] = vouchers[r] /\ vouchers[q].pay # None => q = r

-----------------------------------------------------------------------------
(* What the documentation says and concurrent requests break                *)

\* recordReceipt: "prevents exceeding what is due".
NoOverCollection == \A n \in Notes : posted[n] <= Gross[n]
=============================================================================
