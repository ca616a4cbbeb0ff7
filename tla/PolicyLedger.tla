----------------------------- MODULE PolicyLedger -----------------------------
(***************************************************************************)
(* What an issued policy owes and is owed until it is cancelled: credit    *)
(* notes and refunds, commission receipts, and the settlements of the      *)
(* insurer, the producer and the salesperson (finance.service.ts,          *)
(* producers.service.ts), and endorsements (production.service.ts).        *)
(*                                                                         *)
(* No balance is stored: each ledger is derived from the policies and the  *)
(* vouchers when it is read. A call reads, checks, awaits, and writes      *)
(* without checking again. A commission stands for itself and its VAT. The *)
(* policies have one client, insurer, producer and salesperson.            *)
(***************************************************************************)
EXTENDS Integers, FiniteSets, Functions

CONSTANTS
    Policies,
    Terms,          \* of a policy: its amounts, and whether the insurer collects
    Calls,          \* calls of the API, numbered in order of arrival
    Amounts,        \* amounts a clerk may enter
    Deltas,         \* premium differences of endorsements
    MaxInFlight,    \* calls the API serves at a time
    MaxCrashes,     \* calls that may be cut short
    None            \* a null column

Payees == {"insurer", "producer", "sales"}
Accounts == {"clients", "trust", "income", "insurers", "cash", "producers", "staff"}

CreditRow == [policy : Policies, kind : {"CNP", None}, amount : Nat, refunded : BOOLEAN]
EndorsementRow == [policy : Policies, number : Nat, delta : Int]
Entries == UNION {[D -> Int] : D \in SUBSET Accounts}
VoucherRows(types, subjects) == [type : types, of : subjects, amount : Nat, entries : Entries]
VoucherRow ==
    VoucherRows({"JRV", "RCV"}, Policies) \union VoucherRows({"refund"}, Calls) \union VoucherRows({"PYV"}, Payees)

ASSUME TermsAssumption ==
    Terms \in [Policies -> [total : Nat, kept : Nat, direct : BOOLEAN, producer : Nat, sales : Nat]]
ASSUME PoliciesAssumption == IsFiniteSet(Policies)
ASSUME CallsAssumption == Calls \subseteq Nat /\ IsFiniteSet(Calls)
ASSUME AmountsAssumption == Amounts \subseteq Nat \ {0}
ASSUME DeltasAssumption == Deltas \subseteq Int
ASSUME BoundsAssumption == MaxInFlight \in Nat /\ MaxCrashes \in Nat
ASSUME NoneAssumption == None \notin CreditRow \union EndorsementRow \union VoucherRow \union {"CNP"}

VARIABLES
    policy,         \* Policy.status, and whether its free-look window is open
    received,       \* Commission.receivedAmount
    collected,      \* whether Commission.status is `received`
    credits,        \* the client's credit note a call created
    endorsements,   \* the endorsement a call created
    vouchers,       \* the voucher a call posted
    call,           \* where each call is and the values it has read
    crashes

rows == <<policy, received, collected, credits, endorsements, vouchers>>
vars == <<rows, call, crashes>>

-----------------------------------------------------------------------------
Credit(p, kind, amount, refunded) ==
    [policy |-> p, kind |-> kind, amount |-> amount, refunded |-> refunded]

Endorsement(p, number, delta) == [policy |-> p, number |-> number, delta |-> delta]

\* A voucher debits the accounts it names, or credits them where negative.
Voucher(type, of, amount, entries) ==
    [type |-> type, of |-> of, amount |-> amount, entries |-> entries]

Local(step, p, of, amount, base) ==
    [step |-> step, policy |-> p, of |-> of, amount |-> amount, base |-> base]

Idle == Local("idle", None, None, 0, 0)
Over == Local("done", None, None, 0, 0)

InFlight == {c \in Calls : call[c].step \notin {"idle", "done"}}

Begin(c, local) ==
    /\ call[c].step = "idle"
    /\ \A d \in Calls : d < c => call[d].step # "idle"
    /\ Cardinality(InFlight) < MaxInFlight
    /\ call' = [call EXCEPT ![c] = local]
    /\ UNCHANGED <<rows, crashes>>

At(c, step) == call[c].step = step

Finish(c) == call' = [call EXCEPT ![c] = Over] /\ UNCHANGED crashes

Post(c, voucher) == vouchers' = [vouchers EXCEPT ![c] = voucher]

\* The calls that made a row of a table.
Made(table) == {c \in Calls : table[c] # None}

Vouchers(type, of) == {c \in Made(vouchers) : vouchers[c].type = type /\ vouchers[c].of = of}
Posted(type, of) == SumFunction([c \in Vouchers(type, of) |-> vouchers[c].amount])

Init ==
    /\ \E open \in [Policies -> BOOLEAN] : policy = [p \in Policies |-> [status |-> "ISSUED", freeLook |-> open[p]]]
    /\ received = [p \in Policies |-> 0]
    /\ collected = [p \in Policies |-> FALSE]
    /\ credits = [c \in Calls |-> None]
    /\ endorsements = [c \in Calls |-> None]
    /\ vouchers = [c \in Calls |-> None]
    /\ call = [c \in Calls |-> Idle]
    /\ crashes = 0

\* The journal of approvePolicy: where the insurer collects, the broker is owed
\* its commission and holds nothing in trust.
Issued(p) ==
    LET t == Terms[p] IN
    IF t.direct THEN [insurers |-> t.kept, income |-> 0 - t.kept]
    ELSE [clients |-> t.total, trust |-> t.kept - t.total, income |-> 0 - t.kept]

-----------------------------------------------------------------------------
(* cancelPolicy and the refund of its credit note                           *)

\* The unexpired part, in halves of the term, rounded as r2 does.
Part(amount, halves) == (amount * halves + 1) \div 2

Endorsements(p) == {c \in Made(endorsements) : endorsements[c].policy = p}
NextEndorsement(p) == Cardinality(Endorsements(p)) + 1

\* Inside the free-look window the whole premium is returned, whatever is asked.
CancelPolicy(c, p, halves) ==
    LET k == IF policy[p].freeLook THEN 2 ELSE halves IN
    /\ policy[p].status = "ISSUED"
    /\ Begin(c, Local("cancel", p, NextEndorsement(p), Part(Terms[p].total, k), Part(Terms[p].kept, k)))

\* Mutant: the client's account is credited without the broker's commission.
Reversal_Net(c) ==
    LET l == call[c] IN
    Voucher("JRV", l.policy, l.amount,
            [clients |-> l.base - l.amount, trust |-> l.amount - l.base, income |-> l.base])

Reversal(c) ==
    LET l == call[c] IN
    Voucher("JRV", l.policy, l.amount,
            [clients |-> 0 - l.amount, trust |-> l.amount - l.base, income |-> l.base])

\* Mutant: the credit note is left to a call of its own.
CommitCancel_NoNote(c) ==
    LET l == call[c] IN
    /\ At(c, "cancel")
    /\ policy' = [policy EXCEPT ![l.policy] = [status |-> "CANCELLED", freeLook |-> FALSE]]
    /\ endorsements' = [endorsements EXCEPT ![c] = Endorsement(l.policy, l.of, 0 - l.amount)]
    /\ Post(c, Reversal(c))
    /\ Finish(c)
    /\ UNCHANGED <<received, collected, credits>>

\* One transaction: endorsement, credit note, reversing journal and status. The
\* insurer's credit note (CNC) is a copy of the journal's commission.
CommitCancel(c) ==
    LET l == call[c] IN
    /\ At(c, "cancel")
    /\ policy' = [policy EXCEPT ![l.policy] = [status |-> "CANCELLED", freeLook |-> FALSE]]
    /\ endorsements' = [endorsements EXCEPT ![c] = Endorsement(l.policy, l.of, 0 - l.amount)]
    /\ credits' = [credits EXCEPT ![c] = Credit(l.policy, "CNP", l.amount, FALSE)]
    /\ Post(c, Reversal(c))
    /\ Finish(c)
    /\ UNCHANGED <<received, collected>>

\* The credit note of an endorsement has no kind and is not refunded.
RefundCreditNote(c, n) ==
    /\ credits[n] # None
    /\ credits[n].kind = "CNP" /\ credits[n].amount > 0
    /\ ~ credits[n].refunded
    /\ Begin(c, Local("refund", credits[n].policy, n, credits[n].amount, 0))

\* Mutant: the note is marked, and the voucher left to a call of its own.
CommitRefund_NoVoucher(c) ==
    /\ At(c, "refund")
    /\ credits' = [credits EXCEPT ![call[c].of] = Credit(@.policy, @.kind, @.amount, TRUE)]
    /\ Finish(c)
    /\ UNCHANGED <<policy, received, collected, endorsements, vouchers>>

CommitRefund(c) ==
    LET l == call[c] IN
    /\ At(c, "refund")
    /\ Post(c, Voucher("refund", l.of, l.amount, [clients |-> l.amount, cash |-> 0 - l.amount]))
    /\ credits' = [credits EXCEPT ![l.of] = Credit(@.policy, @.kind, @.amount, TRUE)]
    /\ Finish(c)
    /\ UNCHANGED <<policy, received, collected, endorsements>>

FreeLookEnds(p) ==
    /\ policy[p].freeLook
    /\ policy' = [policy EXCEPT ![p].freeLook = FALSE]
    /\ UNCHANGED <<received, collected, credits, endorsements, vouchers, call, crashes>>

-----------------------------------------------------------------------------
(* addEndorsement: numbered by what it counts; it posts no voucher          *)

AddEndorsement(c, p, delta) ==
    /\ policy[p].status = "ISSUED"
    /\ Begin(c, Local("endorse", p, NextEndorsement(p), delta, 0))

\* A positive difference is billed by a debit note, a negative one credited.
CommitEndorsement(c) ==
    LET l == call[c] IN
    /\ At(c, "endorse")
    /\ endorsements' = [endorsements EXCEPT ![c] = Endorsement(l.policy, l.of, l.amount)]
    /\ credits' = IF l.amount < 0
                  THEN [credits EXCEPT ![c] = Credit(l.policy, None, 0 - l.amount, FALSE)]
                  ELSE credits
    /\ Finish(c)
    /\ UNCHANGED <<policy, received, collected, vouchers>>

-----------------------------------------------------------------------------
(* recordCommissionReceipt                                                  *)

CommissionReceipt(c, p, a) ==
    /\ received[p] + a <= Terms[p].kept
    /\ Begin(c, Local("commission", p, None, a, received[p] + a))

\* Mutant: the row keeps the last receipt only.
CommitCommission_LastOnly(c) ==
    LET l == call[c] IN
    /\ At(c, "commission")
    /\ received' = [received EXCEPT ![l.policy] = l.amount]
    /\ collected' = [collected EXCEPT ![l.policy] = l.base = Terms[l.policy].kept]
    /\ Post(c, Voucher("RCV", l.policy, l.amount, [cash |-> l.amount, insurers |-> 0 - l.amount]))
    /\ Finish(c)
    /\ UNCHANGED <<policy, credits, endorsements>>

CommitCommission(c) ==
    LET l == call[c] IN
    /\ At(c, "commission")
    /\ received' = [received EXCEPT ![l.policy] = l.base]
    /\ collected' = [collected EXCEPT ![l.policy] = l.base = Terms[l.policy].kept]
    /\ Post(c, Voucher("RCV", l.policy, l.amount, [cash |-> l.amount, insurers |-> 0 - l.amount]))
    /\ Finish(c)
    /\ UNCHANGED <<policy, credits, endorsements>>

-----------------------------------------------------------------------------
(* payables, producers.get, employeeCommissions and their settlements       *)

Share(payee, p) ==
    CASE payee = "insurer" -> Terms[p].total - Terms[p].kept
      [] payee = "producer" -> Terms[p].producer
      [] OTHER -> Terms[p].sales

\* The insurer is owed nothing it collects itself; a salesperson earns when the
\* broker's commission has come in.
CountsFor(payee, p) ==
    /\ payee = "insurer" => ~ Terms[p].direct
    /\ payee = "sales" => collected[p]

Earning(payee) == {p \in Policies : policy[p].status = "ISSUED" /\ CountsFor(payee, p)}
Earned(payee) == SumFunction([p \in Earning(payee) |-> Share(payee, p)])
Paid(payee) == Posted("PYV", payee)

\* Mutant: what was paid before is not counted.
MayPay_Again(payee, a) == a <= Earned(payee)

\* Only policies ISSUED now count, and all that was ever paid.
MayPay(payee, a) == a <= Earned(payee) - Paid(payee)

\* settleInsurer, ProducersService.settle, settleEmployeeCommission.
Settle(c, payee, a) == MayPay(payee, a) /\ Begin(c, Local("settle", None, payee, a, 0))

Expense(payee, a) ==
    CASE payee = "insurer" -> [trust |-> a, cash |-> 0 - a]
      [] payee = "producer" -> [producers |-> a, cash |-> 0 - a]
      [] OTHER -> [staff |-> a, cash |-> 0 - a]

CommitSettle(c) ==
    LET l == call[c] IN
    /\ At(c, "settle")
    /\ Post(c, Voucher("PYV", l.of, l.amount, Expense(l.of, l.amount)))
    /\ Finish(c)
    /\ UNCHANGED <<policy, received, collected, credits, endorsements>>

-----------------------------------------------------------------------------
\* A call dies between its checks and its transaction.
Crash(c) ==
    /\ c \in InFlight
    /\ crashes < MaxCrashes
    /\ crashes' = crashes + 1
    /\ call' = [call EXCEPT ![c] = Over]
    /\ UNCHANGED rows

Start(c) ==
    \/ \E p \in Policies, halves \in 0..2 : CancelPolicy(c, p, halves)
    \/ \E n \in Calls : RefundCreditNote(c, n)
    \/ \E p \in Policies, delta \in Deltas : AddEndorsement(c, p, delta)
    \/ \E p \in Policies, a \in Amounts : CommissionReceipt(c, p, a)
    \/ \E payee \in Payees, a \in Amounts : Settle(c, payee, a)

Continue(c) ==
    CommitCancel(c) \/ CommitRefund(c) \/ CommitEndorsement(c) \/ CommitCommission(c) \/ CommitSettle(c)

Next ==
    \/ \E c \in Calls : Start(c) \/ Continue(c) \/ Crash(c)
    \/ \E p \in Policies : FreeLookEnds(p)

Spec == Init /\ [][Next]_vars
-----------------------------------------------------------------------------
(* Properties                                                               *)

\* The columns hold what their declarations say: a credit note has no negative
\* amount, whichever part of the premium is returned, and endorsements count up.
TypeOK ==
    /\ policy \in [Policies -> [status : {"ISSUED", "CANCELLED"}, freeLook : BOOLEAN]]
    /\ received \in [Policies -> Nat]
    /\ collected \in [Policies -> BOOLEAN]
    /\ credits \in [Calls -> CreditRow \union {None}]
    /\ endorsements \in [Calls -> EndorsementRow \union {None}]
    /\ vouchers \in [Calls -> VoucherRow \union {None}]
    /\ crashes \in 0..MaxCrashes

\* A cancelled policy has its endorsement, its credit note and its reversing
\* journal, all of one cancellation and over the same amount, which is never more
\* than the premium: a call that dies leaves all of them or none.
CancelledIsReversed ==
    \A p \in Policies : policy[p].status = "CANCELLED" =>
        \E c \in Calls :
            /\ vouchers[c] # None /\ credits[c] # None /\ endorsements[c] # None
            /\ vouchers[c].type = "JRV" /\ vouchers[c].of = p
            /\ credits[c].policy = p /\ credits[c].kind = "CNP"
            /\ credits[c].amount = vouchers[c].amount /\ credits[c].amount <= Terms[p].total
            /\ endorsements[c].policy = p

\* A credit note marked refunded has a payment voucher over its amount.
RefundIsVouched ==
    \A n \in Calls : credits[n] # None /\ credits[n].refunded =>
        \E c \in Calls : /\ vouchers[c] # None /\ vouchers[c].type = "refund"
                         /\ vouchers[c].of = n /\ vouchers[c].amount = credits[n].amount

\* However receipts of one commission interleave, the row never shows more than
\* the commission, and shows it as collected only when all of it is in.
CommissionWithinExpected ==
    \A p \in Policies : /\ received[p] <= Terms[p].kept
                        /\ collected[p] => received[p] = Terms[p].kept

\* ... and never shows more than its vouchers add up to: an overwritten receipt is
\* missing from the row, not from the books.
CommissionIsVouched == \A p \in Policies : received[p] <= Posted("RCV", p)

\* What the rows show as paid back or received is in the books.
ShownIsVouched == RefundIsVouched /\ CommissionWithinExpected /\ CommissionIsVouched

Entry(account, entries) == IF account \in DOMAIN entries THEN entries[account] ELSE 0

\* trialBalance: what the journals of issue and the vouchers leave on an account.
Balance(account) ==
    SumFunction([p \in Policies |-> Entry(account, Issued(p))])
      + SumFunction([c \in Made(vouchers) |-> Entry(account, vouchers[c].entries)])

Billed(p) == IF Terms[p].direct THEN 0 ELSE Terms[p].total
Credited == SumFunction([c \in Made(credits) |-> credits[c].amount])
Bills == {c \in Made(endorsements) : endorsements[c].delta > 0}
EndorsedUp == SumFunction([c \in Bills |-> endorsements[c].delta])
Reductions == {c \in Made(credits) : credits[c].kind = None}
EndorsedDown == SumFunction([c \in Reductions |-> credits[c].amount])
Refunds == {c \in Made(vouchers) : vouchers[c].type = "refund"}
Refunded == SumFunction([c \in Refunds |-> vouchers[c].amount])

\* receivables() and statement(): billed less credited, receipts apart.
ClientOwes == SumFunction([p \in Policies |-> Billed(p)]) + EndorsedUp - Credited

\* The clients' account of the general ledger and the clients' subledger differ by
\* exactly what only one of them knows: refunds, which the subledger does not
\* subtract, and endorsements, which post no voucher. So cancellations, however
\* they interleave or die, reach both alike.
ClientsReconcile == Balance("clients") = ClientOwes + Refunded - EndorsedUp + EndorsedDown

-----------------------------------------------------------------------------
(* What holds when calls are served one at a time (MaxInFlight = 1)          *)

\* finance.e2e-spec.ts: a credit note is refunded once, in cash and in full.
RefundedOnce == \A n \in Calls : credits[n] # None => Posted("refund", n) <= credits[n].amount

\* A policy is reversed once, and its cancellation is its last endorsement; the
\* numbers of a policy's endorsements are distinct.
CancellationIsLast ==
    \A p \in Policies :
        /\ Cardinality(Vouchers("JRV", p)) <= 1
        /\ \A c, d \in Endorsements(p) : endorsements[c].number = endorsements[d].number => c = d
        /\ \A c \in Endorsements(p), d \in Vouchers("JRV", p) : endorsements[c].number <= endorsements[d].number

\* The commission row shows exactly what its receipts add up to.
CommissionMatchesVouchers == \A p \in Policies : received[p] = Posted("RCV", p)

\* Whatever is cancelled in between, a payee is never paid more than its share of
\* all the policies ever issued: the insurer of those whose premium the broker
\* collected, the salesperson of those whose commission has come in.
EarnedFrom(payee) ==
    {p \in Policies : /\ payee = "insurer" => ~ Terms[p].direct
                      /\ payee = "sales" => Posted("RCV", p) = Terms[p].kept}

PaidWithinShares ==
    \A payee \in Payees : Paid(payee) <= SumFunction([p \in EarnedFrom(payee) |-> Share(payee, p)])

-----------------------------------------------------------------------------
(* What the documentation says and a cancellation breaks                    *)

\* docs/20: where the insurer collects the premium, nothing is held in trust.
DirectHoldsNoTrust ==
    \A c \in Calls, p \in Policies :
        Terms[p].direct /\ vouchers[c] # None /\ vouchers[c].type = "JRV" /\ vouchers[c].of = p
            => Entry("trust", vouchers[c].entries) = 0
=============================================================================
