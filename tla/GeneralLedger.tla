----------------------------- MODULE GeneralLedger -----------------------------
(***************************************************************************)
(* The broker's own books: vouchers entered by hand, drafted, edited and   *)
(* approved (finance.service.ts), the monthly payroll and its posting      *)
(* (payroll.service.ts), the matching of bank statements with vouchers     *)
(* (bank.service.ts), the client's account an approval opens in the chart, *)
(* the numbers all of them draw (sequence.service.ts) and the statements   *)
(* derived from the vouchers.                                              *)
(*                                                                         *)
(* A call reads and checks, awaits, and writes what it checked; another    *)
(* call may write in between. PostgreSQL runs its transactions at READ     *)
(* COMMITTED, and two unique indexes stand between concurrent inserts.     *)
(* Amounts are in halalas, debits positive and credits negative.           *)
(***************************************************************************)
EXTENDS Integers, FiniteSets, Functions

CONSTANTS
    Calls,          \* calls of the API, numbered in order of arrival
    Kinds,          \* the types of voucher a clerk enters
    Lines,          \* what a clerk may enter as the lines of a voucher
    Periods,        \* months
    Nets,           \* what base salary, allowances and deductions may come to
    Clients,
    BankAccounts,
    MaxInFlight,    \* calls the API serves at a time
    MaxCrashes,     \* calls that may be cut short
    None            \* a null column

\* The type of each account that is posted to (COA_TEMPLATE); "client" stands for the
\* accounts that approvals open, one for each client under "clients".
AccountType ==
    [cash |-> "asset", clients |-> "asset", client |-> "asset", trust |-> "liability",
     capital |-> "equity", income |-> "revenue", salaries |-> "expense"]

Accounts == DOMAIN AccountType
VoucherTypes == {"JRV", "PYV", "RCV", "DPV"}

\* A bank statement of two lines.
TxnIds == Calls \X {1, 2}

Entries == UNION {[D -> Int] : D \in SUBSET Accounts}
VoucherRow ==
    [number : Nat, type : VoucherTypes, status : {"draft", "posted"}, auto : BOOLEAN,
     reference : Calls \union Clients \union {None}, lines : Entries]
RunRow == [period : Periods, status : {"draft", "posted"}, net : Int, voucher : Calls \union {None}]
TxnRow ==
    [account : BankAccounts, status : {"unmatched", "matched", "ignored"}, voucher : Calls \union {None}]
AccountRow == [client : Clients, code : Nat]

ASSUME CallsAssumption == Calls \subseteq Nat /\ IsFiniteSet(Calls)
ASSUME ClientsAssumption == Clients \intersect Calls = {}
ASSUME KindsAssumption == Kinds \subseteq VoucherTypes
ASSUME LinesAssumption == \A l \in Lines : l \in [DOMAIN l -> Int] /\ DOMAIN l \subseteq Accounts
ASSUME NetsAssumption == Nets \subseteq Int
ASSUME BoundsAssumption == MaxInFlight \in Nat /\ MaxCrashes \in Nat
ASSUME NoneAssumption == None \notin VoucherRow \union RunRow \union TxnRow \union AccountRow

VARIABLES
    vouchers,       \* the voucher a call created
    runs,           \* the payroll run a call created, with one line
    txns,           \* the bank transactions a call imported
    accounts,       \* the client's account a call opened: its client and code
    call,           \* where each call is and the values it has read
    crashes

rows == <<vouchers, runs, txns, accounts>>
vars == <<rows, call, crashes>>

-----------------------------------------------------------------------------
Voucher(number, type, status, auto, reference, lines) ==
    [number |-> number, type |-> type, status |-> status, auto |-> auto, reference |-> reference, lines |-> lines]

Run(period, status, net, voucher) == [period |-> period, status |-> status, net |-> net, voucher |-> voucher]
Txn(account, status, voucher) == [account |-> account, status |-> status, voucher |-> voucher]

\* What a call is about (`of`) and what it writes there (`to`), the number it drew
\* and the lines it resolved.
Local(step, of, to, number, lines) ==
    [step |-> step, of |-> of, to |-> to, number |-> number, lines |-> lines]

Idle == Local("idle", None, None, 0, None)
Over == Local("done", None, None, 0, None)

InFlight == {c \in Calls : call[c].step \notin {"idle", "done"}}

Arrive(c, local) ==
    /\ call[c].step = "idle"
    /\ \A d \in Calls : d < c => call[d].step # "idle"
    /\ Cardinality(InFlight) < MaxInFlight
    /\ call' = [call EXCEPT ![c] = local]
    /\ UNCHANGED crashes

Begin(c, local) == Arrive(c, local) /\ UNCHANGED rows

At(c, step) == call[c].step = step
Finish(c) == call' = [call EXCEPT ![c] = Over] /\ UNCHANGED crashes
Fail(c) == Finish(c) /\ UNCHANGED rows

Init ==
    /\ vouchers = [c \in Calls |-> None]
    /\ runs = [c \in Calls |-> None]
    /\ txns = [t \in TxnIds |-> None]
    /\ accounts = [c \in Calls |-> None]
    /\ call = [c \in Calls |-> Idle]
    /\ crashes = 0

-----------------------------------------------------------------------------
(* SequenceService and resolveEntries                                       *)

Entered(row) == {c \in DOMAIN row : row[c] # None}

\* Mutant: the rows are counted from the second on.
NextSeq_Behind(row) == IF Entered(row) = {} THEN 1 ELSE Cardinality(Entered(row))

\* Every number of the application is 1001 plus the rows there are; here, from 1.
NextSeq(row) == Cardinality(Entered(row)) + 1

\* The account of the clients is a heading as soon as one client has its own, which
\* can be posted to from then on.
Postable == Accounts \ {IF Entered(accounts) = {} THEN "client" ELSE "clients"}

Difference(lines) == SumFunction(lines)

\* Mutant: debits are not compared with credits.
Resolves_Unbalanced(lines) ==
    /\ Cardinality(DOMAIN lines) >= 2
    /\ \A a \in DOMAIN lines : a \in Postable /\ lines[a] # 0
    /\ \E a \in DOMAIN lines : lines[a] > 0

\* A line is a debit or a credit, and the two sides may differ by a halala.
Resolves(lines) ==
    /\ Cardinality(DOMAIN lines) >= 2
    /\ \A a \in DOMAIN lines : a \in Postable /\ lines[a] # 0
    /\ \E a \in DOMAIN lines : lines[a] > 0
    /\ Difference(lines) \in -1..1

-----------------------------------------------------------------------------
(* Vouchers entered by hand                                                 *)

\* createJournal posts at once, createManualVoucher leaves a draft.
CreateJournal(c, lines) ==
    Resolves(lines) /\ Begin(c, Local("create", "JRV", "posted", NextSeq(vouchers), lines))

CreateManualVoucher(c, type, lines) ==
    Resolves(lines) /\ Begin(c, Local("create", type, "draft", NextSeq(vouchers), lines))

CommitVoucher(c) ==
    LET l == call[c] IN
    /\ At(c, "create")
    /\ vouchers' = [vouchers EXCEPT ![c] = Voucher(l.number, l.of, l.to, FALSE, None, l.lines)]
    /\ Finish(c)
    /\ UNCHANGED <<runs, txns, accounts>>

UpdateManualVoucher(c, v, lines) ==
    /\ vouchers[v] # None /\ ~ vouchers[v].auto /\ vouchers[v].status = "draft"
    /\ Resolves(lines)
    /\ Begin(c, Local("edit", v, None, 0, lines))

CommitUpdate(c) ==
    LET l == call[c] IN
    /\ At(c, "edit")
    /\ vouchers' = [vouchers EXCEPT ![l.of].lines = l.lines]
    /\ Finish(c)
    /\ UNCHANGED <<runs, txns, accounts>>

ApproveVoucher(c, v) ==
    /\ vouchers[v] # None /\ vouchers[v].status = "draft"
    /\ Begin(c, Local("approve", v, None, 0, None))

CommitApproval(c) ==
    /\ At(c, "approve")
    /\ vouchers' = [vouchers EXCEPT ![call[c].of].status = "posted"]
    /\ Finish(c)
    /\ UNCHANGED <<runs, txns, accounts>>

-----------------------------------------------------------------------------
(* PayrollService                                                           *)

PeriodTaken(period) == \E r \in Entered(runs) : runs[r].period = period

CreateRun(c, period) == ~ PeriodTaken(period) /\ Begin(c, Local("run", period, None, 0, None))

\* The unique index refuses the second of two inserts.
CommitRun(c) ==
    /\ At(c, "run")
    /\ IF PeriodTaken(call[c].of)
       THEN Fail(c)
       ELSE /\ runs' = [runs EXCEPT ![c] = Run(call[c].of, "draft", 0, None)]
            /\ Finish(c)
            /\ UNCHANGED <<vouchers, txns, accounts>>

Draft(r) == runs[r] # None /\ runs[r].status = "draft"

UpdateLine(c, r, net) == Draft(r) /\ Begin(c, Local("line", r, net, 0, None))

\* The line of a run that was removed is gone, and its update an error.
CommitLine(c) ==
    LET l == call[c] IN
    /\ At(c, "line")
    /\ IF runs[l.of] = None
       THEN Fail(c)
       ELSE /\ runs' = [runs EXCEPT ![l.of].net = l.to]
            /\ Finish(c)
            /\ UNCHANGED <<vouchers, txns, accounts>>

\* Mutant: a run is posted whatever its status.
PostRun_Again(c, r) ==
    /\ runs[r] # None
    /\ runs[r].net > 0
    /\ Begin(c, Local("post", r, runs[r].net, NextSeq(vouchers), None))

PostRun(c, r) ==
    /\ Draft(r)
    /\ runs[r].net > 0
    /\ Begin(c, Local("post", r, runs[r].net, NextSeq(vouchers), None))

Salaries(c) ==
    LET l == call[c] IN
    Voucher(l.number, "JRV", "posted", TRUE, l.of, [salaries |-> l.to, cash |-> 0 - l.to])

\* Mutant: the run is marked first, and the voucher posted by a call of its own.
CommitPost_NoVoucher(c) ==
    /\ At(c, "post")
    /\ runs[call[c].of] # None
    /\ runs' = [runs EXCEPT ![call[c].of].status = "posted", ![call[c].of].voucher = c]
    /\ Finish(c)
    /\ UNCHANGED <<vouchers, txns, accounts>>

\* Voucher and mark in one transaction, which fails when the run is gone.
CommitPost(c) ==
    LET r == call[c].of IN
    /\ At(c, "post")
    /\ IF runs[r] = None
       THEN Fail(c)
       ELSE /\ vouchers' = [vouchers EXCEPT ![c] = Salaries(c)]
            /\ runs' = [runs EXCEPT ![r] = Run(@.period, "posted", @.net, c)]
            /\ Finish(c)
            /\ UNCHANGED <<txns, accounts>>

RemoveRun(c, r) == Draft(r) /\ Begin(c, Local("remove", r, None, 0, None))

\* deleteMany: no error when there is nothing left to delete.
CommitRemove(c) ==
    /\ At(c, "remove")
    /\ runs' = [runs EXCEPT ![call[c].of] = None]
    /\ Finish(c)
    /\ UNCHANGED <<vouchers, txns, accounts>>

-----------------------------------------------------------------------------
(* BankService                                                              *)

ImportTransactions(c, b) ==
    /\ Arrive(c, Over)
    /\ txns' = [t \in TxnIds |-> IF t[1] = c THEN Txn(b, "unmatched", None) ELSE txns[t]]
    /\ UNCHANGED <<vouchers, runs, accounts>>

\* Mutant: a voucher is matched whatever it is matched with already.
Match_Twice(c, t, v) ==
    /\ txns[t] # None /\ vouchers[v] # None
    /\ txns[t].status # "matched"
    /\ vouchers[v].type \in {"RCV", "PYV"}
    /\ Begin(c, Local("match", t, v, 0, None))

\* A draft can be matched, and so can a voucher matched in another account.
Match(c, t, v) ==
    /\ txns[t] # None /\ vouchers[v] # None
    /\ txns[t].status # "matched"
    /\ vouchers[v].type \in {"RCV", "PYV"}
    /\ ~ \E u \in Entered(txns) : txns[u] = Txn(txns[t].account, "matched", v)
    /\ Begin(c, Local("match", t, v, 0, None))

CommitMatch(c) ==
    LET l == call[c] IN
    /\ At(c, "match")
    /\ txns' = [txns EXCEPT ![l.of] = Txn(@.account, "matched", l.to)]
    /\ Finish(c)
    /\ UNCHANGED <<vouchers, runs, accounts>>

\* setStatus: an ignored transaction keeps the voucher it was matched with.
SetStatus(c, t, status) ==
    /\ txns[t] # None
    /\ Arrive(c, Over)
    /\ txns' = [txns EXCEPT ![t] = Txn(@.account, status, IF status = "unmatched" THEN None ELSE @.voucher)]
    /\ UNCHANGED <<vouchers, runs, accounts>>

-----------------------------------------------------------------------------
(* approvePolicy, as far as it opens the client's account                   *)

\* Its journal: what the client owes, what of it is held in trust, and the income.
Premium == [clients |-> 3, trust |-> -2, income |-> -1]

AccountsOf(client) == {a \in Entered(accounts) : accounts[a].client = client}

ApprovePolicy(c, client) == Begin(c, Local("issue", client, None, NextSeq(vouchers), None))

\* In the transaction: is there an account, how many are there, then the insert.
FindAccount(c) ==
    LET l == call[c] IN
    /\ At(c, "issue")
    /\ call' = [call EXCEPT ![c] = Local(IF AccountsOf(l.of) = {} THEN "count" ELSE "issued", l.of, 0, l.number, None)]
    /\ UNCHANGED <<rows, crashes>>

CountAccounts(c) ==
    LET l == call[c] IN
    /\ At(c, "count")
    /\ call' = [call EXCEPT ![c] = Local("issued", l.of, NextSeq(accounts), l.number, None)]
    /\ UNCHANGED <<rows, crashes>>

IssueVoucher(c) ==
    vouchers' = [vouchers EXCEPT ![c] = Voucher(call[c].number, "JRV", "posted", TRUE, call[c].of, Premium)]

\* The unique index on the code rolls the whole approval back.
CommitIssue(c) ==
    LET l == call[c] IN
    /\ At(c, "issued")
    /\ IF l.to # 0 /\ \E a \in Entered(accounts) : accounts[a].code = l.to
       THEN Fail(c)
       ELSE /\ IssueVoucher(c)
            /\ accounts' = IF l.to = 0 THEN accounts ELSE [accounts EXCEPT ![c] = [client |-> l.of, code |-> l.to]]
            /\ Finish(c)
            /\ UNCHANGED <<runs, txns>>

-----------------------------------------------------------------------------
\* A call dies before its statement or its transaction commits.
Crash(c) ==
    /\ c \in InFlight
    /\ crashes < MaxCrashes
    /\ crashes' = crashes + 1
    /\ call' = [call EXCEPT ![c] = Over]
    /\ UNCHANGED rows

StartVoucher(c) ==
    \/ \E l \in Lines : CreateJournal(c, l)
    \/ \E type \in Kinds, l \in Lines : CreateManualVoucher(c, type, l)
    \/ \E v \in Calls, l \in Lines : UpdateManualVoucher(c, v, l)
    \/ \E v \in Calls : ApproveVoucher(c, v)
    \/ \E client \in Clients : ApprovePolicy(c, client)

StartPayroll(c) ==
    \/ \E period \in Periods : CreateRun(c, period)
    \/ \E r \in Calls, net \in Nets : UpdateLine(c, r, net)
    \/ \E r \in Calls : PostRun(c, r) \/ RemoveRun(c, r)

StartBank(c) ==
    \/ \E b \in BankAccounts : ImportTransactions(c, b)
    \/ \E t \in TxnIds, v \in Calls : Match(c, t, v)
    \/ \E t \in TxnIds, status \in {"unmatched", "ignored"} : SetStatus(c, t, status)

Continue(c) ==
    \/ CommitVoucher(c) \/ CommitUpdate(c) \/ CommitApproval(c)
    \/ CommitRun(c) \/ CommitLine(c) \/ CommitPost(c) \/ CommitRemove(c)
    \/ CommitMatch(c)
    \/ FindAccount(c) \/ CountAccounts(c) \/ CommitIssue(c)

Next == \E c \in Calls : StartVoucher(c) \/ StartPayroll(c) \/ StartBank(c) \/ Continue(c) \/ Crash(c)

Spec == Init /\ [][Next]_vars
-----------------------------------------------------------------------------
(* The statements, each derived from all the vouchers there are             *)

On(account, v) == IF account \in DOMAIN vouchers[v].lines THEN vouchers[v].lines[account] ELSE 0

\* trialBalance and ledger.
Balance(account) == SumFunction([v \in Entered(vouchers) |-> On(account, v)])

\* balanceSheet: the income of the period is part of the equity.
OfType(type) == SumFunction([a \in {b \in Accounts : AccountType[b] = type} |-> Balance(a)])
NetIncome == 0 - OfType("revenue") - OfType("expense")
LiabilitiesAndEquity == NetIncome - OfType("liability") - OfType("equity")

CashMoves == {v \in Entered(vouchers) : On("cash", v) # 0}
NetChange == SumFunction([v \in CashMoves |-> On("cash", v) - Difference(vouchers[v].lines)])

\* reconciliation: the lines matched in an account, and the vouchers left over.
Matched(b) == {t \in Entered(txns) : txns[t].account = b /\ txns[t].status = "matched"}
CashVouchers == {v \in Entered(vouchers) : vouchers[v].type \in {"RCV", "PYV"}}
UnmatchedVouchers(b) == CashVouchers \ {txns[t].voucher : t \in Matched(b)}

-----------------------------------------------------------------------------
(* Properties                                                               *)

\* The columns hold what their declarations say.
TypeOK ==
    /\ vouchers \in [Calls -> VoucherRow \union {None}]
    /\ runs \in [Calls -> RunRow \union {None}]
    /\ txns \in [TxnIds -> TxnRow \union {None}]
    /\ accounts \in [Calls -> AccountRow \union {None}]
    /\ crashes \in 0..MaxCrashes

ByHand(S) == Cardinality({v \in S : ~ vouchers[v].auto})

\* However drafts are edited and approved, the two sides of the balance sheet
\* differ by a halala for each voucher entered by hand at most.
BooksBalance ==
    LET n == ByHand(Entered(vouchers)) IN OfType("asset") - LiabilitiesAndEquity \in (0 - n)..n

\* The cash flow statement ends at the balance of the cash account, but for a
\* halala for each voucher entered by hand that moves cash.
CashReconciles ==
    LET n == ByHand({v \in Entered(vouchers) : On("cash", v) # 0})
    IN  NetChange - Balance("cash") \in (0 - n)..n

\* The statements derived from the vouchers agree with each other.
StatementsAgree == BooksBalance /\ CashReconciles

\* A posted payroll run names a voucher that is there and is over this run: a call
\* that dies leaves both or neither, and no two runs name one voucher.
RunIsVouched ==
    \A r \in Entered(runs) : runs[r].status = "posted" =>
        /\ runs[r].voucher \in Entered(vouchers)
        /\ vouchers[runs[r].voucher].reference = r

\* However calls interleave, a month has one payroll run.
OneRunPerPeriod == \A r, s \in Entered(runs) : runs[r].period = runs[s].period => r = s

PayrollVouchers(r) == {v \in Entered(vouchers) : vouchers[v].auto /\ vouchers[v].reference = r}

\* post looks at the status outside its transaction, so calls that read the draft
\* together each book its salaries: but no call that comes after one of them, nor
\* more of them than are served at a time, however the run is edited or removed.
PostsAreBounded == \A r \in Calls : Cardinality(PayrollVouchers(r)) <= MaxInFlight

\* What the books say of a payroll run: a posted one is vouched, a month has one, and
\* its salaries are booked by no more calls than can have read it as a draft.
PayrollIsVouched == RunIsVouched /\ OneRunPerPeriod /\ PostsAreBounded

\* However approvals interleave, no two accounts of the chart have one code.
CodesAreDistinct == \A a, b \in Entered(accounts) : accounts[a].code = accounts[b].code => a = b

\* A matched bank transaction names a receipt or a payment that exists.
MatchedIsCash ==
    \A t \in Entered(txns) : txns[t].status = "matched" =>
        /\ txns[t].voucher \in Entered(vouchers)
        /\ vouchers[txns[t].voucher].type \in {"RCV", "PYV"}

-----------------------------------------------------------------------------
(* What holds when calls are served one at a time (MaxInFlight = 1)          *)

\* Vouchers are numbered one by one, whatever calls fail or die.
NumbersAreGapless ==
    /\ {vouchers[v].number : v \in Entered(vouchers)} = 1..Cardinality(Entered(vouchers))
    /\ {accounts[a].code : a \in Entered(accounts)} = 1..Cardinality(Entered(accounts))

\* A payroll voucher belongs to a run that still exists, is over its net, and is
\* the run's only one.
RunMatchesVoucher ==
    \A v \in Entered(vouchers) : vouchers[v].auto /\ vouchers[v].reference \in Calls =>
        LET r == vouchers[v].reference IN
        /\ runs[r] # None /\ runs[r].status = "posted"
        /\ runs[r].voucher = v
        /\ vouchers[v].lines["salaries"] = runs[r].net

\* The matched lines of a bank account and the vouchers its reconciliation lists as
\* unmatched are together the receipts and payments there are, each once.
ReconciliationAddsUp ==
    \A b \in BankAccounts :
        Cardinality(Matched(b)) + Cardinality(UnmatchedVouchers(b)) = Cardinality(CashVouchers)

\* A client has one account in the chart at most.
OneAccountPerClient == \A client \in Clients : Cardinality(AccountsOf(client)) <= 1

=============================================================================
