# A TLA+ model of the NX-IBP back end

NX-IBP is a multi-tenant platform for insurance brokers in Saudi Arabia: a NestJS
API over PostgreSQL (through Prisma) and Redis, and a Next.js web client. This
directory holds TLA+ modules that model the parts of the API where an
interleaving, a crash or an order of calls decides whether the books are right,
the configurations with which TLC checks them, and theorems about them that TLAPS
checks. `PROJECT.json` lists the components, the runs, the mutants each property
is tested with, the source lines each definition stands for, the findings, the
hazards and the theorems.

Paths below are relative to `src/apps/api/src/modules/` unless they say otherwise.

## 1. Inventory

### How the program executes

Every operation is an HTTP request (or a timer) served by an async handler of a
Node.js process; several requests, and several processes, are in progress at once.
A handler *reads* rows, *checks* them, and *writes*; there is an `await` between
any two of these, where other requests run. PostgreSQL runs at READ COMMITTED, the
default that nothing in the repository changes: inside `$transaction` a plain
SELECT sees the last committed state and waits for nobody, and only an UPDATE
takes a row lock, which it holds to the commit. Almost every check of the code is
made outside the transaction that acts on it, and the update that follows goes by
primary key, without the checked status in its `where`. Neither the numbers of
vouchers and invoices nor most "at most one" rules have a unique index. So the
hard behaviours are:

* **check, then act** by two requests on one row (double receipts, double posting);
* **stale values written back** (a settled amount, a list of pending steps, a status);
* **several transactions in one handler**, with a crash or a failed call between them;
* **callbacks**: a payment webhook delivered twice, late, or during a confirm;
* **timers that overlap** with themselves (the reporting queue, reminder sweeps);
* **one step back**: reverts that interleave with the approvals they undo.

### Components

| Component | State it keeps | Operations | What makes it correct | Module |
|---|---|---|---|---|
| receivables and installments (`finance/finance.service.ts`) | DebitNote.settledAmount, RCV vouchers, Installment rows | recordReceipt, generateInstallments, replaceInstallments | never collect more than is owed; note, ledger and plan agree; oldest installment first | `Receivables`, `InstallmentPlan`, `Receivable` |
| client card payments (`payments/payment-charge.service.ts`) | PortalPayment rows; the charge at the gateway | createCharge, confirm, webhook, settle | one receipt for a captured charge, none otherwise; PAID is final | `Receivables` |
| tax documents (`finance/zatca/`) | BillingDocument rows, counter and last hash of the tenant, Redis list | createInTx, route, drain | gapless numbers, one unbroken hash chain, each document accepted once, none lost | `ZatcaDocuments` |
| issuance and approvals (`production/production.service.ts`, `approvePolicy`) | PolicyRequest.status, Policy.status, pendingApprovals, audit entry of the issue | issuePolicy, approveTechnical, approveStep, approvePolicy | no gate skipped, books posted once, issuer does not approve | `PolicyApproval` |
| one step back (`revert/revert.service.ts`) | the same rows | revert of a policy and of a request | an issued policy stays; a reverted one is approved anew | `PolicyApproval`, `Pipeline` |
| approval-chain configuration (`config/config.service.ts`) | TenantConfig.approvalChains | setPolicyApprovalConfig | a change mid-way skips nothing that was always required | `PolicyApproval` |
| audit log (`../common/audit`) | append-only entries | log, which swallows its failures | the issuer's entry is the only one other code depends on | `PolicyApproval` (that entry) |
| policy ledger after issue (`finance/finance.service.ts`) | policy status, commission, credit notes, endorsements, vouchers | cancelPolicy, addEndorsement, refundCreditNote, recordCommissionReceipt, settleInsurer | a cancellation is whole and happens once; refunds and settlements at most what is due; ledger and subledger agree | `PolicyLedger` |
| producer and employee commissions (`producers`, `hr`) | PYV vouchers | settle | not beyond what was earned | `PolicyLedger` |
| manual vouchers, chart of accounts, statements | drafts, accounts | create, update, approve; trial balance, balance sheet, cash flow | the statements agree with each other | `GeneralLedger` |
| numbering (`../common/sequence`) | none (counts rows) | next...Seq | no number twice | `GeneralLedger` |
| payroll and bank (`payroll`, `bank`) | run, line, voucher; bank lines and their matches | create, edit, post, remove; import, match, setStatus | the voucher says what the run says; one voucher per bank line | `GeneralLedger` |
| deals and renewals (`crm`, `renewals`), requests (`requests`) | deal, request, its block rows | updateDeal, convertDeal, initiate, create, update | at most one request per deal and one renewal per policy, whole | `Pipeline` |
| slips and quotations (`underwriting/slips.service.ts`), client portal (`portal`) | slip, quotations, the client's decision | createSlip, sendRfq, addQuotation, selectQuotation, present, accept, decline | one firm order, and the policy follows it; an acceptance stays | `Pipeline` |
| cover notes (`cover-notes`) | CoverNote rows | issue, cancel, replaced by the policy | one in force, none beside its policy | `Pipeline` |
| subscription billing and seats (`billing`, `staff`) | invoices, licence, members | checkout, confirm, webhook, activate, add and offboard a member | a paid invoice counts once; members within the licence | `TenantAccount` |
| sessions (`auth`) | RefreshToken rows | login, refresh, logout | a token is rotated once; a logout ends the session | `TenantAccount` |
| tenant standing and access (`platform`, `access`) | Tenant.status, renewal date, a cache of a minute | setStatus, setRenewal, resolve, invalidate | a suspension takes effect and stays | `TenantAccount` |
| reminders, scheduled reports (`reminders`, `reports`) | reminded-at marks, nextRunAt | sweeps, runNow | each is sent, in the end, and not often | `Reminders` |
| verification wallet, storage quota (`verification`, `documents`) | balance and its ledger; used bytes | pay per check; reserve, reconcile, release | balance = ledger; never above the quota; counter = what is stored | `Allowances` |

They interact by calls and by shared rows. `payments` calls `recordReceipt` for
a captured charge. `approvePolicy` posts the debit note that receipts are later
recorded on, opens the client's account in the chart, calls `createInTx` in its own
transaction and the router after its commit. `issuePolicy`, the approvals and
`revert` write the same policy and request rows, and the audit log is read back to
find out who issued a policy. A slip is moved by the broker (`slips`) and by the
client (`portal`). `billing`, `staff` and `platform` write the tenant's row, whose
effect `access` caches.

Listed in `PROJECT.json` and left out: see section 7.

## 2. Plan

Most important behaviour first: money and the legal record, then what feeds them,
then what surrounds them.

| # | Module | Composes | Abstract specification, main properties | Proved |
|---|---|---|---|---|
| 1 | `InstallmentPlan`, `Receivables` | receipts, plans, card payments | `Receivable` | what is collected is recorded, within the note, under any interleaving; card receipts have their capture and are posted once one request at a time; no installment holds more than its amount, and plan and note agree one request at a time; the refinement of `Receivable` one request at a time |
| 2 | `ZatcaDocuments` | approval's transaction, router, drains | - | numbering, direction of the chain, accepted before marked and once; one chain when served one at a time |
| 3 | `PolicyApproval` | issuance, approvals, cancellation, revert, awards, configuration | - | no gate skipped, what shows as issued was posted; one at a time, books once, a new approval after a step back, two pairs of eyes |
| 4 | `PolicyLedger` | cancellation, endorsements, refunds, commission, settlements | the clients' subledger against the general ledger | cancellations are whole, refunds and commission vouched, ledger and subledger reconcile; one at a time, rows match vouchers and no payee gets more than its share |
| 5 | `GeneralLedger` | manual vouchers, payroll, bank, numbering, statements | - | the statements agree, payroll is vouched and booked again only by calls in progress together, codes are distinct, matches name cash vouchers; one at a time, numbers without gaps, one account per client, the reconciliation adds up |
| 6 | `Pipeline` | deals, renewals, requests, slips, portal, cover notes, issue, the reviews' writes to the request | - | one firm order, conversions are whole; one at a time, nothing made twice, a policy was ordered and its request shows its stage, acceptances stay |
| 7 | `TenantAccount` | billing, staff, sessions, platform, access cache | - | nothing is activated unpaid; one at a time, seats are paid, sessions end, suspensions hold |
| 8 | `Reminders` | five passes of a sweep, plan replacement, schedules | - | nothing is marked without a notice, and notices repeat no more often than sweeps overlap and steps fail |
| 9 | `Allowances` | wallet, storage quota | - | the wallet follows its ledger, its overdraft is bounded, the quota is kept and its counter adds up |

All nine are there, and every safety property of a passing run is proved; what only a
run shows is liveness. What the plan leaves to whoever continues: the request's life from `Pipeline` through
`PolicyApproval` to `PolicyLedger` in one composed module, whose state space needs a
coarser grain of the three.

Conventions. Bounds, actors and `None` are CONSTANTS with named assumptions; there
is one action per stretch of code between two awaits that matter; `Begin`,
`Continue` and `Crash` have the same meaning in each module; no operator is
RECURSIVE, because TLAPS loses its SMT solver in a module that reaches one. For
every component there are three questions: what survives concurrency, what holds
when calls are served one at a time, and what a document promises that the code
does not keep. The first two are asked in one run of the component, whose `load`
(section 4) tells the two apart.

## 3. The modules

### InstallmentPlan
Pure operators: the quick and custom schedules of `buildInstallmentRows` and the
oldest-first spread of `applyInstallmentWaterfall`. Money is counted in halalas,
the unit `r2` rounds to, so the code's tolerance of 0.001 is zero and that of 0.01
is one halala. `Waterfall` returns the rows the loop writes, with the absolute
value it writes into each, because that is what can be lost.

### Receivables
One action per stretch between awaits:

| Code | Actions |
|---|---|
| `recordReceipt` | `RecordReceipt` (read, check), `LockNote` (the UPDATE takes the row lock; installments read under it), `CommitReceipt` |
| `createCharge` | `CreateCharge` (check, insert), `RegisterCharge` (gateway, save the charge) |
| `confirm` | `Confirm` (read), `RetrieveCharge` (ask the gateway), `WriteStatus` or `Settle` |
| `handleWebhook` | `Webhook`, `Settle` |
| `settle` | `Settle` (calls `recordReceipt`), the receipt's actions, `MarkPaid` |
| `generateInstallments` | `GenerateInstallments`, `InsertRows`, `ReadRows`, `WriteRow` once per row |
| `replaceInstallments` | `ReplaceInstallments`, `DeleteRows`, `CommitReplace` |
| outside | `ClientPays`, `Crash` |

`req` and `todo` are the handler's local variables: what they hold may be stale
when it is used, and that is the point. A commit is one step because the
transaction's writes become visible together; the row lock is explicit because
receipts wait for it. A request that the code refuses changes nothing and has no
action of its own. `posted` is a history variable, the ledger's sum per note; the
voucher rows themselves are in `vouchers`. The signature of a webhook is taken as
valid.

### Receivable
What a reader of the comments would expect: what is owed only goes down, by what
is collected. `Receivables` refines it when requests are served one at a time.

### ZatcaDocuments
`ReadConfig` is the SELECT of the last hash, `BumpCounter` the increment that
takes the lock on the configuration row, `Commit` shows documents, counter and
hash; `Enqueue`, `Clear` and `Stamp` are the router; `StartDrain`, `Pop`,
`Report` and `MarkReported` the drain; `RouteFails`, `Abort` and `DrainFails` the
failures. A document's hash is taken to be the document (no collisions); XML,
QR and signature contents are left out. Every interleaving of drains is allowed:
the timer is a `setInterval` that does not wait for the previous drain. The
authority accepts or refuses and does not remember; `acks` counts what it accepted.

### PolicyApproval
One request and every policy issued from it (a policy is named by the call that
created it). Each handler is two steps, what it reads and checks and what its
transaction writes, with the values carried between them in `call`. `signed`
records which approvals a policy was really given, `voided` those that a revert has
taken back, `issuer` who really issued it: none of the three is visible to the
code, which has only `pendingApprovals` and the audit entry `issuerLog`. That entry
is written after the transaction, by a service that swallows its failures, so
`Crash` at that point stands for both. The configuration is read twice in a
handler and is taken to be the same both times. `approvePolicy` computes
notes, vouchers, accounts and tax documents in `CommitBooks`, one transaction; what
they contain is left out, and so is the collision of two new account codes, which
makes the transaction fail (`Crash`). `CancelPolicy` and `CommitCancel` are what
`cancelPolicy` reads and writes of the two statuses: the policy becomes CANCELLED and
the request stays ISSUED, so `IssuedWasPosted` asks for a policy that is or was issued.
Its books are in `PolicyLedger`. The portal's `acceptProposal` moves the
request as `SelectQuotation` does.

### PolicyLedger
Begins with policies that are ISSUED. `Terms` gives each its total, the commission
kept, whether the insurer collects the premium itself (`direct`), and the shares of
producer and salesperson; `Issued` is the journal entry `approvePolicy` posted.

| Code | Actions |
|---|---|
| `cancelPolicy` | `CancelPolicy` (reads, works out the returned part), `CommitCancel` (policy, voucher, credit note, endorsement); `FreeLookEnds` is the calendar |
| `addEndorsement` | `AddEndorsement`, `CommitEndorsement` (endorsement and note) |
| `refundCreditNote` | `RefundCreditNote`, `CommitRefund` |
| `recordCommissionReceipt` | `CommissionReceipt`, `CommitCommission` |
| `settleInsurer`, producers' `settle`, `settleEmployeeCommission` | `Settle`, `CommitSettle`, one action for the three, which differ in what counts as earned (`Share`, `CountsFor`) and in the accounts (`Expense`) |
| `trialBalance`, `receivables`, `statement`, `payables` | `Balance`, `ClientOwes`, `Earned`, `Paid`: derived, as in the code |

An amount stands for itself with its VAT. The policies share client, insurer,
producer and salesperson, so that settlements of one meet the other.

### GeneralLedger

| Code | Actions |
|---|---|
| `createJournal`, `createManualVoucher` | `CreateJournal`, `CreateManualVoucher` (`Resolves` is `resolveEntries`), `CommitVoucher` |
| `updateManualVoucher`, `approveVoucher` | `UpdateManualVoucher`, `CommitUpdate`; `ApproveVoucher`, `CommitApproval` |
| `payroll.service` | `CreateRun`, `CommitRun`; `UpdateLine`, `CommitLine`; `PostRun`, `CommitPost`; `RemoveRun`, `CommitRemove` |
| `bank.service` | `ImportTransactions` (two lines), `Match`, `CommitMatch`, `SetStatus` |
| `approvePolicy`, what it does to vouchers and to the chart | `ApprovePolicy`, `FindAccount`, `CountAccounts`, `IssueVoucher`, `CommitIssue` |
| `sequence.service` | `NextSeq`, read with the other reads of a call |
| `trialBalance`, `balanceSheet`, `cashFlow`, `reconciliation` | `Balance`, `OfType`, `NetIncome`, `CashMoves`, `NetChange`, `Matched`, `UnmatchedVouchers` |

The chart has `clients`, the parent of the clients' accounts, and `client`, which stands
for all of the level-3 accounts `approvePolicy` opens; `Postable` lets a voucher post to
those that are there and are no headings, and the parent becomes a heading with the
first client. Amounts are signed: debits positive, credits negative. The unique indexes of
payroll periods and account codes are guards of the commits; a violation makes
the call fail. A voucher's number has no such index.

### Pipeline
Rows are named by the call that created them, and 0 is a row that was there: a
request with a slip being quoted, and a policy about to expire.

| Code | Actions |
|---|---|
| `crm`: `updateDeal`, `convertDeal` | `UpdateDeal`, `CommitDeal`; `ConvertDeal`, `CommitConvert` |
| `renewals.initiate` | `InitiateRenewal`, `CreateRenewal`, `CopyBlocks` (a transaction each) |
| `requests` | `CreateRequest`, `CommitRequest`; `UpdateRequest`, `CommitUpdate` |
| `revert` of a request | `RevertRequest`, `CommitRevert` |
| `slips` | `CreateSlip`, `CommitSlip`; `SendRfq`, `Mail`, `RecordMail`; `AddQuotation`, `CommitQuotation`; `SelectQuotation`, `CommitSelect`; `Present`, `CommitPresent` |
| `portal` | `AcceptProposal`, `CommitAccept`; `DeclineProposal`, `CommitDecline` |
| `cover-notes` | `IssueCover`, `CommitCover`; `CancelCover`, `CommitCancelCover` |
| `issuePolicy`, its effect on slip, request and cover note | `IssuePolicy`, `CommitIssue` |
| `approveTechnical`, `approvePolicy`, `revert` of a policy, `cancelPolicy`, their writes to policy and request | `ApproveTechnical`, `ApprovePolicy`, `RevertPolicy`, `CancelPolicy`, then `CommitReview` |

`mailed` records which insurers really got the request for quotation, which the code
knows only from the row it writes afterwards. The reviews are here for what they write to
`PolicyRequest.status`, because a slip can be ordered again after a policy was issued
from it: the request is AWARDED again, and an approval or a step back of the policy moves
it on. So a policy need not follow the present order; it was made of an offer that was
ordered for its request (`PolicyWasOrdered`), and a request past its award shows the stage
of one of its policies (`RequestShowsItsPolicy`). Extra steps, segregation of duties and
the books are left to `PolicyApproval`.

### TenantAccount

| Code | Actions |
|---|---|
| `billing` | `Checkout`, `CreateInvoice`, `CreateCharge`, `StoreCharge`; `Confirm`, `Retrieve`, `Mark`; `Webhook`; `Activate`; `Settle` is the customer at the gateway |
| `staff` | `CreateMember`, `CommitMember`; `Offboard`, `Disable`, `CountSeats`, `SyncSeats` |
| `auth` | `Login`, `Refresh`, `Rotate`, `IssueToken`, `Logout`, `Revoke` |
| `platform` | `SetStatus`, `SetRenewal`, `CommitStanding`, `Invalidate` |
| `access` | `ReadStatus`, `ComputeAccess`, `StoreAccess`, `CacheExpires`; `Access` is the answer itself |
| outside | `RenewalPasses`, `TrialEnds`, `Fail`, `Restart` (the cache is lost) |

A token's row says only that it is revoked; the model also says whether by an
exchange or by a logout, and from which login it descends (`login`): both are
history that the code cannot see. `returned` records the seats given back.

### Reminders
A sweep goes through five passes; in each it lists what the query finds (`NextPass`),
and for each row first notifies (`Notify`) and then marks (`Mark`). `Fault` is a
statement that fails: it ends the sweep, except in the pass of the reports, whose loop
catches (`Thrown`). Meanwhile days pass, rows are closed, `ReplacePlan` and
`RemoveSchedule` delete, `RunNow` and `RunDone` send a report by hand. Time is what
the queries tell apart: a date is later, near or due.

### Allowances
The wallet: `Verify` (let in while the balance is above zero), `Charge` (an atomic
decrement, with its ledger row), `RecordCheck`. The quota: `Upload`, `Ensure`,
`Baseline`, `Reserve` (the conditional UPDATE), `CreateDocument` or `CreateFails` and
`Release`; `Receive`, `Put`, `ReadSize` or `Confirm`, `Head`, `Measure`, then
`Reconcile`. `DirectPut` is a client that uploads to the object store without the API. The quota is a
variable: `ChangePlan` sets it to any of `Quotas`, which may be less than what is stored,
and `ReadQuota` is the read on which `Reserve` acts later. `ceiling` is history, the
largest quota there has been or what was stored before the counter began: what a lowered
quota no longer covers stays, so that the ceiling, not the present quota, bounds the counter.

## 4. The runs

A component has one passing run. It checks several *loads* at once: the MC module has
a variable `load`, chosen in `MCInit` and never changed, which says how many calls
are served at a time, how many are made, how many may die, and sometimes of which
kind they are. `Within` keeps a behaviour inside its load. A property that holds
only one call at a time is stated as `load.atOnce = 1 => ...` and named `Serial...`;
the others hold under every load.

| Run | Loads | Distinct states | What it shows |
|---|---|---|---|
| `receivables` | 1 note of 3 halalas, 1 card payment, 3 schedules; 4 requests two at a time with 1 death; 5 one after the other with 2 | 319k | settled within the note and backed by vouchers; PAID has its own receipt; receipts only for captured charges, and one each when serial; no installment over its amount, and when serial oldest first and plan = note; the refinement of `Receivable`; every request is answered |
| `zatca` | 2 approvals at a time with refusals, 3 one after the other; 2 drains of one document, 1 fault | 172k | gapless numbers; the chain points backwards, and is unbroken when serial; marked only when accepted, accepted at most once; nothing stays PENDING while nothing failed |
| `policy` | 5 calls two at a time between two gated chains, 6 one after the other with and without the gate; 2 users, 1 death | 281k | no required approval skipped; what shows as issued, or was until it was cancelled, is posted; serial: books once, approved anew after a revert, issuer does not approve |
| `policy_ledger` | 3 calls two at a time, 4 one after the other, with 1 death; a collected and a direct policy | 252k | a cancellation is whole; refunds and commission are vouched; ledger and subledger differ by what only one of them knows; serial: rows and vouchers say the same, no payee beyond its share |
| `general_ledger` | 3 calls two at a time, 6 of payroll alone two at a time, 4 one after the other, with 1 death; 2 clients, 1 bank account, 1 month | 82k | the statements agree, up to a halala per manual voucher; a posted payroll is vouched, and booked by no more calls than are in progress together; codes distinct; serial: numbers gapless, one account per client, the reconciliation adds up |
| `pipeline` | 3 calls two at a time, 4 one after the other, with 1 death; a deal, a request being quoted, an expiring policy, 2 insurers | 269k | one firm order; a converted deal names its request; serial: nothing made twice, a policy was ordered, its request shows its stage, the acceptance stays |
| `tenant_account` | 2 calls at a time with 1 failure, 3 one after the other, of two kinds at a time; 3 persons, 2 seats | 388k | nothing is activated unpaid; a stale access answer does not last; serial: seats, suspension, sessions |
| `reminders` | 2 sweeps and 1 fault, or 1 sweep and 2, on different rows | 189k | nothing marked without a notice; repeats bounded by sweeps and faults; what is due is reminded of |
| `allowances` | 5 verifications on 2 operations, 4 uploads on a quota of 4, 3 on one that changes between 1 and 4 with 1 death or with files unlike announced, three at a time | 589k | the wallet is its ledger, and overdrawn only by calls let in beside the last; the counter within the largest quota so far, and equal to the documents |
| `receivables_overcollect` | 4 requests, 2 at a time | violation | two receipts collect more than the note |
| `zatca_lost` | 1 approval, 1 drain, 1 fault, fairness | violation | a popped document is lost |
| `policy_ledger_direct` | 1 call | violation | a cancelled direct policy reverses a trust that was never booked |

Why the bounds are enough. A race in this code is between what one call read and one
other call's write, so two in flight at a time reach it; the calls before and after
set the stage and expose the damage. Three halalas is the least amount for which the
quick schedule rounds (2 + 1), a note can be settled in parts or at once, and one
halala too much is expressible. Two rows per plan separate older from newer. Three
approvals give a document a neighbour on both sides; a drain that takes one document
reaches its limit. Five calls issue a policy, approve it technically and let two stale
calls meet, with one more to show the damage; six allow issue, approval, revert,
approval, step and books. In `policy_ledger` the totals are odd, so that half of them
rounds, and four calls cancel, refund, endorse and settle. In `pipeline` four calls go
from a quotation over a firm order to an issued policy, present, accept and order, or
order, issue, order again and approve or step back. Six calls of payroll create a run,
fill it and let two that read it as a draft post it or remove it, with one more to show
the damage. The two quotas are one that a single file fills and one with room for several,
so that a change takes the quota below what is stored.
`tenant_account` starts with all seats taken, because a seat bought or given back
matters only then, and mixes two kinds of calls at a time, those that write the same
rows. A wallet of two operations has a last one with others before it; with three
calls at a time, it is overdrawn by two.

Users are interchangeable (SYMMETRY in `policy`, which has safety properties only);
calls are numbered in order of arrival instead, which removes the same symmetry and
lets `Begin` be the only place where the bound on calls in flight is used. Bounds
named in the modules: `MaxInFlight`, `MaxCrashes`, `MaxFaults`, `MaxDeaths`,
`DrainLimit` (50 in the code).

Deadlock is not checked where the finite supply of calls runs out. It is checked in
`zatca` and `reminders`, whose timers may always run; `AllAnswered` covers waiting
in `Receivables`, the only module besides `ZatcaDocuments` where a call waits for a lock.

Types. `TypeOK` has a theorem of its own for `PolicyApproval`, `PolicyLedger`,
`GeneralLedger`, `Pipeline` and `TenantAccount`, and is part of the invariant proved for
`Receivables` (`LedgerTypes`), `ZatcaDocuments`, `Allowances` and `Reminders` (`SweepTypes`).
A run checks it with the notices (`NoticesAreSound`) and with the quota (`QuotaIsSound`).

Fairness. Weak fairness of the steps of a call that has started: Node.js resumes a
handler once what it awaits is there, and PostgreSQL grants a free row lock.
`zatca` adds weak fairness of each drain, which the `setInterval` justifies, and
`reminders` of each sweep's start, which the daily cron does. `tenant_account` adds that
a cached answer expires, which the clock does, and that lookups of the access
are made and go on. Nothing is assumed of clients, clerks, managers or payers, and no crash is
excluded. The other modules claim no liveness: an approval may never come.

Each property has a mutant, an operator named `<Definition>_<Bug>` beside the
definition, that replaces it by what a plausible mistake would make of the code;
TLC finds the property violated under the configuration of its run.

## 5. What the code does not keep

Three runs have one property each that a comment or a document of the repository
states, and end in a counterexample:

1. **`receivables_overcollect`**: `recordReceipt` checks the outstanding amount it read
   before its transaction. Two receipts of a whole note are both posted, and the
   second overwrites `settledAmount` instead of adding, so the note looks right and
   the ledger holds twice its amount. An `increment` guarded by the old value would hold.
2. **`zatca_lost`**: `drain` removes a document from the list before it is reported, and
   nothing puts it back when the drain dies, throws or is refused.
3. **`policy_ledger_direct`**: `cancelPolicy` reverses every policy as if the broker had
   collected its premium. One call suffices.

The serial properties hold one call at a time and, by the same models, not two at a
time: lifting `load.atOnce = 1` from one of them gives the counterexample. In words:

* Two approvals read one last hash, before the UPDATE that locks the row
  (`zatca-billing.service.ts:42`): the chain forks, though its numbers stay gapless.
* `approvePolicy` tests the status it read before its transaction
  (`finance.service.ts:1203`): a double click posts the books twice.
* Confirm and webhook both settle one captured payment (`payment-charge.service.ts:103`),
  or both activate one seat invoice (`billing.service.ts:105`).
* Refunds, insurer and producer settlements and cancellations are checked against what was
  read before (`finance.service.ts:177`, `:557`, `:639`): each can be done twice.
* Vouchers drawn at one time share a number (`sequence.service.ts:42`), and a draft may be
  edited after the approval that posted it (`finance.service.ts:965`).
* `payroll.post` tests the status before its transaction and updates the run by its id
  (`payroll.service.ts:79`). Two posts of one draft both book its salaries, and the run
  names the second voucher only, though `docs/06-api-reference.md:616` answers a second post
  with 409. What survives is `PostsAreBounded`: a run is booked at most once by each of
  the calls that were in progress together; one that starts later is refused.
* `payroll.remove` tests the status and deletes by id (`payroll.service.ts:106`): a run
  posted in between is gone and its voucher stays, though the comment at line 101 says that
  a posted run is not deleted.
* `selectQuotation` looks at no status (`slips.service.ts:292-304`). Called again after a
  policy was issued from the first order, also one call at a time, it rejects the offer the
  policy was made of, selects another and makes the request AWARDED again;
  `docs/08-deal-lifecycle-workflows.md:261` draws SELECTED as a last status.
* `cancelPolicy` leaves the request ISSUED (`finance.service.ts:595`), also one call at a
  time: an ISSUED request may have only a cancelled policy. No text says otherwise, so it
  is no finding; `IssuedWasPosted` and `RequestShowsItsPolicy` allow for it.
* An approval or a revert that read the policy before its financial approval writes over
  it: an ISSUED policy goes back to review (`revert.service.ts:65`).
* Two cover notes, renewals or requests of one deal, a second seat for one payment, a member
  beyond the licence and a session that outlives its logout all come of two calls that
  pass one check (`cover-notes.service.ts:37`, `renewals.service.ts:63`,
  `billing.service.ts:105`, `staff.service.ts:101`, `auth.service.ts:106`).
* `selectQuotation` overrules the client's acceptance also one at a time
  (`slips.service.ts:302`; `schema.prisma:826` calls the accepted quotation the firm
  order): what `SerialAcceptanceKept` says is that the row keeps naming it.
* The trial balance counts drafts (`finance.service.ts:662`), which `docs/20` says do
  not show yet.
* A reminder is repeated by a sweep started by hand and after a failure, though the class
  comment says it is sent once; the bound is one per sweep and fault.
* Storage: a file larger than announced exceeds the quota until the next reservation, and
  what is stored when the quota is lowered stays.
* A member who is offboarded keeps a refresh token until it expires, and two members
  may offboard each other; the next checkout bills `seatsUsed`, where the
  seats' screen speaks of the licence; paying an invoice lifts a suspension
  (`billing.service.ts:114-143`), also one imposed after the invoice was made.

## 6. The theorems

All are checked by `tlapm` to the last leaf, for every value of the constants that
satisfies the named assumptions: any number of calls and of calls at a time, any
number of deaths, any amounts. None of the properties is inductive as it stands, for
one reason: a call writes what it decided from rows it read before. The invariants say
what of such a stale value still holds when it is written. A module of proofs has one
invariant for calls that interleave in any way, and most have a second one for calls
that are served one at a time, which says more: what a call has read is current.

The second kind is about `MCSpec` with `load.atOnce = 1`. That one call is in flight
is itself a conjunct of these invariants, derived from `Within`. The theorems are
stronger than they sound in one respect: a call of a single statement is over in the
step in which it arrives, so it may come between two steps of another call; each lemma
shows that it takes away nothing that the other counts on. Deaths are allowed in any
number, also between two statements; only where the code does lose something when a
call dies does the property say `crashes = 0` or `died = {}` (the name a receipt leaves
on its payment, the record of a mail, the bill of a member, the log that says who
issued, the counter of the documents).

**`Receivables_proofs`**. The sum a request carries stays within the note. `settled`
is overwritten with a sum based on an old value; what saves `SettledIsVouched` is that
`posted` only grows, so the `already` a request carries is never above what is posted
now, and the commit adds the same amount to both. `PaidHasReceipt` needs that a
request posts once, and knows between commit and mark what it posted.
`ReceiptsAlwaysCaptured`: a payment is charged only by the request that created it, and
the gateway does not take a capture back, so what a confirmation or a webhook has seen
captured still is when it posts. `CapturedAlwaysReceiptedOnce`, one at a time: the
receipt posted for a payment is named by it or the request that posted it is about to
write the name; hence none is posted again.
`SerialReceiptsImplementReceivable` is the refinement of `Receivable`: what a request
has read is current, and note and ledger agree; then every step of a request leaves
both alone, except the commit, which is `Collect`. It assumes `MaxInFlight = 1`.
`SerialLoadsImplementReceivable` is the same for `MCSpec`, whatever `MaxInFlight` is, and
states the property the run checks: under a load of one request at a time the API
implements `Receivable`, and under any other the mapping claims nothing.

`RowsAlwaysWithinAmount`, for any interleaving: a waterfall writes an absolute
`settledAmount`, computed from rows that others may have changed, deleted or joined
since. It was fit for the row it was computed from, and a row keeps its key, due date
and amount wherever it is copied to (`PlanInv`), so it is fit for the row it is written
to. Two rows of one key would break this; what a request is going to insert has its own
batch, which nobody has seen. `PlanAlwaysSound`, one at a time: a plan has
room for its total, or its total is the note's (`PlanFor`: a custom schedule has no
negative amount; a quick one, whose last amount may be negative, adds up to the note). So what is poured adds to
what the plan shows what it adds to the note, up to the plan's total (`PouredPlan`), and
the oldest rows stay the full ones (`PouredFromOldest`). `RightSoFar` says of each step
of a handler what the rows in its hands are: those of the waterfall, those of a plan
that shows nothing yet, or those that remain to be written, oldest first, until the plan
shows what the note has settled. `DtosAssumption` is the shape of a request's body.

**`ZatcaDocuments_proofs`**. A transaction past its increment holds the lock and counts
from the committed counter, so a commit extends the numbers by exactly its documents.
Every hash an approval has read belongs to a committed document with a number not above
the counter, therefore `PreviousIsOlder`, although the chain may fork. What a drain or
router is about to mark has been accepted. `AlwaysAcceptedOnce`: a document that may
still be sent is in one place, the list, or the hands of one drain or one router, and
once the authority has accepted it nobody holds it to send. `SerialChainAlwaysUnbroken`:
when approvals do not overlap, the last hash that one has read is that of the document
with the highest number, so its documents continue the chain.

**`PolicyApproval_proofs`**. Signatures are never removed, so it is enough that
whatever a policy or a call in flight *drops* from the pending list is already signed,
or is signed by that call in the same transaction. `IssuedAlwaysPosted` says
that whatever is, or was until it was cancelled, ISSUED has been posted: a policy becomes
ISSUED only in the transaction that posts, only an ISSUED one can be cancelled, and
every transaction that takes a policy away from ISSUED or CANCELLED moves the request too.
One at a time: the status and the pending list a call has tested are those it writes
over, a posted policy stays ISSUED, so finance signs once (`SerialAlwaysPostedOnce`); what
a revert voids is pending again or signed anew by a later call
(`SerialAlwaysReapproved`); the issuer an approval was tested against is the policy's,
once its log is written (`SerialAlwaysSegregated`).

**`PolicyLedger_proofs`**. A voucher is posted once and does not change, a credit note
keeps policy and amount; so what a step shows as cancelled or refunded stays vouched
for, and the rows that show commission as paid have their voucher
(`ShownAlwaysVouched`). A call has no rows of its own before it writes them.
`ClientsAlwaysReconcile`: the clients' account and what clients are shown to owe are two
sums over the same vouchers and notes; each step adds the same to both, or adds to the
term of the difference that stands for what one of them does not know. One at a time,
`SerialRowsAlwaysMatch` and `SerialAlwaysPaidWithinShares`: the balance a settlement was
checked against is the present one. The latter assumes `KeptWithinTotal`, that no policy's
commission exceeds its premium: `commissionRate` has no upper bound in
`issue-policy.dto.ts`, and a share of a negative amount is not meant by anybody.

**`GeneralLedger_proofs`**. A voucher keeps its type and its reference: edits
change its lines, approval its status. So a posted run and a matched bank line keep what
they name. Distinct codes and periods rest on the unique indexes alone, as the proof
shows: what a call has read of them is not used. `PayrollAlwaysVouched` needs for its bound
on the bookings of a run that every call about to post a run has read it as a draft, so no
call starts to post one that is booked: those that have booked it and those about to were
in progress together with the first. `StatementsAlwaysAgree`: the debits
and credits of each voucher are equal up to what a manual voucher may be off, and the
sum over accounts of the sums over vouchers is the sum over vouchers of the sums over
accounts. One at a time, `NumbersAlwaysSound` and `VouchersAlwaysMatch`: the number a call
has counted is the next one, the client's account it has not found is not there, the
bank line and the voucher it matches are both still free.

**`Pipeline_proofs`**. Rows that exist stay, a quotation stays with its slip and a
request with its deal, and nobody else writes the row a call is going to create.
`AlwaysOneFirmOrder` needs besides that a commit rewrites all quotations of the slip.
One at a time, what a call's checks have not found is still missing when it creates it
(`SerialAlwaysMadeOnce`), and the order it follows is still the order when it writes
(`SerialOrderAlwaysFollowed`). For the latter `OrdersSerial` and `AwardsSerial` say
that a slip once ordered stays SELECTED with no offer left open, whichever of its offers is
ordered later, and that a review, which writes policy and request together, leaves the
request at the stage of that policy. Finally `SerialAcceptanceAlwaysKept` is an action property:
no step of a slip's calls takes a quotation's acceptance away.

**`TenantAccount_proofs`**. A captured charge stays captured, and until an invoice knows
its charge only the call that created it touches either; so whoever marks or activates
an invoice later has seen a capture that still stands. One at a time, the licence, the
members, the tokens and the standing a call has read are current
(`SerialSeatsAlwaysPaid`, `SerialSessionsAlwaysEnd`, and the action property
`SerialSuspensionAlwaysHolds`), also when an earlier call died between two statements.

**`Allowances_proofs`**. The balance alone is not inductive: the balance that is left
once the calls let in have charged is. The last of them was let in with one operation
left, and it was one of `MaxInFlight`. `QuotaAlwaysSound`: the counter is what the
documents add up to, plus what calls in progress hold, plus what they have still to
correct, as long as calls of one document keep apart; a reservation is a single guarded
UPDATE, so it fits. The plan may change at any step, also
between that UPDATE and the read of the quota it compares with; so a reservation carries
a quota that has been in force, which is at most `ceiling`.

The module ends with a section on `Reminders`, which it extends as well; for this the
names of `Reminders` are all its own (`SweepInit`, `SweepNext`, `SweepSpec`).
`NoticesAlwaysSound` is for any rows, any finite number of sweeps and any number of
failures (`RowsAssumption`: the tables share no rows; `SweepersAssumption`: the sweeps are
finitely many).
A sweep notifies before it marks, so nothing in a row says how often it has been notified
of; `NoticesInv` charges each notice to somebody. While a job can still be listed
(`Fresh`), its notices are those of sweeps that are about to mark it (`Told`), and others
whose sweep failed or was restarted, at most one per sweep and failure. Once it is marked
or its row is gone, nobody lists it again, so only the sweeps that hold it already (`Held`)
may notify of it, each once. The two groups have no sweep in common: that is where the
bound of one notice per sweep and `1 + faults` comes from. The rows of a plan that
replaces another have never been seen before they exist (`UntouchedOK`).

Sums. The models add rows up with `SumFunction`, a fold defined by recursion over a set.
The proofs need to know what one more or one changed row does to it, and that sums may
be split, compared and exchanged. That the fold exists over every finite set, and is
one member plus the sum of the rest, is shown without the library's induction theorems:
among the sets for which it failed there would be a smallest one. The block of lemmas
that says so is repeated in `Receivables_proofs`, `PolicyLedger_proofs`,
`Allowances_proofs` and `GeneralLedger_proofs`, so that each module of proofs can be read and checked alone.

The proofs are laid out alike: frame lemmas for steps that move only a call or one row,
then one lemma per action that writes, then the invariant by cases of `Next`.

Only model-checked: liveness under fairness (`AllAnswered`, `AllTransmitted`,
`AccessSettles`, `DueIsReminded`), which the prover does not reach. The three runs that
expect a violation are counterexamples, and have nothing to prove.

## 7. What is not modelled

* **Tax authority onboarding** (`finance/zatca/zatca-onboarding.service.ts`): four calls of
  the authority, each of which stores its answer in the tenant's one configuration row.
  `createInTx` asks only that the row is there, never that it is ACTIVE, so no
  document depends on the order. The steps do not tie a certificate to the key it was
  asked for (a second `generateCsr` keeps the old compliance certificate), which nothing
  in the repository promises either.
* **Claims, service requests, complaints, leave**: status columns of single rows, each set
  by one update with the value it is given; `lifecycle.service` is a read-only timeline.
  Of two decisions on one leave request the later one stays.
* **Clients, compliance, AML, organisation, insurers, settings, targets, budget**: master
  data stored by single statements.
* **Tenant isolation** (a query rewrite without state; the models are of one tenant),
  **permissions** (a check before the handler; callers are taken as permitted).
* **Notifications, e-mail, outgoing webhooks**: sent and forgotten, nothing waits for them.
* **Search, dashboards, documents' layout, the web client, seeds, scripts, storage
  drivers, cryptography, infrastructure.** More than half of the repository's lines are the
  web client and seed data, which reach the state through the API's calls only; of the
  API's services, most lines are queries, DTOs, texts and mappings of columns. The
  models stand for the statements that decide and write, which is why the lines they
  map are a small share of all.
* Amounts on a policy's voucher, VAT and commission arithmetic (one amount with its VAT
  stands for both), notices and layout.
* Loss of PostgreSQL or Redis data, and failover; a committed transaction stays.
* Time, beyond what queries tell apart: timeouts are a `Crash` of the call.
* One hazard of `PROJECT.json` has no property, with its reason there: the edit of a
  draft that has just been posted.
