---------------------------- MODULE PolicyApproval ----------------------------
(***************************************************************************)
(* From an awarded request to an issued policy: issuePolicy, the technical *)
(* approval and the extra steps (production.service.ts), the financial     *)
(* approval that posts the books and the cancellation of what was issued   *)
(* (finance.service.ts), one step back (revert.service.ts) and the awards  *)
(* that feed them (slips.service.ts).                                      *)
(*                                                                         *)
(* One request and the policies issued from it. A call checks what it has  *)
(* read, awaits, and then writes by primary key in a transaction, without  *)
(* checking again; `call` holds what it carries over the await. A policy   *)
(* is named by the call that created it.                                   *)
(***************************************************************************)
EXTENDS Naturals, FiniteSets

CONSTANTS
    Calls,          \* calls of the API, numbered in order of arrival
    Users,          \* members of staff, with every permission
    Steps,          \* keys of the extra approval steps
    Configs,        \* approval chains the tenant may configure
    MaxInFlight,    \* calls the API serves at a time
    MaxCrashes,     \* calls that may be cut short
    None            \* a null column

Gates == {"technical", "finance"} \union Steps

ASSUME CallsAssumption == Calls \subseteq Nat
ASSUME NoneAssumption == None \notin Users /\ None \notin Calls /\ None \notin Gates
ASSUME CrashesAssumption == MaxCrashes \in Nat
ASSUME StepsAssumption == Steps \intersect {"technical", "finance"} = {}

\* technicalGate, segregationOfDuties, technicalSegregation and extraSteps.
ASSUME ConfigsAssumption ==
    /\ Configs # {}
    /\ Configs \subseteq [gate : BOOLEAN, sod : BOOLEAN, techSod : BOOLEAN, steps : SUBSET Steps]

VARIABLES
    config,         \* TenantConfig.approvalChains.policy
    request,        \* PolicyRequest.status
    policy,         \* the Policy rows: status and pendingApprovals
    issuer,         \* who issued a policy
    issuerLog,      \* the userId of the policy's `create` entry in the audit log
    signed,         \* the approvals a policy was given
    voided,         \* the calls whose approval a revert has taken back
    awards,         \* how often the request was awarded
    call,           \* where each call is and the values it has read
    crashes

vars == <<config, request, policy, issuer, issuerLog, signed, voided, awards, call, crashes>>

-----------------------------------------------------------------------------
RequestStatus == {"DRAFT", "QUOTING", "AWARDED", "UNDER_REVIEW", "FINANCE_REVIEW", "ISSUED"}

PolicyStatus == {"none", "TECHNICAL_REVIEW", "FINANCE_REVIEW", "ISSUED", "CANCELLED"}

Row(status, pending) == [status |-> status, pending |-> pending]

Signature(gate, u, guarded, c) == [gate |-> gate, user |-> u, guarded |-> guarded, call |-> c]

\* The local variables of a call: the policy and the user it acts for, the gate
\* it signs, whether duties are segregated, and the values it is about to write.
Local(step, u, p, gate, guarded, status, pending) ==
    [step |-> step, user |-> u, policy |-> p, gate |-> gate, guarded |-> guarded,
     status |-> status, pending |-> pending]

Idle == Local("idle", None, None, None, FALSE, "none", {})
Over == Local("done", None, None, None, FALSE, "none", {})

InFlight == {c \in Calls : call[c].step \notin {"idle", "done"}}

CanStart(c) ==
    /\ call[c].step = "idle"
    /\ \A d \in Calls : d < c => call[d].step # "idle"
    /\ Cardinality(InFlight) < MaxInFlight

Begin(c, local) == CanStart(c) /\ call' = [call EXCEPT ![c] = local]
At(c, step) == call[c].step = step
Finish(c) == call' = [call EXCEPT ![c] = Over]

Init ==
    /\ config \in Configs
    /\ request = "AWARDED"
    /\ policy = [p \in Calls |-> Row("none", {})]
    /\ issuer = [p \in Calls |-> None]
    /\ issuerLog = [p \in Calls |-> None]
    /\ signed = [p \in Calls |-> {}]
    /\ voided = [p \in Calls |-> {}]
    /\ awards = 1
    /\ call = [c \in Calls |-> Idle]
    /\ crashes = 0

-----------------------------------------------------------------------------
(* The request                                                              *)

\* selectQuotation: an award checks the quotation, not the request's status.
SelectQuotation(c) ==
    /\ Begin(c, Over)
    /\ request' = "AWARDED"
    /\ awards' = awards + 1
    /\ UNCHANGED <<config, policy, issuer, issuerLog, signed, voided, crashes>>

\* createSlip: nor does another request for quotations.
CreateSlip(c) ==
    /\ Begin(c, Over)
    /\ request' = "QUOTING"
    /\ UNCHANGED <<config, policy, issuer, issuerLog, signed, voided, awards, crashes>>

\* The chain of rules.request; what is not in it, or first, is refused.
Previous == [status \in {"QUOTING", "AWARDED"} |-> IF status = "AWARDED" THEN "QUOTING" ELSE "DRAFT"]

\* POST /revert/request/:id reads the status,
RevertRequest(c) ==
    /\ request \in DOMAIN Previous
    /\ Begin(c, Local("unaward", None, None, None, FALSE, Previous[request], {}))
    /\ UNCHANGED <<config, request, policy, issuer, issuerLog, signed, voided, awards, crashes>>

\* and writes the one before it, whatever it has become.
CommitRevertRequest(c) ==
    /\ At(c, "unaward")
    /\ request' = call[c].status
    /\ Finish(c)
    /\ UNCHANGED <<config, policy, issuer, issuerLog, signed, voided, awards, crashes>>

\* setPolicyApprovalConfig: policies already under way keep the steps they have.
Configure(c, new) ==
    /\ Begin(c, Over)
    /\ config' = new
    /\ UNCHANGED <<request, policy, issuer, issuerLog, signed, voided, awards, crashes>>

-----------------------------------------------------------------------------
(* issuePolicy                                                              *)

\* The request must be awarded; without a technical gate the policy goes to
\* finance with the extra steps pending.
IssuePolicy(c, u) ==
    /\ request = "AWARDED"
    /\ Begin(c, IF config.gate
                THEN Local("issue", u, c, None, FALSE, "TECHNICAL_REVIEW", {})
                ELSE Local("issue", u, c, None, FALSE, "FINANCE_REVIEW", config.steps))
    /\ UNCHANGED <<config, request, policy, issuer, issuerLog, signed, voided, awards, crashes>>

\* The transaction that creates the policy and moves the request on.
CommitIssue(c) ==
    LET l == call[c] IN
    /\ At(c, "issue")
    /\ policy' = [policy EXCEPT ![c] = Row(l.status, l.pending)]
    /\ request' = IF l.status = "FINANCE_REVIEW" THEN "FINANCE_REVIEW" ELSE "UNDER_REVIEW"
    /\ issuer' = [issuer EXCEPT ![c] = l.user]
    /\ call' = [call EXCEPT ![c] = Local("log", l.user, c, None, FALSE, "none", {})]
    /\ UNCHANGED <<config, issuerLog, signed, voided, awards, crashes>>

\* Mutant: the audit entry does not say who.
LogIssue_Anonymous(c) ==
    /\ At(c, "log")
    /\ Finish(c)
    /\ UNCHANGED <<config, request, policy, issuer, issuerLog, signed, voided, awards, crashes>>

\* audit.log comes after the transaction; if it fails, the call does not.
LogIssue(c) ==
    /\ At(c, "log")
    /\ issuerLog' = [issuerLog EXCEPT ![c] = call[c].user]
    /\ Finish(c)
    /\ UNCHANGED <<config, request, policy, issuer, signed, voided, awards, crashes>>

-----------------------------------------------------------------------------
(* Approvals                                                                *)

\* With segregation of duties on, whom the audit log names as the issuer may
\* not approve; nobody is refused while it names no one.
MayApprove(p, u, guarded) == guarded => issuerLog[p] # u

Sign(c) ==
    LET l == call[c] IN
    signed' = [signed EXCEPT ![l.policy] = @ \union {Signature(l.gate, l.user, l.guarded, c)}]

\* approveTechnical captures the steps configured now.
ApproveTechnical(c, u, p) ==
    /\ policy[p].status = "TECHNICAL_REVIEW"
    /\ MayApprove(p, u, config.techSod)
    /\ Begin(c, Local("technical", u, p, "technical", config.techSod, "FINANCE_REVIEW", config.steps))
    /\ UNCHANGED <<config, request, policy, issuer, issuerLog, signed, voided, awards, crashes>>

\* Mutant: the steps are added to those the policy still had.
CommitTechnical_NoSteps(c) ==
    LET l == call[c] IN
    /\ At(c, "technical")
    /\ policy' = [policy EXCEPT ![l.policy] = Row("FINANCE_REVIEW", @.pending)]
    /\ request' = "FINANCE_REVIEW"
    /\ Sign(c)
    /\ Finish(c)
    /\ UNCHANGED <<config, issuer, issuerLog, voided, awards, crashes>>

CommitTechnical(c) ==
    LET l == call[c] IN
    /\ At(c, "technical")
    /\ policy' = [policy EXCEPT ![l.policy] = Row("FINANCE_REVIEW", l.pending)]
    /\ request' = "FINANCE_REVIEW"
    /\ Sign(c)
    /\ Finish(c)
    /\ UNCHANGED <<config, issuer, issuerLog, voided, awards, crashes>>

\* approveStep: the step must be pending and still be configured.
ApproveStep(c, u, p, s) ==
    /\ policy[p].status = "FINANCE_REVIEW"
    /\ s \in policy[p].pending
    /\ s \in config.steps
    /\ MayApprove(p, u, config.techSod)
    /\ Begin(c, Local("step", u, p, s, config.techSod, "none", policy[p].pending \ {s}))
    /\ UNCHANGED <<config, request, policy, issuer, issuerLog, signed, voided, awards, crashes>>

\* It writes the list it read without the step, and leaves the status alone.
CommitStep(c) ==
    LET l == call[c] IN
    /\ At(c, "step")
    /\ policy' = [policy EXCEPT ![l.policy] = Row(@.status, l.pending)]
    /\ Sign(c)
    /\ Finish(c)
    /\ UNCHANGED <<config, request, issuer, issuerLog, voided, awards, crashes>>

\* Mutant: an issued policy can be approved again.
ApprovePolicy_AnyStatus(c, u, p) ==
    /\ policy[p].status \in {"FINANCE_REVIEW", "ISSUED"}
    /\ policy[p].pending = {}
    /\ MayApprove(p, u, config.sod)
    /\ Begin(c, Local("books", u, p, "finance", config.sod, "ISSUED", {}))
    /\ UNCHANGED <<config, request, policy, issuer, issuerLog, signed, voided, awards, crashes>>

\* approvePolicy: the financial approval, when no step is pending.
ApprovePolicy(c, u, p) ==
    /\ policy[p].status = "FINANCE_REVIEW"
    /\ policy[p].pending = {}
    /\ MayApprove(p, u, config.sod)
    /\ Begin(c, Local("books", u, p, "finance", config.sod, "ISSUED", {}))
    /\ UNCHANGED <<config, request, policy, issuer, issuerLog, signed, voided, awards, crashes>>

\* Its transaction posts the journal voucher, the debit note and the invoices.
CommitBooks(c) ==
    LET l == call[c] IN
    /\ At(c, "books")
    /\ policy' = [policy EXCEPT ![l.policy] = Row("ISSUED", @.pending)]
    /\ request' = "ISSUED"
    /\ Sign(c)
    /\ Finish(c)
    /\ UNCHANGED <<config, issuer, issuerLog, voided, awards, crashes>>

-----------------------------------------------------------------------------
(* One step back                                                            *)

\* The chain of rules.policy has one step back, from FINANCE_REVIEW.
RevertPolicy(c, p) ==
    /\ policy[p].status = "FINANCE_REVIEW"
    /\ Begin(c, Local("revert", None, p, None, FALSE, "TECHNICAL_REVIEW", {}))
    /\ UNCHANGED <<config, request, policy, issuer, issuerLog, signed, voided, awards, crashes>>

Void(p) == voided' = [voided EXCEPT ![p] = {x.call : x \in signed[p]}]

\* Mutant: the pending steps are cleared and the status stays.
CommitRevert_KeepsStatus(c) ==
    LET p == call[c].policy IN
    /\ At(c, "revert")
    /\ policy' = [policy EXCEPT ![p] = Row(@.status, {})]
    /\ request' = "UNDER_REVIEW"
    /\ Void(p)
    /\ Finish(c)
    /\ UNCHANGED <<config, issuer, issuerLog, signed, awards, crashes>>

\* Mutant: the request is left as it is.
CommitRevert_PolicyOnly(c) ==
    LET p == call[c].policy IN
    /\ At(c, "revert")
    /\ policy' = [policy EXCEPT ![p] = Row("TECHNICAL_REVIEW", {})]
    /\ Void(p)
    /\ Finish(c)
    /\ UNCHANGED <<config, request, issuer, issuerLog, signed, awards, crashes>>

\* The transaction takes the policy back without looking at it again.
CommitRevert(c) ==
    LET p == call[c].policy IN
    /\ At(c, "revert")
    /\ policy' = [policy EXCEPT ![p] = Row("TECHNICAL_REVIEW", {})]
    /\ request' = "UNDER_REVIEW"
    /\ Void(p)
    /\ Finish(c)
    /\ UNCHANGED <<config, issuer, issuerLog, signed, awards, crashes>>

-----------------------------------------------------------------------------
(* Cancellation                                                             *)

\* cancelPolicy: only an issued policy,
CancelPolicy(c, p) ==
    /\ policy[p].status = "ISSUED"
    /\ Begin(c, Local("cancel", None, p, None, FALSE, "CANCELLED", {}))
    /\ UNCHANGED <<config, request, policy, issuer, issuerLog, signed, voided, awards, crashes>>

\* and its request stays ISSUED. The books it posts are in PolicyLedger.
CommitCancel(c) ==
    /\ At(c, "cancel")
    /\ policy' = [policy EXCEPT ![call[c].policy] = Row("CANCELLED", @.pending)]
    /\ Finish(c)
    /\ UNCHANGED <<config, request, issuer, issuerLog, signed, voided, awards, crashes>>

-----------------------------------------------------------------------------
\* The process dies or a call of the request fails: its transaction, or its
\* audit entry, is never written.
Crash(c) ==
    /\ c \in InFlight
    /\ crashes < MaxCrashes
    /\ crashes' = crashes + 1
    /\ Finish(c)
    /\ UNCHANGED <<config, request, policy, issuer, issuerLog, signed, voided, awards>>

OnRequest(c) ==
    \/ SelectQuotation(c) \/ CreateSlip(c) \/ RevertRequest(c)
    \/ \E new \in Configs : Configure(c, new)
    \/ \E u \in Users : IssuePolicy(c, u)

OnPolicy(c, p) ==
    \/ \E u \in Users : \/ ApproveTechnical(c, u, p)
                        \/ \E s \in Steps : ApproveStep(c, u, p, s)
                        \/ ApprovePolicy(c, u, p)
    \/ RevertPolicy(c, p)
    \/ CancelPolicy(c, p)

Continue(c) ==
    \/ CommitRevertRequest(c)
    \/ CommitIssue(c) \/ LogIssue(c)
    \/ CommitTechnical(c) \/ CommitStep(c) \/ CommitBooks(c) \/ CommitRevert(c)
    \/ CommitCancel(c)

Next ==
    \E c \in Calls : \/ OnRequest(c)
                     \/ \E p \in Calls : OnPolicy(c, p)
                     \/ Continue(c)
                     \/ Crash(c)

Spec == Init /\ [][Next]_vars

-----------------------------------------------------------------------------
(* Properties                                                               *)

Locals == [step : {"idle", "unaward", "issue", "log", "technical", "step", "books", "revert",
                   "cancel", "done"},
           user : Users \union {None}, policy : Calls \union {None}, gate : Gates \union {None},
           guarded : BOOLEAN, status : PolicyStatus \union {"DRAFT", "QUOTING"}, pending : SUBSET Steps]

Signatures == [gate : Gates, user : Users, guarded : BOOLEAN, call : Calls]

\* The columns and the local variables hold what their declarations say; the
\* request never leaves its statuses, however reverts and awards are mixed.
TypeOK ==
    /\ config \in Configs
    /\ request \in RequestStatus
    /\ policy \in [Calls -> [status : PolicyStatus, pending : SUBSET Steps]]
    /\ issuer \in [Calls -> Users \union {None}]
    /\ issuerLog \in [Calls -> Users \union {None}]
    /\ signed \in [Calls -> SUBSET Signatures]
    /\ voided \in [Calls -> SUBSET Calls]
    /\ awards \in Nat
    /\ call \in [Calls -> Locals]
    /\ crashes \in 0..MaxCrashes

Signed(p, gate) == \E x \in signed[p] : x.gate = gate
SignedAnew(p, gate) == \E x \in signed[p] : x.gate = gate /\ x.call \notin voided[p]
Posted(p) == Signed(p, "finance")

\* What every configuration asks for, whenever it was changed.
AlwaysGated == \A k \in Configs : k.gate
AlwaysSteps == {s \in Steps : \A k \in Configs : s \in k.steps}
Required == AlwaysSteps \union {g \in {"technical"} : AlwaysGated}

\* However approvals, reverts and changes of the configuration interleave, the
\* books of a policy are posted only after every approval that was required
\* throughout has been given (E2: the financial approval is the last step).
NoGateSkipped == \A p \in Calls : Posted(p) => \A gate \in Required : Signed(p, gate)

Issued(p) == policy[p].status \in {"ISSUED", "CANCELLED"}

\* What shows as issued is in the books, although approvals, reverts and
\* cancellations write the policy and its request from stale reads: a policy
\* that is, or was until it was cancelled, ISSUED has been posted, and a request
\* that shows as ISSUED has such a policy. A cancellation leaves the request
\* ISSUED (finance.service.ts:595), so the policy may be a cancelled one.
IssuedWasPosted ==
    /\ \A p \in Calls : Issued(p) => Posted(p)
    /\ request = "ISSUED" => \E p \in Calls : Issued(p)

-----------------------------------------------------------------------------
(* What holds when calls are served one at a time (MaxInFlight = 1)         *)

\* The books of a policy are posted once (finance.e2e-spec.ts: the financial
\* approval cannot be repeated).
BooksPostedOnce ==
    \A p \in Calls : \A x, y \in signed[p] : x.gate = "finance" /\ y.gate = "finance" => x = y

\* A policy that was taken back is approved anew, technically and at every step
\* always required, before its books are posted: no earlier approval counts.
ReapprovedAfterRevert ==
    \A p \in Calls : Posted(p) /\ voided[p] # {} =>
        \A gate \in AlwaysSteps \union {"technical"} : SignedAnew(p, gate)

\* While no call has died: where duties were segregated when somebody approved,
\* that was not the policy's issuer.
SegregationOfDuties ==
    crashes = 0 => \A p \in Calls : \A x \in signed[p] : x.guarded => x.user # issuer[p]

\* An award is used for one policy, whatever is reverted in between.
OnePolicyPerAward == Cardinality({p \in Calls : policy[p].status # "none"}) <= awards
=============================================================================
