------------------------------- MODULE Pipeline -------------------------------
(***************************************************************************)
(* From a lead or an expiring policy to a policy: deals (crm.service.ts),  *)
(* renewals (renewals.service.ts), requests (requests.service.ts), slips,  *)
(* quotations and firm orders (slips.service.ts), the client's decision    *)
(* (portal.service.ts), cover notes (cover-notes.service.ts), the issue of *)
(* the policy (production.service.ts), and the reviews of it that move its *)
(* request (production, finance and revert.service.ts).                    *)
(*                                                                         *)
(* A call reads, checks, awaits, and writes without checking again. Rows   *)
(* are named by the call that created them, 0 being rows there from the    *)
(* beginning. Clients are approved by compliance, forms are valid and no   *)
(* extra approval steps are configured; what an approval needs besides the *)
(* status of the policy is in PolicyApproval.                              *)
(***************************************************************************)
EXTENDS Integers, FiniteSets

CONSTANTS
    Deals,
    Insurers,
    Calls,          \* calls of the API, numbered in order of arrival
    MaxInFlight,    \* calls the API serves at a time
    MaxCrashes,     \* calls that may be cut short
    None            \* a null column

ASSUME CallsAssumption == Calls \subseteq Nat \ {0}
Rows == Calls \union {0}

RequestStatus == {"DRAFT", "QUOTING", "AWARDED", "UNDER_REVIEW", "FINANCE_REVIEW", "ISSUED"}
PolicyStatus == {"TECHNICAL_REVIEW", "FINANCE_REVIEW", "ISSUED", "CANCELLED"}

DealRow == [status : {"open", "won", "lost"}, request : Rows \union {None}]
RequestRow ==
    [status : RequestStatus, deal : Deals \union {None},
     renews : Rows \union {None}, form : SUBSET {"entered", "copied"}]
SlipRow ==
    [request : Rows, status : {"SENT", "QUOTED", "SELECTED"}, insurers : SUBSET Insurers,
     selected : Rows \union {None}, presented : SUBSET Rows,
     decision : {None, "pending", "accepted", "declined"}, accepted : Rows \union {None}]
QuotationRow == [slip : Rows, status : {"RECEIVED", "SELECTED", "REJECTED"}]
CoverRow == [request : Rows, status : {"active", "superseded", "cancelled"}]
PolicyRow == [request : Rows \union {None}, quotation : Rows \union {None}, status : PolicyStatus]

ASSUME NoneAssumption ==
    /\ None \notin Nat /\ None \notin Deals /\ None \notin {"pending", "accepted", "declined"}
    /\ None \notin RequestRow \union SlipRow \union QuotationRow \union CoverRow \union PolicyRow
ASSUME BoundsAssumption == MaxInFlight \in Nat /\ MaxCrashes \in Nat

VARIABLES
    deals,          \* Deal.status and requestId
    requests,       \* PolicyRequest: status, where it comes from, its block rows
    slips,
    quotations,
    covers,         \* CoverNote
    policies,
    mailed,         \* insurers that were e-mailed a slip's request for quotation
    call,           \* where each call is and the values it has read
    crashes

rows == <<deals, requests, slips, quotations, covers, policies, mailed>>
vars == <<rows, call, crashes>>

-----------------------------------------------------------------------------
Request(status, deal, renews, form) == [status |-> status, deal |-> deal, renews |-> renews, form |-> form]

Slip(request, status, insurers) ==
    [request |-> request, status |-> status, insurers |-> insurers, selected |-> None,
     presented |-> {}, decision |-> None, accepted |-> None]

Quotation(slip, status) == [slip |-> slip, status |-> status]
Cover(request, status) == [request |-> request, status |-> status]

Policy(request, quotation, status) == [request |-> request, quotation |-> quotation, status |-> status]

\* The status a request is given together with the policy's.
Shown == [TECHNICAL_REVIEW |-> "UNDER_REVIEW", FINANCE_REVIEW |-> "FINANCE_REVIEW", ISSUED |-> "ISSUED"]

\* `of` is the row a call is about, `value` and `set` what it is going to write.
Local(step, of, value, set) == [step |-> step, of |-> of, value |-> value, set |-> set]

Idle == Local("idle", None, None, {})
Over == Local("done", None, None, {})

InFlight == {c \in Calls : call[c].step \notin {"idle", "done"}}

Begin(c, local) ==
    /\ call[c].step = "idle"
    /\ \A d \in Calls : d < c => call[d].step # "idle"
    /\ Cardinality(InFlight) < MaxInFlight
    /\ call' = [call EXCEPT ![c] = local]
    /\ UNCHANGED <<rows, crashes>>

At(c, step) == call[c].step = step

Finish(c) == call' = [call EXCEPT ![c] = Over] /\ UNCHANGED crashes

Existing(table) == {x \in Rows : table[x] # None}
QuotationsOf(s) == {q \in Existing(quotations) : quotations[q].slip = s}

\* Request 0 is being quoted: slip 0 has one quotation, which may have been put
\* before the client. Policy 0 is about to expire and has no request.
Init ==
    /\ deals = [d \in Deals |-> [status |-> "open", request |-> None]]
    /\ requests = [x \in Rows |-> IF x = 0 THEN Request("QUOTING", None, None, {"entered"}) ELSE None]
    /\ \E shown \in BOOLEAN :
           slips = [x \in Rows |->
               IF x # 0 THEN None
               ELSE [Slip(0, "QUOTED", {}) EXCEPT !.presented = IF shown THEN {0} ELSE {},
                                                 !.decision = IF shown THEN "pending" ELSE None]]
    /\ quotations = [x \in Rows |-> IF x = 0 THEN Quotation(0, "RECEIVED") ELSE None]
    /\ covers = [x \in Rows |-> None]
    /\ policies = [x \in Rows |-> IF x = 0 THEN Policy(None, None, "ISSUED") ELSE None]
    /\ mailed = [x \in Rows |-> {}]
    /\ call = [c \in Calls |-> Idle]
    /\ crashes = 0

-----------------------------------------------------------------------------
(* Deals, renewals and requests                                             *)

\* A clerk may set any status, also that of a converted deal.
UpdateDeal(c, d, status) == Begin(c, Local("deal", d, status, {}))

CommitDeal(c) ==
    /\ At(c, "deal")
    /\ deals' = [deals EXCEPT ![call[c].of].status = call[c].value]
    /\ Finish(c)
    /\ UNCHANGED <<requests, slips, quotations, covers, policies, mailed>>

\* Mutant: a converted deal is converted again.
ConvertDeal_Again(c, d) == Begin(c, Local("convert", d, None, {}))

ConvertDeal(c, d) == deals[d].request = None /\ Begin(c, Local("convert", d, None, {}))

\* Mutant: the deal is linked, and the request left to a call of its own.
CommitConvert_LinkFirst(c) ==
    LET d == call[c].of IN
    /\ At(c, "convert")
    /\ deals' = [deals EXCEPT ![d] = [status |-> "won", request |-> c]]
    /\ Finish(c)
    /\ UNCHANGED <<requests, slips, quotations, covers, policies, mailed>>

\* One transaction; the deal is not looked at again.
CommitConvert(c) ==
    LET d == call[c].of IN
    /\ At(c, "convert")
    /\ requests' = [requests EXCEPT ![c] = Request("DRAFT", d, None, {})]
    /\ deals' = [deals EXCEPT ![d] = [status |-> "won", request |-> c]]
    /\ Finish(c)
    /\ UNCHANGED <<slips, quotations, covers, policies, mailed>>

\* Refused while a request renews the policy that is not REJECTED, a status that
\* nothing gives a request.
InitiateRenewal(c, p) ==
    /\ policies[p] # None
    /\ \A r \in Existing(requests) : requests[r].renews # p
    /\ Begin(c, Local("renew", p, None, {}))

\* The request is created first, and its block rows are copied by a statement of
\* their own.
CreateRenewal(c) ==
    LET p == call[c].of IN
    /\ At(c, "renew")
    /\ requests' = [requests EXCEPT ![c] = Request("DRAFT", None, p, {})]
    /\ IF policies[p].request # None
       THEN call' = [call EXCEPT ![c] = Local("copy", c, policies[p].request, {})] /\ UNCHANGED crashes
       ELSE Finish(c)
    /\ UNCHANGED <<deals, slips, quotations, covers, policies, mailed>>

CopyBlocks(c) ==
    /\ At(c, "copy")
    /\ requests' = [requests EXCEPT ![c].form =
           @ \union (IF requests[call[c].value].form = {} THEN {} ELSE {"copied"})]
    /\ Finish(c)
    /\ UNCHANGED <<deals, slips, quotations, covers, policies, mailed>>

CreateRequest(c) == Begin(c, Local("request", None, None, {}))

CommitRequest(c) ==
    /\ At(c, "request")
    /\ requests' = [requests EXCEPT ![c] = Request("DRAFT", None, None, {"entered"})]
    /\ Finish(c)
    /\ UNCHANGED <<deals, slips, quotations, covers, policies, mailed>>

UpdateRequest(c, r) ==
    /\ requests[r] # None /\ requests[r].status = "DRAFT"
    /\ Begin(c, Local("update", r, None, {}))

\* The block rows are deleted and written anew.
CommitUpdate(c) ==
    /\ At(c, "update")
    /\ requests' = [requests EXCEPT ![call[c].of].form = {"entered"}]
    /\ Finish(c)
    /\ UNCHANGED <<deals, slips, quotations, covers, policies, mailed>>

Previous == [QUOTING |-> "DRAFT", AWARDED |-> "QUOTING"]

RevertRequest(c, r) ==
    /\ requests[r] # None /\ requests[r].status \in DOMAIN Previous
    /\ Begin(c, Local("revert", r, Previous[requests[r].status], {}))

\* Only the status: the slips stay as they are.
CommitRevert(c) ==
    /\ At(c, "revert")
    /\ requests' = [requests EXCEPT ![call[c].of].status = call[c].value]
    /\ Finish(c)
    /\ UNCHANGED <<deals, slips, quotations, covers, policies, mailed>>

-----------------------------------------------------------------------------
(* Slips and quotations                                                     *)

CreateSlip(c, r) == requests[r] # None /\ Begin(c, Local("slip", r, None, {}))

CommitSlip(c) ==
    LET r == call[c].of IN
    /\ At(c, "slip")
    /\ slips' = [slips EXCEPT ![c] = Slip(r, "SENT", {})]
    /\ requests' = [requests EXCEPT ![r].status = "QUOTING"]
    /\ Finish(c)
    /\ UNCHANGED <<deals, quotations, covers, policies, mailed>>

Open(s) == slips[s] # None /\ slips[s].status # "SELECTED"

\* The names recorded on the slip are read together with its status.
SendRfq(c, s) == Open(s) /\ Begin(c, Local("mail", s, None, slips[s].insurers))

\* E-mails go out one by one; those that succeed are recorded afterwards.
Mail(c, sent) ==
    LET l == call[c] IN
    /\ At(c, "mail")
    /\ mailed' = [mailed EXCEPT ![l.of] = @ \union sent]
    /\ IF sent # {}
       THEN call' = [call EXCEPT ![c] = Local("mailed", l.of, None, l.set \union sent)] /\ UNCHANGED crashes
       ELSE Finish(c)
    /\ UNCHANGED <<deals, requests, slips, quotations, covers, policies>>

RecordMail(c) ==
    /\ At(c, "mailed")
    /\ slips' = [slips EXCEPT ![call[c].of].insurers = call[c].set]
    /\ Finish(c)
    /\ UNCHANGED <<deals, requests, quotations, covers, policies, mailed>>

AddQuotation(c, s) == Open(s) /\ Begin(c, Local("quote", s, slips[s].status, {}))

\* The slip turns QUOTED if it was SENT when it was read.
CommitQuotation(c) ==
    LET l == call[c] IN
    /\ At(c, "quote")
    /\ quotations' = [quotations EXCEPT ![c] = Quotation(l.of, "RECEIVED")]
    /\ slips' = IF l.value = "SENT" THEN [slips EXCEPT ![l.of].status = "QUOTED"] ELSE slips
    /\ Finish(c)
    /\ UNCHANGED <<deals, requests, covers, policies, mailed>>

-----------------------------------------------------------------------------
(* Firm orders, by the broker and by the client                             *)

\* selectQuotation: neither the slip's nor the request's status is looked at.
SelectQuotation(c, s, q) == slips[s] # None /\ q \in QuotationsOf(s) /\ Begin(c, Local("select", s, q, {}))

\* Mutant: the quotation chosen before keeps its status.
Order_KeepsOthers(s, q) == [x \in Rows |-> IF x = q THEN Quotation(s, "SELECTED") ELSE quotations[x]]

\* Every quotation of the slip is rejected, then the chosen one selected.
Order(s, q) ==
    [x \in Rows |-> IF x \in QuotationsOf(s) THEN Quotation(s, IF x = q THEN "SELECTED" ELSE "REJECTED")
                    ELSE quotations[x]]

\* Mutant: the slip stays as it is.
CommitSelect_SlipOpen(c) ==
    LET s == call[c].of  q == call[c].value IN
    /\ At(c, "select")
    /\ quotations' = Order(s, q)
    /\ slips' = [slips EXCEPT ![s].selected = q]
    /\ requests' = [requests EXCEPT ![slips[s].request].status = "AWARDED"]
    /\ Finish(c)
    /\ UNCHANGED <<deals, covers, policies, mailed>>

CommitSelect(c) ==
    LET s == call[c].of  q == call[c].value IN
    /\ At(c, "select")
    /\ quotations' = Order(s, q)
    /\ slips' = [slips EXCEPT ![s].status = "SELECTED", ![s].selected = q]
    /\ requests' = [requests EXCEPT ![slips[s].request].status = "AWARDED"]
    /\ Finish(c)
    /\ UNCHANGED <<deals, covers, policies, mailed>>

\* Mutant: an ordered slip is put before the client again.
Present_Again(c, s, ids) ==
    /\ slips[s] # None
    /\ ids # {} /\ ids \subseteq QuotationsOf(s)
    /\ Begin(c, Local("present", s, None, ids))

Present(c, s, ids) ==
    /\ Open(s)
    /\ ids # {} /\ ids \subseteq QuotationsOf(s)
    /\ Begin(c, Local("present", s, None, ids))

CommitPresent(c) ==
    LET l == call[c] IN
    /\ At(c, "present")
    /\ slips' = [slips EXCEPT ![l.of] = [@ EXCEPT !.presented = l.set, !.decision = "pending", !.accepted = None]]
    /\ Finish(c)
    /\ UNCHANGED <<deals, requests, quotations, covers, policies, mailed>>

Undecided(s) == slips[s] # None /\ slips[s].decision = "pending"

AcceptProposal(c, s, q) == Undecided(s) /\ q \in slips[s].presented /\ Begin(c, Local("accept", s, q, {}))

CommitAccept(c) ==
    LET s == call[c].of  q == call[c].value IN
    /\ At(c, "accept")
    /\ quotations' = Order(s, q)
    /\ slips' = [slips EXCEPT ![s] = [@ EXCEPT !.status = "SELECTED", !.selected = q,
                                             !.decision = "accepted", !.accepted = q]]
    /\ requests' = [requests EXCEPT ![slips[s].request].status = "AWARDED"]
    /\ Finish(c)
    /\ UNCHANGED <<deals, covers, policies, mailed>>

DeclineProposal(c, s) == Undecided(s) /\ Begin(c, Local("decline", s, None, {}))

CommitDecline(c) ==
    /\ At(c, "decline")
    /\ slips' = [slips EXCEPT ![call[c].of].decision = "declined"]
    /\ Finish(c)
    /\ UNCHANGED <<deals, requests, quotations, covers, policies, mailed>>

-----------------------------------------------------------------------------
(* Cover notes and the issue of the policy                                  *)

Covered(r) == \E n \in Existing(covers) : covers[n] = Cover(r, "active")

IssueCover(c, r) ==
    /\ requests[r] # None /\ requests[r].status = "AWARDED"
    /\ ~ Covered(r)
    /\ \E s \in Existing(slips) : slips[s].request = r /\ slips[s].selected # None
    /\ Begin(c, Local("cover", r, None, {}))

CommitCover(c) ==
    /\ At(c, "cover")
    /\ covers' = [covers EXCEPT ![c] = Cover(call[c].of, "active")]
    /\ Finish(c)
    /\ UNCHANGED <<deals, requests, slips, quotations, policies, mailed>>

CancelCover(c, n) ==
    /\ covers[n] # None /\ covers[n].status = "active"
    /\ Begin(c, Local("uncover", n, None, {}))

CommitCancelCover(c) ==
    /\ At(c, "uncover")
    /\ covers' = [covers EXCEPT ![call[c].of].status = "cancelled"]
    /\ Finish(c)
    /\ UNCHANGED <<deals, requests, slips, quotations, policies, mailed>>

\* The slips that are SELECTED now, in no order.
Orderable(r) == {s \in Existing(slips) : /\ slips[s].request = r /\ slips[s].status = "SELECTED"
                                         /\ slips[s].selected \in QuotationsOf(s)}

IssuePolicy(c, r) ==
    /\ requests[r] # None /\ requests[r].status = "AWARDED"
    /\ \E s \in Orderable(r) : Begin(c, Local("issue", r, slips[s].selected, {}))

\* The policy waits for the technical gate, or for finance where there is none.
CommitIssue(c, status) ==
    LET l == call[c] IN
    /\ At(c, "issue")
    /\ policies' = [policies EXCEPT ![c] = Policy(l.of, l.value, status)]
    /\ requests' = [requests EXCEPT ![l.of].status = Shown[status]]
    /\ covers' = [n \in Rows |-> IF covers[n] = Cover(l.of, "active") THEN Cover(l.of, "superseded") ELSE covers[n]]
    /\ Finish(c)
    /\ UNCHANGED <<deals, slips, quotations, mailed>>

-----------------------------------------------------------------------------
(* What moves a policy, and the request with it                             *)

Review(c, p, from, to) ==
    /\ policies[p] # None /\ policies[p].status = from
    /\ Begin(c, Local("review", p, to, {}))

ApproveTechnical(c, p) == Review(c, p, "TECHNICAL_REVIEW", "FINANCE_REVIEW")
ApprovePolicy(c, p) == Review(c, p, "FINANCE_REVIEW", "ISSUED")
RevertPolicy(c, p) == Review(c, p, "FINANCE_REVIEW", "TECHNICAL_REVIEW")
CancelPolicy(c, p) == Review(c, p, "ISSUED", "CANCELLED")

\* One transaction writes both; a cancellation leaves the request as it is.
CommitReview(c) ==
    LET l == call[c]  r == policies[l.of].request IN
    /\ At(c, "review")
    /\ policies' = [policies EXCEPT ![l.of].status = l.value]
    /\ requests' = IF r = None \/ l.value = "CANCELLED" THEN requests
                   ELSE [requests EXCEPT ![r].status = Shown[l.value]]
    /\ Finish(c)
    /\ UNCHANGED <<deals, slips, quotations, covers, mailed>>

-----------------------------------------------------------------------------
\* A call dies between two of its steps.
Crash(c) ==
    /\ c \in InFlight
    /\ crashes < MaxCrashes
    /\ crashes' = crashes + 1
    /\ call' = [call EXCEPT ![c] = Over]
    /\ UNCHANGED rows

Start(c) ==
    \/ \E d \in Deals : \/ ConvertDeal(c, d)
                        \/ \E status \in {"open", "won", "lost"} : UpdateDeal(c, d, status)
    \/ CreateRequest(c)
    \/ \E x \in Rows : \/ InitiateRenewal(c, x) \/ UpdateRequest(c, x) \/ RevertRequest(c, x)
                       \/ CreateSlip(c, x) \/ SendRfq(c, x) \/ AddQuotation(c, x)
                       \/ DeclineProposal(c, x)
                       \/ IssueCover(c, x) \/ CancelCover(c, x) \/ IssuePolicy(c, x)
                       \/ ApproveTechnical(c, x) \/ ApprovePolicy(c, x)
                       \/ RevertPolicy(c, x) \/ CancelPolicy(c, x)
                       \/ \E q \in Rows : SelectQuotation(c, x, q) \/ AcceptProposal(c, x, q)
                       \/ \E ids \in SUBSET Rows : Present(c, x, ids)

Continue(c) ==
    \/ CommitDeal(c) \/ CommitConvert(c) \/ CreateRenewal(c) \/ CopyBlocks(c)
    \/ CommitRequest(c) \/ CommitUpdate(c) \/ CommitRevert(c)
    \/ CommitSlip(c) \/ \E sent \in SUBSET Insurers : Mail(c, sent)
    \/ RecordMail(c) \/ CommitQuotation(c)
    \/ CommitSelect(c) \/ CommitPresent(c) \/ CommitAccept(c) \/ CommitDecline(c)
    \/ CommitCover(c) \/ CommitCancelCover(c)
    \/ \E status \in {"TECHNICAL_REVIEW", "FINANCE_REVIEW"} : CommitIssue(c, status)
    \/ CommitReview(c)

Next == \E c \in Calls : Start(c) \/ Continue(c) \/ Crash(c)

Spec == Init /\ [][Next]_vars
-----------------------------------------------------------------------------
(* Properties                                                               *)

\* Rows hold what their columns may, and name rows that exist.
TypeOK ==
    /\ deals \in [Deals -> DealRow]
    /\ requests \in [Rows -> RequestRow \union {None}]
    /\ slips \in [Rows -> SlipRow \union {None}]
    /\ quotations \in [Rows -> QuotationRow \union {None}]
    /\ covers \in [Rows -> CoverRow \union {None}]
    /\ policies \in [Rows -> PolicyRow \union {None}]
    /\ mailed \in [Rows -> SUBSET Insurers]
    /\ crashes \in 0..MaxCrashes

\* docs/08: no slip is ordered without its quotation. However orders of the broker
\* and of the client interleave, a slip's order is one of its own quotations and
\* the only one that shows as SELECTED.
OneFirmOrder ==
    \A s \in Existing(slips) :
        {q \in QuotationsOf(s) : quotations[q].status = "SELECTED"}
            = (IF slips[s].selected = None THEN {} ELSE {slips[s].selected})

\* A deal that shows a request shows one that was made of it, and is never linked
\* to a request without one: conversion is all or nothing.
DealShowsItsRequest ==
    \A d \in Deals : deals[d].request # None =>
        /\ requests[deals[d].request] # None
        /\ requests[deals[d].request].deal = d

-----------------------------------------------------------------------------
(* What holds when calls are served one at a time (MaxInFlight = 1)          *)

\* crm.e2e-spec.ts: a deal is converted once.
OneRequestPerDeal ==
    \A r \in Existing(requests) : requests[r].deal # None => deals[requests[r].deal].request = r

\* A policy has one renewal under way.
OneRenewalPerPolicy ==
    \A r, x \in Existing(requests) : requests[r].renews # None /\ requests[r].renews = requests[x].renews => r = x

\* The block rows of a request come from one form, its own or the renewed one's.
FormIsNotMixed == \A r \in Existing(requests) : Cardinality(requests[r].form) <= 1

\* Every insurer that was written to is recorded on the slip.
MailIsRecorded == \A s \in Existing(slips) : InFlight = {} => mailed[s] \subseteq slips[s].insurers

\* What the client has accepted was put before him.
AcceptedWasPresented ==
    \A s \in Existing(slips) : slips[s].accepted # None => slips[s].accepted \in slips[s].presented

\* An awarded request can be issued: one of its slips still shows the order.
AwardCanBeIssued ==
    \A r \in Existing(requests) : requests[r].status = "AWARDED" => Orderable(r) # {}

\* docs/20: a policy's amounts are those of the firm order. Whichever offer is
\* ordered later, a policy was made of an offer that was ordered for its request,
\* and the slip it came from takes no further offers.
PolicyWasOrdered ==
    \A p \in Existing(policies) : policies[p].request # None =>
        LET s == quotations[policies[p].quotation].slip IN
        /\ slips[s].request = policies[p].request
        /\ slips[s].status = "SELECTED"
        /\ \A q \in QuotationsOf(s) : quotations[q].status # "RECEIVED"

Stage(p) == IF policies[p].status = "CANCELLED" THEN "ISSUED" ELSE Shown[policies[p].status]

\* Past its award a request shows the stage of one of its policies, which may have
\* been cancelled since it was issued: a cancellation leaves the request ISSUED.
RequestShowsItsPolicy ==
    \A r \in Existing(requests) : requests[r].status \in {"UNDER_REVIEW", "FINANCE_REVIEW", "ISSUED"} =>
        \E p \in Existing(policies) : policies[p].request = r /\ Stage(p) = requests[r].status

\* cover-note.e2e-spec.ts: a request has one cover note in force, and none
\* that is older than a policy issued from the request.
OneCoverInForce ==
    \A m, n \in Existing(covers) :
        covers[m].status = "active" /\ covers[n].status = "active" /\ covers[m].request = covers[n].request => m = n

PolicySupersedesCover ==
    \A n \in Existing(covers), p \in Existing(policies) :
        covers[n].status = "active" /\ policies[p].request = covers[n].request => p < n

\* proposals.e2e-spec.ts: the client's acceptance is not taken back.
AcceptanceKept ==
    \A s \in Existing(slips) : slips[s].decision = "accepted" =>
        slips'[s].decision = "accepted" /\ slips'[s].accepted = slips[s].accepted
=============================================================================
