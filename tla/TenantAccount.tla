---------------------------- MODULE TenantAccount ----------------------------
(***************************************************************************)
(* The account of a tenant: what it has paid for (billing.service.ts), the *)
(* members it has employed on its licensed seats (staff.service.ts), their *)
(* sessions (auth.service.ts), its standing with the platform              *)
(* (platform.service.ts) and the cached answer to what it may do           *)
(* (tenant-access.service.ts).                                             *)
(*                                                                         *)
(* A call reads, checks, awaits, and writes without checking again. Rows   *)
(* are named by the call that created them, 0 being rows there from the    *)
(* beginning. A seat invoice buys one seat.                                *)
(***************************************************************************)
EXTENDS Integers, FiniteSets

CONSTANTS
    Users,          \* persons who are or may become members
    Owner,          \* the member that signed the tenant up
    Staff,          \* the members, the owner among them
    Seats,          \* seats chosen at the signup
    Calls,          \* calls of the API, numbered in order of arrival
    MaxInFlight,    \* calls the API serves at a time
    MaxCrashes,     \* calls cut short and restarts
    None            \* a null column, or no entry of the cache

ASSUME CallsAssumption == Calls \subseteq Nat \ {0}
ASSUME StaffAssumption == Owner \in Staff /\ Staff \subseteq Users /\ IsFiniteSet(Staff)
ASSUME SeatsAssumption == Seats \in Nat /\ Cardinality(Staff) <= Seats
ASSUME BoundsAssumption == MaxInFlight \in Nat /\ MaxCrashes \in Nat
Rows == Calls \union {0}
InvoiceRow == [buys : {"plan", "seat"}, status : {"PENDING", "PAID", "FAILED"}, charged : BOOLEAN]
TokenRow == [user : Users, login : Rows, state : {"live", "exchanged", "revoked"}]
Charges == {"INITIATED", "CAPTURED", "FAILED"}

ASSUME NoneAssumption == None \notin InvoiceRow \union TokenRow \union Charges

VARIABLES
    status,         \* Tenant.status
    trialOver,      \* whether startedAt + trialDays has passed
    renewal,        \* Subscription.renewsAt: "ahead" or "passed"
    licensed,       \* Subscription.seatsLicensed
    used,           \* Subscription.seatsUsed
    returned,       \* seats the tenant has given back, by their calls
    members,        \* users whose status is ACTIVE
    invoices,       \* SubscriptionInvoice: what it buys, its status and whether it knows its charge
    charges,        \* the gateway's charges, by invoice
    tokens,         \* RefreshToken: its user, the login it descends from, its state
    cache,          \* the entry of TenantAccessService.cache that is not too old
    lookup,         \* the request that is computing the tenant's access
    call,           \* where each call is and the values it has read
    crashes

account == <<status, renewal>>
seats == <<licensed, used, returned, members>>
billing == <<invoices, charges>>
access == <<cache, lookup>>
vars == <<account, trialOver, seats, billing, tokens, access, call, crashes>>

-----------------------------------------------------------------------------
Invoice(buys, state, charged) == [buys |-> buys, status |-> state, charged |-> charged]

\* Token: its row says only that it is revoked; the model also by what.
Token(user, login) == [user |-> user, login |-> login, state |-> "live"]

Local(step, of, value) == [step |-> step, of |-> of, value |-> value]

Idle == Local("idle", None, None)
Over == Local("done", None, None)

InFlight == {c \in Calls : call[c].step \notin {"idle", "done"}}
At(c, step) == call[c].step = step
Existing(table) == {x \in Rows : table[x] # None}

Begin(c, local) ==
    /\ call[c].step = "idle"
    /\ \A d \in Calls : d < c => call[d].step # "idle"
    /\ Cardinality(InFlight) < MaxInFlight
    /\ call' = [call EXCEPT ![c] = local]
    /\ UNCHANGED <<account, trialOver, seats, billing, tokens, access, crashes>>

Continue(c, local) == call' = [call EXCEPT ![c] = local] /\ UNCHANGED <<trialOver, crashes>>
Finish(c) == Continue(c, Over)

\* The tenant has signed up for its seats, taken some since, and has an
\* invoice and a session of the owner's open.
Init ==
    /\ status \in {"TRIAL", "ACTIVE"}
    /\ trialOver = FALSE
    /\ renewal = "ahead"
    /\ licensed = Seats
    /\ used = Seats
    /\ returned = {}
    /\ members = Staff
    /\ \E buys \in {"plan", "seat"} :
           invoices = [x \in Rows |-> IF x = 0 THEN Invoice(buys, "PENDING", TRUE) ELSE None]
    /\ charges = [x \in Rows |-> IF x = 0 THEN "INITIATED" ELSE None]
    /\ tokens = [x \in Rows |-> IF x = 0 THEN Token(Owner, 0) ELSE None]
    /\ cache = None
    /\ lookup = Idle
    /\ call = [c \in Calls |-> Idle]
    /\ crashes = 0

-----------------------------------------------------------------------------
(* Subscription and seat invoices                                           *)

Checkout(c, buys) == Begin(c, Local("invoice", c, buys))

CreateInvoice(c) ==
    /\ At(c, "invoice")
    /\ invoices' = [invoices EXCEPT ![c] = Invoice(call[c].value, "PENDING", FALSE)]
    /\ Continue(c, Local("charge", c, None))
    /\ UNCHANGED <<account, seats, charges, tokens, access>>

CreateCharge(c) ==
    /\ At(c, "charge")
    /\ charges' = [charges EXCEPT ![c] = "INITIATED"]
    /\ Continue(c, Local("link", c, None))
    /\ UNCHANGED <<account, seats, invoices, tokens, access>>

StoreCharge(c) ==
    /\ At(c, "link")
    /\ invoices' = [invoices EXCEPT ![c].charged = TRUE]
    /\ Finish(c)
    /\ UNCHANGED <<account, seats, charges, tokens, access>>

\* The customer has the address of the payment page from the answer.
Settle(i, outcome) ==
    /\ charges[i] = "INITIATED" /\ invoices[i].charged
    /\ charges' = [charges EXCEPT ![i] = outcome]
    /\ UNCHANGED <<account, trialOver, seats, invoices, tokens, access, call, crashes>>

Confirm(c, i) ==
    /\ invoices[i] # None /\ invoices[i].status # "PAID" /\ invoices[i].charged
    /\ Begin(c, Local("retrieve", i, None))

\* Mutant: the gateway's answer is not looked at.
Retrieve_Trusts(c) ==
    /\ At(c, "retrieve")
    /\ Continue(c, Local("activate", call[c].of, None))
    /\ UNCHANGED <<account, seats, billing, tokens, access>>

Retrieve(c) ==
    LET i == call[c].of IN
    /\ At(c, "retrieve")
    /\ \/ charges[i] = "CAPTURED" /\ Continue(c, Local("activate", i, None))
       \/ charges[i] = "FAILED" /\ Continue(c, Local("mark", i, "FAILED"))
       \/ charges[i] = "INITIATED" /\ Continue(c, Local("mark", i, "PENDING"))
    /\ UNCHANGED <<account, seats, billing, tokens, access>>

\* Without a look at what the invoice has become.
Mark(c) ==
    /\ At(c, "mark")
    /\ invoices' = [invoices EXCEPT ![call[c].of].status = call[c].value]
    /\ Finish(c)
    /\ UNCHANGED <<account, seats, charges, tokens, access>>

\* Mutant: a repeated message is not told from the first.
Webhook_Repeats(c, i) ==
    /\ charges[i] = "CAPTURED" /\ invoices[i].charged
    /\ Begin(c, Local("activate", i, None))

\* Delivered any time after the payment, perhaps more than once. One that does
\* not say paid changes nothing.
Webhook(c, i) ==
    /\ charges[i] = "CAPTURED" /\ invoices[i].charged /\ invoices[i].status # "PAID"
    /\ Begin(c, Local("activate", i, None))

\* One transaction. A plan lifts what blocked the tenant, whatever it was.
Activate(c) ==
    LET i == call[c].of IN
    /\ At(c, "activate")
    /\ invoices' = [invoices EXCEPT ![i].status = "PAID"]
    /\ \/ /\ invoices[i].buys = "seat"
          /\ licensed' = licensed + 1
          /\ Finish(c)
          /\ UNCHANGED account
       \/ /\ invoices[i].buys = "plan"
          /\ status' = "ACTIVE" /\ renewal' = "ahead"
          /\ Continue(c, Local("invalidate", None, None))
          /\ UNCHANGED licensed
    /\ UNCHANGED <<used, returned, members, charges, tokens, access>>

-----------------------------------------------------------------------------
(* Members on licensed seats                                                *)

CreateMember(c, u) ==
    /\ u \notin members /\ Cardinality(members) < licensed
    /\ Begin(c, Local("hire", u, None))

\* Mutant: the seats in use are left as they were.
CommitMember_Unsynced(c) ==
    /\ At(c, "hire")
    /\ members' = members \union {call[c].of}
    /\ Finish(c)
    /\ UNCHANGED <<account, licensed, used, returned, billing, tokens, access>>

CommitMember(c) ==
    /\ At(c, "hire")
    /\ members' = members \union {call[c].of}
    /\ Continue(c, Local("count", FALSE, None))
    /\ UNCHANGED <<account, licensed, used, returned, billing, tokens, access>>

\* Whoever asks is someone else who once logged in, perhaps no member any more.
Offboard(c, u, cancelSeat) ==
    /\ u \in members
    /\ \E t \in Existing(tokens) : tokens[t].user # u
    /\ Begin(c, Local("disable", u, cancelSeat))

Disable(c) ==
    /\ At(c, "disable")
    /\ members' = members \ {call[c].of}
    /\ Continue(c, Local("count", call[c].value, None))
    /\ UNCHANGED <<account, licensed, used, returned, billing, tokens, access>>

\* The members in use and, when a seat is given back, the new licence.
CountSeats(c) ==
    LET count == Cardinality(members)
        less == IF licensed - 1 > count THEN licensed - 1 ELSE count
    IN /\ At(c, "count")
       /\ Continue(c, Local("sync", count, IF call[c].of THEN less ELSE None))
       /\ UNCHANGED <<account, seats, billing, tokens, access>>

SyncSeats(c) ==
    /\ At(c, "sync")
    /\ used' = call[c].of
    /\ IF call[c].value = None THEN UNCHANGED <<licensed, returned>>
       ELSE /\ licensed' = call[c].value
            /\ returned' = IF call[c].value < licensed THEN returned \union {c} ELSE returned
    /\ Finish(c)
    /\ UNCHANGED <<account, members, billing, tokens, access>>

-----------------------------------------------------------------------------
(* Sessions                                                                 *)

Login(c, u) == u \in members /\ Begin(c, Local("issue", u, c))

\* Mutant: a token that was exchanged is taken again.
Refresh_Reuses(c, t) ==
    /\ tokens[t] # None /\ tokens[t].user \in members
    /\ Begin(c, Local("rotate", t, None))

Refresh(c, t) ==
    /\ tokens[t] # None /\ tokens[t].state = "live" /\ tokens[t].user \in members
    /\ Begin(c, Local("rotate", t, None))

Rotate(c) ==
    LET t == call[c].of IN
    /\ At(c, "rotate")
    /\ tokens' = [tokens EXCEPT ![t].state = "exchanged"]
    /\ Continue(c, Local("issue", tokens[t].user, tokens[t].login))
    /\ UNCHANGED <<account, seats, billing, access>>

IssueToken(c) ==
    /\ At(c, "issue")
    /\ tokens' = [tokens EXCEPT ![c] = Token(call[c].of, call[c].value)]
    /\ Finish(c)
    /\ UNCHANGED <<account, seats, billing, access>>

Logout(c, t) == tokens[t] # None /\ Begin(c, Local("revoke", t, None))

Revoke(c) ==
    /\ At(c, "revoke")
    /\ tokens' = [tokens EXCEPT ![call[c].of].state = IF @ = "live" THEN "revoked" ELSE @]
    /\ Finish(c)
    /\ UNCHANGED <<account, seats, billing, access>>

-----------------------------------------------------------------------------
(* The platform and the tenant's standing                                   *)

\* CANCELLED blocks a tenant as SUSPENDED does and is not set here.
SetStatus(c, s) == Begin(c, Local("standing", s, renewal))

\* A date, which may have passed, or so many months; the tenant is ACTIVE by it.
SetRenewal(c, date) == Begin(c, Local("standing", "ACTIVE", date))

CommitStanding(c) ==
    /\ At(c, "standing")
    /\ status' = call[c].of
    /\ renewal' = call[c].value
    /\ Continue(c, Local("invalidate", None, None))
    /\ UNCHANGED <<seats, billing, tokens, access>>

Invalidate(c) ==
    /\ At(c, "invalidate")
    /\ cache' = None
    /\ Finish(c)
    /\ UNCHANGED <<account, seats, billing, tokens, lookup>>

Pass(date, over) ==
    /\ renewal' = date /\ trialOver' = over
    /\ UNCHANGED <<status, seats, billing, tokens, access, call, crashes>>

RenewalPasses == renewal = "ahead" /\ Pass("passed", trialOver)
TrialEnds == ~ trialOver /\ Pass(renewal, TRUE)

-----------------------------------------------------------------------------
(* What the tenant may do, computed once a minute                           *)

Access(s, over, date) ==
    IF s \in {"SUSPENDED", "CANCELLED"} THEN "blocked"
    ELSE IF (s = "TRIAL" /\ over) \/ (s = "ACTIVE" /\ date = "passed") THEN "readonly"
    ELSE "active"

Look(local) ==
    /\ lookup' = local
    /\ UNCHANGED <<account, trialOver, seats, billing, tokens, cache, call, crashes>>

\* A request finds no entry and reads the tenant.
ReadStatus == cache = None /\ lookup = Idle /\ Look(Local("status", status, None))

\* The dates are read by a statement of its own.
ComputeAccess ==
    /\ lookup.step = "status"
    /\ Look(Local("store", None, Access(lookup.of, trialOver, renewal)))

\* The answer is stored as of now, whatever was invalidated meanwhile.
StoreAccess ==
    /\ lookup.step = "store"
    /\ cache' = lookup.value
    /\ lookup' = Idle
    /\ UNCHANGED <<account, trialOver, seats, billing, tokens, call, crashes>>

\* Mutant: an entry is renewed by each request that finds it.
CacheExpires_Never == FALSE /\ UNCHANGED vars

\* A minute after it was stored, an entry is not used any more.
CacheExpires ==
    /\ cache # None
    /\ cache' = None
    /\ UNCHANGED <<account, trialOver, seats, billing, tokens, lookup, call, crashes>>

-----------------------------------------------------------------------------
\* An operation of the call throws. Invalidation is a local statement.
Fail(c) ==
    /\ c \in InFlight /\ ~ At(c, "invalidate") /\ crashes < MaxCrashes
    /\ call' = [call EXCEPT ![c] = Over]
    /\ crashes' = crashes + 1
    /\ UNCHANGED <<account, trialOver, seats, billing, tokens, access>>

\* The cache is the process's.
Restart ==
    /\ crashes < MaxCrashes
    /\ call' = [c \in Calls |-> IF c \in InFlight THEN Over ELSE call[c]]
    /\ crashes' = crashes + 1
    /\ cache' = None /\ lookup' = Idle
    /\ UNCHANGED <<account, trialOver, seats, billing, tokens>>

Step(c) ==
    \/ CreateInvoice(c) \/ CreateCharge(c) \/ StoreCharge(c)
    \/ Retrieve(c) \/ Mark(c) \/ Activate(c)
    \/ CommitMember(c) \/ Disable(c) \/ CountSeats(c) \/ SyncSeats(c)
    \/ Rotate(c) \/ IssueToken(c) \/ Revoke(c)
    \/ CommitStanding(c) \/ Invalidate(c)

Accept(c) ==
    \/ \E buys \in {"plan", "seat"} : Checkout(c, buys)
    \/ \E i \in Rows : Confirm(c, i) \/ Webhook(c, i)
    \/ \E u \in Users : CreateMember(c, u) \/ Login(c, u) \/ \E b \in BOOLEAN : Offboard(c, u, b)
    \/ \E t \in Rows : Refresh(c, t) \/ Logout(c, t)
    \/ \E s \in {"ACTIVE", "SUSPENDED"} : SetStatus(c, s)
    \/ \E date \in {"ahead", "passed"} : SetRenewal(c, date)

Customer == \E i \in Rows : Settle(i, "CAPTURED") \/ Settle(i, "FAILED")
Clock == RenewalPasses \/ TrialEnds \/ CacheExpires
Lookup == ReadStatus \/ ComputeAccess \/ StoreAccess

Next ==
    \/ \E c \in Calls : Accept(c) \/ Step(c) \/ Fail(c)
    \/ Customer \/ Clock \/ Lookup \/ Restart

Spec == Init /\ [][Next]_vars

\* Calls in progress go on, requests keep coming, and minutes pass.
FairSpec ==
    /\ Spec
    /\ WF_vars(\E c \in Calls : Step(c))
    /\ WF_vars(Lookup)
    /\ WF_vars(CacheExpires)

-----------------------------------------------------------------------------
\* The columns hold what their declarations say: an offboarding never leaves a
\* negative licence, and a customer's payment never meets a row without its charge.
TypeOK ==
    /\ status \in {"TRIAL", "ACTIVE", "SUSPENDED", "CANCELLED"}
    /\ trialOver \in BOOLEAN
    /\ renewal \in {"ahead", "passed"}
    /\ licensed \in Nat /\ used \in Nat
    /\ returned \subseteq Calls
    /\ members \subseteq Users
    /\ invoices \in [Rows -> InvoiceRow \union {None}]
    /\ charges \in [Rows -> Charges \union {None}]
    /\ tokens \in [Rows -> TokenRow \union {None}]
    /\ cache \in {"active", "readonly", "blocked", None}
    /\ crashes \in 0..MaxCrashes

\* billing.e2e-spec.ts: nothing is activated that the gateway has not captured.
PaidIsCaptured == \A i \in Existing(invoices) : invoices[i].status = "PAID" => charges[i] = "CAPTURED"

\* The comment above invalidate: what a tenant may do follows its standing.
\* However lookups and changes interleave, a wrong answer does not last.
AccessSettles == <>[](cache \in {None, Access(status, trialOver, renewal)})

-----------------------------------------------------------------------------
(* What holds when calls are served one at a time (MaxInFlight = 1)          *)

PaidSeats == {i \in Existing(invoices) : invoices[i].buys = "seat" /\ invoices[i].status = "PAID"}

\* plan-seats.e2e-spec.ts: the licence is what was signed up for and paid for,
\* less what was given back.
LicenceIsPaid == licensed = Seats + Cardinality(PaidSeats) - Cardinality(returned)

\* staff.service.ts: no more members than licensed seats.
MembersAreLicensed == Cardinality(members) <= licensed

\* Between calls, the seats that the next checkout bills are not fewer than the members.
MembersAreBilled == InFlight = {} => Cardinality(members) <= used

\* The platform blocks a tenant at once and a payment frees it at once: between
\* calls a cached answer is right but for a date that has passed since.
CacheIsCurrent ==
    InFlight = {} => \/ cache \in {None, Access(status, trialOver, renewal)}
                     \/ cache = "active" /\ Access(status, trialOver, renewal) = "readonly"

\* A suspension is lifted by the platform or by an invoice that gets paid in the
\* same step, never by an old payment.
SuspensionHolds ==
    (status = "SUSPENDED" /\ status' = "ACTIVE") =>
        \/ \E c \in Calls : At(c, "standing")
        \/ \E i \in Existing(invoices) : invoices[i].status # "PAID" /\ invoices'[i].status = "PAID"

\* auth-refresh.e2e-spec.ts: a refresh token is used once, so that a login has
\* one that is live.
OneLiveToken ==
    \A t, o \in Existing(tokens) :
        tokens[t].state = "live" /\ tokens[o].state = "live" /\ tokens[t].login = tokens[o].login => t = o

\* A logout ends the session, however often its token was exchanged before.
LogoutEndsSession ==
    \A t, o \in Existing(tokens) :
        tokens[t].state = "revoked" /\ tokens[t].login = tokens[o].login => tokens[o].state # "live"
=============================================================================
