------------------------------ MODULE Allowances ------------------------------
(***************************************************************************)
(* What a tenant has bought in advance and uses up: room for documents     *)
(* (documents.service.ts, storage-usage.service.ts) and operations of the  *)
(* identity verification (verification.service.ts).                        *)
(*                                                                         *)
(* Room is reserved by one conditional UPDATE before a document is created *)
(* and corrected by the difference when its bytes arrive, which the        *)
(* statements around it do not protect. The quota is part of the plan,     *)
(* which the platform changes. Documents are named by the call that        *)
(* created them, 0 being one that is older than the counter.               *)
(***************************************************************************)
EXTENDS Integers, FiniteSets, Functions

CONSTANTS
    Calls,          \* calls of the API, numbered in order of arrival
    Sizes,          \* sizes that the plan lets a file have
    Quotas,         \* what the plans let a tenant store
    Operations,     \* paid operations in the wallet at the beginning
    MaxInFlight,    \* calls the API serves at a time
    MaxDeaths,      \* calls that die
    None            \* no row

ASSUME CallsAssumption == Calls \subseteq Nat \ {0} /\ IsFiniteSet(Calls)
ASSUME SizesAssumption == Sizes \subseteq Nat /\ Sizes # {}
ASSUME QuotaAssumption == Quotas \subseteq Nat /\ Operations \in Nat
ASSUME BoundsAssumption == MaxInFlight \in Nat \ {0}
ASSUME NoneAssumption == None \notin Int

Documents == Calls \union {0}

VARIABLES
    used,           \* TenantStorage.usedBytes
    size,           \* Document.sizeBytes
    stored,         \* the size of what the object store has
    quota,          \* Entitlement storage.quotaMb of the tenant's plan
    ceiling,        \* the largest quota so far, or what was stored before it
    balance,        \* Wallet.balance
    ledger,         \* calls with a row in TransactionLedger
    checks,         \* calls with a row in VerificationCheck
    call,           \* where each call is and the values it has read
    died            \* calls that died

storage == <<used, size, stored>>
wallet == <<balance, ledger, checks>>
plan == <<quota, ceiling>>
vars == <<storage, wallet, plan, call, died>>

-----------------------------------------------------------------------------
\* `was` and `is` are the sizes before and after, or `was` is what was read instead.
Local(step, of, was, is) == [step |-> step, of |-> of, was |-> was, is |-> is]

Idle == Local("idle", None, 0, 0)
Over == Local("done", None, 0, 0)

InFlight == {c \in Calls : call[c].step \notin {"idle", "done"}}
At(c, step) == call[c].step = step
Existing == {d \in Documents : size[d] # None}

Begin(c, local) ==
    /\ At(c, "idle")
    /\ \A d \in Calls : d < c => ~ At(d, "idle")
    /\ Cardinality(InFlight) < MaxInFlight
    /\ call' = [call EXCEPT ![c] = local]
    /\ UNCHANGED <<storage, wallet, plan, died>>

Continue(c, local) == call' = [call EXCEPT ![c] = local] /\ UNCHANGED died
Finish(c) == Continue(c, Over)

SizesOf(docs) == SumFunction([d \in docs |-> size[d]])

Larger(m, n) == IF m > n THEN m ELSE n

\* There is a document, and the counter has perhaps not been set up.
Init ==
    /\ \E s \in Sizes : size = [d \in Documents |-> IF d = 0 THEN s ELSE None]
    /\ used \in {None, size[0]}
    /\ stored = size
    /\ quota \in Quotas /\ ceiling = Larger(quota, size[0])
    /\ balance = Operations
    /\ ledger = {} /\ checks = {}
    /\ call = [c \in Calls |-> Idle]
    /\ died = {}

-----------------------------------------------------------------------------
(* Room for documents                                                       *)

\* createUploadUrl, for a file of which the client says the size.
Upload(c, s) == Begin(c, Local("ensure", c, 0, s))

\* The counter is there, or what there is is added up.
Ensure(c) ==
    /\ At(c, "ensure")
    /\ Continue(c, IF used = None THEN Local("baseline", c, SizesOf(Existing), call[c].is)
                                  ELSE Local("reserve", c, 0, call[c].is))
    /\ UNCHANGED <<storage, wallet, plan>>

\* Of two that create the counter the second fails, which is ignored.
Baseline(c) ==
    /\ At(c, "baseline")
    /\ used' = IF used = None THEN call[c].was ELSE used
    /\ Continue(c, [call[c] EXCEPT !.step = "reserve"])
    /\ UNCHANGED <<size, stored, wallet, plan>>

\* changeTenantPlan and updateEntitlement look at no document and no counter.
ChangePlan(q) ==
    /\ quota' = q /\ ceiling' = Larger(ceiling, q)
    /\ UNCHANGED <<storage, wallet, call, died>>

ReadQuota(c) ==
    /\ At(c, "reserve")
    /\ Continue(c, Local("claim", c, quota, call[c].is))
    /\ UNCHANGED <<storage, wallet, plan>>

\* One conditional UPDATE.
Reserve(c) ==
    /\ At(c, "claim")
    /\ \/ /\ used + call[c].is <= call[c].was
          /\ used' = used + call[c].is
          /\ Continue(c, [call[c] EXCEPT !.step = "create"])
       \/ /\ used + call[c].is > call[c].was
          /\ Finish(c)
          /\ UNCHANGED used
    /\ UNCHANGED <<size, stored, wallet, plan>>

CreateDocument(c) ==
    /\ At(c, "create")
    /\ size' = [size EXCEPT ![c] = call[c].is]
    /\ Finish(c)
    /\ UNCHANGED <<used, stored, wallet, plan>>

\* The document cannot be created, and the room is given back.
CreateFails(c) ==
    /\ At(c, "create")
    /\ Continue(c, [call[c] EXCEPT !.step = "release"])
    /\ UNCHANGED <<storage, wallet, plan>>

\* Mutant: the room stays taken.
Release_Keeps(c) ==
    /\ At(c, "release")
    /\ Finish(c)
    /\ UNCHANGED <<storage, wallet, plan>>

Release(c) ==
    /\ At(c, "release")
    /\ used' = used - call[c].is
    /\ Finish(c)
    /\ UNCHANGED <<size, stored, wallet, plan>>

\* receiveBlob: the bytes, of any size the plan allows, as often as the address is
\* used before it expires.
Receive(c, d, s) ==
    /\ size[d] # None
    /\ Begin(c, Local("put", d, 0, s))

Put(c) ==
    /\ At(c, "put")
    /\ stored' = [stored EXCEPT ![call[c].of] = call[c].is]
    /\ Continue(c, [call[c] EXCEPT !.step = "read"])
    /\ UNCHANGED <<used, size, wallet, plan>>

ReadSize(c) ==
    /\ At(c, "read")
    /\ Continue(c, Local("measure", call[c].of, size[call[c].of], call[c].is))
    /\ UNCHANGED <<storage, wallet, plan>>

\* confirmUpload: the bytes went to the bucket directly.
DirectPut(d, s) ==
    /\ size[d] # None
    /\ stored' = [stored EXCEPT ![d] = s]
    /\ UNCHANGED <<used, size, wallet, plan, call, died>>

Confirm(c, d) == size[d] # None /\ Begin(c, Local("head", d, size[d], 0))

Head(c) ==
    LET d == call[c].of IN
    /\ At(c, "head")
    /\ IF stored[d] = None THEN Finish(c)
       ELSE Continue(c, Local("measure", d, call[c].was, stored[d]))
    /\ UNCHANGED <<storage, wallet, plan>>

Measure(c) ==
    /\ At(c, "measure")
    /\ size' = [size EXCEPT ![call[c].of] = call[c].is]
    /\ Continue(c, [call[c] EXCEPT !.step = "reconcile"])
    /\ UNCHANGED <<used, stored, wallet, plan>>

\* Whatever the quota; nothing when there is no counter.
Reconcile(c) ==
    /\ At(c, "reconcile")
    /\ used' = IF used = None THEN None ELSE used + call[c].is - call[c].was
    /\ Finish(c)
    /\ UNCHANGED <<size, stored, wallet, plan>>

-----------------------------------------------------------------------------
(* Verification                                                             *)

\* Mutant: the balance is not looked at.
Verify_Blind(c) == Begin(c, Local("charge", None, balance, 0))

\* The gateway has been called already when the balance is looked at.
Verify(c) == balance > 0 /\ Begin(c, Local("charge", None, balance, 0))

\* Mutant: the balance that was read is written back, less one.
Charge_Stale(c) ==
    /\ At(c, "charge")
    /\ balance' = call[c].was - 1
    /\ ledger' = ledger \union {c}
    /\ Continue(c, Local("check", None, 0, 0))
    /\ UNCHANGED <<storage, checks, plan>>

\* One transaction.
Charge(c) ==
    /\ At(c, "charge")
    /\ balance' = balance - 1
    /\ ledger' = ledger \union {c}
    /\ Continue(c, Local("check", None, 0, 0))
    /\ UNCHANGED <<storage, checks, plan>>

RecordCheck(c) ==
    /\ At(c, "check")
    /\ checks' = checks \union {c}
    /\ Finish(c)
    /\ UNCHANGED <<storage, balance, ledger, plan>>

-----------------------------------------------------------------------------
\* The process dies, or a statement throws where nothing gives anything back.
Fail(c) ==
    /\ c \in InFlight /\ Cardinality(died) < MaxDeaths
    /\ call' = [call EXCEPT ![c] = Over]
    /\ died' = died \union {c}
    /\ UNCHANGED <<storage, wallet, plan>>

Step(c) ==
    \/ Ensure(c) \/ Baseline(c) \/ ReadQuota(c) \/ Reserve(c)
    \/ CreateDocument(c) \/ CreateFails(c) \/ Release(c)
    \/ Put(c) \/ ReadSize(c) \/ Head(c) \/ Measure(c) \/ Reconcile(c)
    \/ Charge(c) \/ RecordCheck(c)

Accept(c) ==
    \/ \E s \in Sizes : Upload(c, s) \/ \E d \in Documents : Receive(c, d, s)
    \/ \E d \in Documents : Confirm(c, d)
    \/ Verify(c)

Next ==
    \/ \E c \in Calls : Accept(c) \/ Step(c) \/ Fail(c)
    \/ \E d \in Documents, s \in Sizes : DirectPut(d, s)
    \/ \E q \in Quotas : ChangePlan(q)

Spec == Init /\ [][Next]_vars

-----------------------------------------------------------------------------
TypeOK ==
    /\ used \in Int \union {None}
    /\ size \in [Documents -> Sizes \union {None}]
    /\ stored \in [Documents -> Sizes \union {None}]
    /\ quota \in Quotas /\ ceiling \in Nat
    /\ balance \in Int
    /\ ledger \subseteq Calls /\ checks \subseteq Calls
    /\ died \subseteq Calls

\* The wallet and its ledger tell the same story, however checks interleave.
BalanceMatchesLedger == balance = Operations - Cardinality(ledger)

\* No check is recorded that was not paid for.
ChecksArePaid == checks \subseteq ledger

\* What the wallet has lost was charged, and what was checked was charged for.
WalletIsSound == BalanceMatchesLedger /\ ChecksArePaid

\* verification.e2e-spec.ts: a wallet without operations refuses. It is overdrawn
\* by those calls only that were let in beside the last one.
OverdraftIsBounded == balance >= 1 - MaxInFlight

-----------------------------------------------------------------------------
(* What holds while clients or calls behave                                 *)

Holding == {c \in Calls : call[c].step \in {"create", "release"}}
Measured == {c \in Calls : At(c, "reconcile")}

\* The comment above StorageUsageService: the reservation keeps the quota, however
\* calls interleave or die and plans change. What is stored already stays when the
\* quota is lowered, but the counter is never above all of the quotas there have
\* been. While files are as large as announced.
WithinQuota == used # None => used <= ceiling

\* The counter is the sum of the documents, but for what calls in progress hold
\* or have yet to correct. While no call dies, no document is sent by two calls
\* at a time and none while the counter is set up.
CounterAddsUp ==
    used # None =>
        used + SumFunction([c \in Measured |-> call[c].is - call[c].was])
            = SizesOf(Existing) + SumFunction([c \in Holding |-> call[c].is])
=============================================================================
