---------------------------- MODULE ZatcaDocuments ----------------------------
(***************************************************************************)
(* The tax documents (BillingDocument) of one tenant: how concurrent       *)
(* financial approvals number and chain them inside their transactions,    *)
(* how they are then routed to the tax authority, and how the reporting    *)
(* queue in Redis is drained (modules/finance/zatca).                      *)
(*                                                                         *)
(* Two transactions that issue documents meet on the row of the tenant's   *)
(* configuration. PostgreSQL runs them at READ COMMITTED: a plain SELECT   *)
(* does not wait for the row, an UPDATE does, and holds it to the commit.  *)
(* The SHA-256 hash of a document is taken to be the document itself.      *)
(***************************************************************************)
EXTENDS Integers, Sequences, FiniteSets

CONSTANTS
    Approvals,      \* financial approvals, each issuing its documents
    Kinds,          \* what an approval may issue: sequences of subtypes
    Workers,        \* drains that may overlap: the timer's and the manual ones
    DrainLimit,     \* documents one drain takes at most (50 in the code)
    Answers,        \* what the authority may answer
    MaxInFlight,    \* approvals in progress at a time
    MaxFaults,      \* failed calls, rolled back transactions and crashes
    None            \* a null column

Subtypes == {"B2C", "B2B"}      \* SIMPLIFIED_B2C and STANDARD_B2B

ASSUME KindsAssumption == Kinds \subseteq {<<s>> : s \in Subtypes} \union (Subtypes \X Subtypes)
ASSUME AnswersAssumption == Answers \subseteq {"accepted", "refused"}
ASSUME LimitAssumption == DrainLimit \in Nat
ASSUME FaultsAssumption == MaxFaults \in Nat

\* The i-th document of an approval; also its uuid, and its hash.
Doc == Approvals \X {1, 2}

VARIABLES
    counter,        \* TenantZatcaConfig.invoiceCounter
    lastHash,       \* TenantZatcaConfig.lastDocumentHash
    lock,           \* the approval whose transaction holds the configuration row
    docs,           \* the BillingDocument rows
    app,            \* where each approval is, and what it has read
    queue,          \* zatca:reporting:queue
    worker,         \* where each drain is
    acks,           \* how often the authority has accepted a document
    faults

vars == <<counter, lastHash, lock, docs, app, queue, worker, acks, faults>>

-----------------------------------------------------------------------------
Row(number, prev, subtype, status) ==
    [counter |-> number, prev |-> prev, subtype |-> subtype, status |-> status]

Status == {"PENDING", "CLEARED", "REPORTED", "FAILED"}
Rows == [counter : Nat, prev : Doc \union {None}, subtype : Subtypes, status : Status]

ASSUME NoneAssumption == None \notin Approvals \union Doc \union Rows

\* The local variables of an approval: what it issues, the hash and the counter
\* it has read, the document it routes next and the authority's answer to it.
Local(step, kind, prev, base, next, answer) ==
    [step |-> step, kind |-> kind, prev |-> prev, base |-> base, next |-> next, answer |-> answer]

Idle == Local("idle", <<>>, None, 0, 0, None)
Over == Local("done", <<>>, None, 0, 0, None)

At(a, step) == app[a].step = step
InFlight == {a \in Approvals : app[a].step \notin {"idle", "done"}}

Run(step, d, left) == [step |-> step, doc |-> d, left |-> left]
Resting == Run("idle", None, 0)

Init ==
    /\ counter = 0
    /\ lastHash = None
    /\ lock = None
    /\ docs = [d \in Doc |-> None]
    /\ app = [a \in Approvals |-> Idle]
    /\ queue = <<>>
    /\ worker = [w \in Workers |-> Resting]
    /\ acks = [d \in Doc |-> 0]
    /\ faults = 0

-----------------------------------------------------------------------------
(* createInTx, inside the transaction of approvePolicy                      *)

\* The SELECT of the configuration sees the last committed hash and waits for
\* nobody.
ReadConfig(a, kind) ==
    /\ At(a, "idle")
    /\ Cardinality(InFlight) < MaxInFlight
    /\ app' = [app EXCEPT ![a] = Local("read", kind, lastHash, 0, 0, None)]
    /\ UNCHANGED <<counter, lastHash, lock, docs, queue, worker, acks, faults>>

\* Mutant: the counter is read and written instead of incremented in place.
BumpCounter_ReadModifyWrite(a) ==
    LET l == app[a] IN
    /\ At(a, "read")
    /\ lock' = a
    /\ app' = [app EXCEPT ![a] = Local("locked", l.kind, l.prev, counter, 0, None)]
    /\ UNCHANGED <<counter, lastHash, docs, queue, worker, acks, faults>>

\* Mutant: the hash is saved outside the transaction.
BumpCounter_SavesHash(a) ==
    LET l == app[a] IN
    /\ At(a, "read")
    /\ lock = None
    /\ lock' = a
    /\ lastHash' = <<a, Len(l.kind)>>
    /\ app' = [app EXCEPT ![a] = Local("locked", l.kind, l.prev, counter, 0, None)]
    /\ UNCHANGED <<counter, docs, queue, worker, acks, faults>>

\* The increment waits for the row and then counts from what was committed.
BumpCounter(a) ==
    LET l == app[a] IN
    /\ At(a, "read")
    /\ lock = None
    /\ lock' = a
    /\ app' = [app EXCEPT ![a] = Local("locked", l.kind, l.prev, counter, 0, None)]
    /\ UNCHANGED <<counter, lastHash, docs, queue, worker, acks, faults>>

\* Mutant: the configuration is read once for all the documents.
Issued_OneRead(a, i) ==
    Row(app[a].base + i, app[a].prev, app[a].kind[i], "PENDING")

\* The i-th row of the transaction. Only the first follows the hash that was
\* read before the row lock; the others see the transaction's own writes.
Issued(a, i) ==
    Row(app[a].base + i, IF i = 1 THEN app[a].prev ELSE <<a, i - 1>>, app[a].kind[i], "PENDING")

\* The commit shows the documents, the counter and the tip of the chain at once.
Commit(a) ==
    LET l == app[a]
        n == Len(l.kind)
    IN
    /\ At(a, "locked")
    /\ docs' = [d \in Doc |-> IF d[1] = a /\ d[2] <= n THEN Issued(a, d[2]) ELSE docs[d]]
    /\ counter' = l.base + n
    /\ lastHash' = <<a, n>>
    /\ lock' = None
    /\ app' = [app EXCEPT ![a] = Local("route", l.kind, None, 0, 1, None)]
    /\ UNCHANGED <<queue, worker, acks, faults>>

-----------------------------------------------------------------------------
(* ZatcaInvoiceRouter.route, once per document, after the commit            *)

\* The loop of approvePolicy goes on to the next document, or is over.
NextDocument(a) ==
    LET l == app[a] IN
    app' = [app EXCEPT ![a] = IF l.next < Len(l.kind)
                              THEN Local("route", l.kind, None, 0, l.next + 1, None)
                              ELSE Over]

Enqueue(a) ==
    LET d == <<a, app[a].next>> IN
    /\ At(a, "route")
    /\ docs[d].subtype = "B2C"
    /\ queue' = Append(queue, d)
    /\ NextDocument(a)
    /\ UNCHANGED <<counter, lastHash, lock, docs, worker, acks, faults>>

Accepted(d, answer) ==
    acks' = IF answer = "accepted" THEN [acks EXCEPT ![d] = @ + 1] ELSE acks

Clear(a, answer) ==
    LET l == app[a]
        d == <<a, l.next>>
    IN
    /\ At(a, "route")
    /\ docs[d].subtype = "B2B"
    /\ Accepted(d, answer)
    /\ app' = [app EXCEPT ![a] = Local("stamp", l.kind, None, 0, l.next, answer)]
    /\ UNCHANGED <<counter, lastHash, lock, docs, queue, worker, faults>>

WithStatus(d, status) ==
    docs' = [docs EXCEPT ![d] = Row(@.counter, @.prev, @.subtype, status)]

Stamp(a) ==
    /\ At(a, "stamp")
    /\ WithStatus(<<a, app[a].next>>, IF app[a].answer = "accepted" THEN "CLEARED" ELSE "FAILED")
    /\ NextDocument(a)
    /\ UNCHANGED <<counter, lastHash, lock, queue, worker, acks, faults>>

\* Redis, the authority or the database fails a call of route: the document is
\* left as it is, the error is logged and the loop goes on.
RouteFails(a) ==
    /\ At(a, "route") \/ At(a, "stamp")
    /\ faults < MaxFaults
    /\ faults' = faults + 1
    /\ NextDocument(a)
    /\ UNCHANGED <<counter, lastHash, lock, docs, queue, worker, acks>>

\* The transaction rolls back, or the process dies during or after it.
Abort(a) ==
    /\ a \in InFlight
    /\ faults < MaxFaults
    /\ faults' = faults + 1
    /\ lock' = IF lock = a THEN None ELSE lock
    /\ app' = [app EXCEPT ![a] = Over]
    /\ UNCHANGED <<counter, lastHash, docs, queue, worker, acks>>

-----------------------------------------------------------------------------
(* ZatcaReportingQueue.drain                                                *)

\* Every 30 seconds, or on POST /zatca/reporting/drain, whether or not another
\* drain is still running.
StartDrain(w) ==
    /\ worker[w].step = "idle"
    /\ worker' = [worker EXCEPT ![w] = Run("pop", None, DrainLimit)]
    /\ UNCHANGED <<counter, lastHash, lock, docs, app, queue, acks, faults>>

\* Mutant: the limit is tested after the document has left the list.
Pop_OffByOne(w) ==
    LET run == worker[w] IN
    /\ run.step = "pop"
    /\ IF queue = <<>>
       THEN worker' = [worker EXCEPT ![w] = Resting] /\ UNCHANGED queue
       ELSE /\ queue' = Tail(queue)
            /\ worker' = [worker EXCEPT ![w] = IF run.left = 0 THEN Resting
                                               ELSE Run("report", Head(queue), run.left - 1)]
    /\ UNCHANGED <<counter, lastHash, lock, docs, app, acks, faults>>

\* Mutant: the document stays on the list while it is being reported.
Pop_Peeks(w) ==
    LET run == worker[w] IN
    /\ run.step = "pop"
    /\ worker' = [worker EXCEPT ![w] = IF run.left = 0 \/ queue = <<>> THEN Resting
                                       ELSE Run("report", Head(queue), run.left - 1)]
    /\ UNCHANGED <<counter, lastHash, lock, docs, app, queue, acks, faults>>

\* lpop, until the list is empty or the limit is reached.
Pop(w) ==
    LET run == worker[w] IN
    /\ run.step = "pop"
    /\ IF run.left = 0 \/ queue = <<>>
       THEN worker' = [worker EXCEPT ![w] = Resting] /\ UNCHANGED queue
       ELSE /\ worker' = [worker EXCEPT ![w] = Run("report", Head(queue), run.left - 1)]
            /\ queue' = Tail(queue)
    /\ UNCHANGED <<counter, lastHash, lock, docs, app, acks, faults>>

\* A document already REPORTED is skipped, the others are reported; one that
\* the authority refuses is not put back.
Report(w, answer) ==
    LET run == worker[w]
        skip == docs[run.doc].status = "REPORTED"
    IN
    /\ run.step = "report"
    /\ IF skip THEN UNCHANGED acks ELSE Accepted(run.doc, answer)
    /\ worker' = [worker EXCEPT ![w] = IF ~ skip /\ answer = "accepted"
                                       THEN Run("mark", run.doc, run.left)
                                       ELSE Run("pop", None, run.left)]
    /\ UNCHANGED <<counter, lastHash, lock, docs, app, queue, faults>>

MarkReported(w) ==
    LET run == worker[w] IN
    /\ run.step = "mark"
    /\ WithStatus(run.doc, "REPORTED")
    /\ worker' = [worker EXCEPT ![w] = Run("pop", None, run.left)]
    /\ UNCHANGED <<counter, lastHash, lock, app, queue, acks, faults>>

\* The process dies, or a call throws and ends the drain.
DrainFails(w) ==
    /\ worker[w].step # "idle"
    /\ faults < MaxFaults
    /\ faults' = faults + 1
    /\ worker' = [worker EXCEPT ![w] = Resting]
    /\ UNCHANGED <<counter, lastHash, lock, docs, app, queue, acks>>

-----------------------------------------------------------------------------
Continue(a) ==
    \/ BumpCounter(a) \/ Commit(a) \/ Enqueue(a) \/ Stamp(a)
    \/ \E answer \in Answers : Clear(a, answer)

Drain(w) ==
    \/ StartDrain(w) \/ Pop(w) \/ MarkReported(w)
    \/ \E answer \in Answers : Report(w, answer)

Next ==
    \/ \E a \in Approvals : \/ \E kind \in Kinds : ReadConfig(a, kind)
                            \/ Continue(a) \/ RouteFails(a) \/ Abort(a)
    \/ \E w \in Workers : Drain(w) \/ DrainFails(w)

Spec == Init /\ [][Next]_vars

-----------------------------------------------------------------------------
(* Properties                                                               *)

Locals == [step : {"idle", "read", "locked", "route", "stamp", "done"},
           kind : Kinds \union {<<>>}, prev : Doc \union {None},
           base : Nat, next : 0..2, answer : Answers \union {None}]

Drains == [step : {"idle", "pop", "report", "mark"}, doc : Doc \union {None}, left : 0..DrainLimit]

\* The rows and the local variables hold what their declarations say.
TypeOK ==
    /\ counter \in Nat
    /\ lastHash \in Doc \union {None}
    /\ lock \in Approvals \union {None}
    /\ docs \in [Doc -> Rows \union {None}]
    /\ app \in [Approvals -> Locals]
    /\ queue \in Seq(Doc)
    /\ worker \in [Workers -> Drains]
    /\ acks \in [Doc -> Nat]
    /\ faults \in 0..MaxFaults

\* The committed documents are numbered 1, 2, 3 ... without a gap and without a
\* repetition, however approvals interleave and roll back (createInTx counts
\* inside the transaction so that no number leaks).
NumbersAreGapless ==
    /\ \A d \in Doc : docs[d] # None => docs[d].counter \in 1..counter
    /\ \A d, e \in Doc : docs[d] # None /\ docs[e] # None /\ docs[d].counter = docs[e].counter => d = e
    /\ \A k \in 1..counter : \E d \in Doc : docs[d] # None /\ docs[d].counter = k

\* The hash a document is chained to is that of a committed document with a
\* smaller number: the chain may fork, but it never dangles and has no cycle.
PreviousIsOlder ==
    \A d \in Doc : docs[d] # None /\ docs[d].prev # None =>
        LET p == docs[docs[d].prev] IN p # None /\ p.counter < docs[d].counter

\* A document is marked CLEARED or REPORTED only once the authority accepted it.
AcceptedFirst ==
    \A d \in Doc : docs[d] # None /\ docs[d].status \in {"CLEARED", "REPORTED"} => acks[d] > 0

\* No document is accepted twice by the authority, although drains overlap.
AtMostOnce == \A d \in Doc : acks[d] <= 1

\* A document counts as CLEARED or REPORTED when it was accepted, once.
AcceptedOnce == AcceptedFirst /\ AtMostOnce

\* docs/28, section 3: the previousHash of a document is the hash of the
\* tenant's last document, i.e. of the one with the number before it.
ChainIsUnbroken ==
    \A d \in Doc : docs[d] # None =>
        IF docs[d].counter = 1 THEN docs[d].prev = None
        ELSE docs[d].prev # None /\ docs[docs[d].prev] # None
             /\ docs[docs[d].prev].counter = docs[d].counter - 1

HasStatus(d, status) == docs[d] # None /\ docs[d].status = status

InQueue(d) == \E i \in DOMAIN queue : queue[i] = d

\* Under fairness of the drains: what is on the reporting list is reported in the end, as the
\* queue (a durable list, a window of 24 hours) and docs/28, section 6, say.
QueuedIsReported == \A d \in Doc : InQueue(d) ~> HasStatus(d, "REPORTED")
=============================================================================
