------------------------ MODULE ZatcaDocuments_proofs ------------------------
(***************************************************************************)
(* For any number of approvals and drains, and however they interleave,    *)
(* roll back or die: documents are numbered without a gap, the chain of    *)
(* hashes points backwards, and nothing is marked as accepted by the       *)
(* authority that it did not accept.                                       *)
(*                                                                         *)
(* The argument: whoever is between its increment and its commit holds the *)
(* row lock and has counted from the committed counter; whatever hash an   *)
(* approval has read, fresh or stale, is that of a committed document, and *)
(* committed documents keep their number and their hash.                   *)
(*                                                                         *)
(* A document that may still be sent is in one place, so it is accepted at *)
(* most once. While approvals do not overlap, the hash one has read is     *)
(* that of the last document there is.                                     *)
(***************************************************************************)
EXTENDS MCZatcaDocuments, FiniteSetTheorems, TLAPS

Committed(d) == docs[d] # None

\* The tip of the chain is a committed document.
TipIsCommitted == lastHash # None => Committed(lastHash)

\* What an approval has read, and what it has committed, at each of its steps.
ApprovalOK(a) ==
    /\ app[a].step \in {"idle", "read", "locked"} => \A i \in {1, 2} : ~ Committed(<<a, i>>)
    /\ app[a].step \in {"read", "locked", "route", "stamp"} => app[a].kind \in Kinds
    /\ app[a].step \in {"read", "locked"} => (app[a].prev # None => Committed(app[a].prev))
    /\ app[a].step = "locked" => lock = a /\ app[a].base = counter
    /\ app[a].step \in {"route", "stamp"} =>
           app[a].next \in 1..Len(app[a].kind) /\ \A i \in 1..Len(app[a].kind) : Committed(<<a, i>>)
    /\ app[a].step = "stamp" /\ app[a].answer = "accepted" => acks[<<a, app[a].next>>] > 0

ApprovalsOK == \A a \in Approvals : ApprovalOK(a)

QueueOK == \A i \in 1..Len(queue) : Committed(queue[i])

WorkersOK ==
    \A w \in Workers :
        /\ worker[w].step \in {"report", "mark"} => worker[w].doc \in Doc /\ Committed(worker[w].doc)
        /\ worker[w].step = "mark" => acks[worker[w].doc] > 0
        /\ worker[w].step # "idle" => worker[w].left \in 0..DrainLimit

IInv ==
    /\ TypeOK
    /\ NumbersAreGapless
    /\ PreviousIsOlder
    /\ TipIsCommitted
    /\ ApprovalsOK
    /\ QueueOK
    /\ WorkersOK
    /\ AcceptedFirst

\* What an approval issues is one document, or two.
LEMMA KindLemma ==
    ASSUME NEW kind \in Kinds
    PROVE  Len(kind) \in {1, 2} /\ \A i \in 1..Len(kind) : kind[i] \in Subtypes
BY KindsAssumption DEF Subtypes

LEMMA DocLemma ==
    /\ \A a \in Approvals, i \in {1, 2} : <<a, i>> \in Doc
    /\ \A d \in Doc : d[1] \in Approvals /\ d[2] \in {1, 2} /\ d = <<d[1], d[2]>>
BY DEF Doc

\* A committed document is a row.
LEMMA CommittedIsRow ==
    ASSUME TypeOK, NEW d \in Doc, Committed(d)
    PROVE  docs[d] \in Rows /\ docs[d].counter \in Nat /\ docs[d].prev \in Doc \union {None}
BY NoneAssumption DEF TypeOK, Committed, Rows

\* The facts about numbers and hashes do not depend on the status of a document.
LEMMA StatusKeepsChain ==
    ASSUME IInv, NEW d \in Doc, Committed(d), NEW status \in Status,
           WithStatus(d, status), UNCHANGED <<counter, lastHash>>
    PROVE  /\ docs' \in [Doc -> Rows \union {None}]
           /\ docs'[d] = [docs[d] EXCEPT !.status = status]
           /\ \A e \in Doc : e # d => docs'[e] = docs[e]
           /\ \A e \in Doc : Committed(e)' <=> Committed(e)
           /\ NumbersAreGapless' /\ PreviousIsOlder' /\ TipIsCommitted'
<1> USE DEF IInv
<1>1. docs[d] \in Rows BY CommittedIsRow
<1>2. Row(docs[d].counter, docs[d].prev, docs[d].subtype, status) \in Rows BY <1>1 DEF Row, Rows
<1>3. docs' \in [Doc -> Rows \union {None}] BY <1>2 DEF WithStatus, TypeOK
<1>4. \A e \in Doc : e # d => docs'[e] = docs[e] BY DEF WithStatus, TypeOK
<1>5. docs'[d] = Row(docs[d].counter, docs[d].prev, docs[d].subtype, status) BY DEF WithStatus, TypeOK
<1>6. docs'[d] = [docs[d] EXCEPT !.status = status] BY <1>1, <1>5 DEF Row, Rows
<1>7. docs'[d] # None BY <1>2, <1>5, NoneAssumption
<1>8. \A e \in Doc : docs'[e] # None <=> docs[e] # None BY <1>4, <1>7 DEF Committed
<1>9. \A e \in Doc : Committed(e) => docs'[e].counter = docs[e].counter /\ docs'[e].prev = docs[e].prev
  BY <1>4, <1>5 DEF Row
<1>10. NumbersAreGapless' BY <1>8, <1>9 DEF NumbersAreGapless, Committed
<1>11. PreviousIsOlder'
  <2> SUFFICES ASSUME NEW e \in Doc, docs'[e] # None, docs'[e].prev # None
               PROVE  docs'[docs'[e].prev] # None /\ docs'[docs'[e].prev].counter < docs'[e].counter
    BY DEF PreviousIsOlder
  <2>1. Committed(e) /\ docs'[e].prev = docs[e].prev /\ docs'[e].counter = docs[e].counter
    BY <1>8, <1>9 DEF Committed
  <2>2. docs[e].prev \in Doc BY <2>1, CommittedIsRow
  <2>3. Committed(docs[e].prev) /\ docs[docs[e].prev].counter < docs[e].counter
    BY <2>1 DEF PreviousIsOlder, Committed
  <2> QED BY <2>1, <2>2, <2>3, <1>8, <1>9 DEF Committed
<1>12. TipIsCommitted' BY <1>8 DEF TipIsCommitted, Committed, TypeOK
<1> QED BY <1>3, <1>4, <1>6, <1>8, <1>10, <1>11, <1>12 DEF Committed

LEMMA InitKeeps == Init => IInv
<1> SUFFICES ASSUME Init PROVE IInv OBVIOUS
<1> USE DEF Init, Idle, Local, Resting, Run
<1>1. TypeOK BY FaultsAssumption, LimitAssumption DEF TypeOK, Locals, Drains
<1>2. ApprovalsOK BY DocLemma DEF ApprovalsOK, ApprovalOK, Committed
<1> QED BY <1>1, <1>2 DEF IInv, NumbersAreGapless, PreviousIsOlder, TipIsCommitted, QueueOK,
                         WorkersOK, AcceptedFirst

-----------------------------------------------------------------------------
(* createInTx *)

LEMMA ReadConfigKeeps ==
    ASSUME IInv, NEW a \in Approvals, NEW kind \in Kinds, ReadConfig(a, kind)
    PROVE  IInv'
<1> USE DEF IInv, ReadConfig, At
<1>1. TypeOK' BY DEF TypeOK, Local, Locals
<1>2. ApprovalsOK'
  <2> SUFFICES ASSUME NEW b \in Approvals PROVE ApprovalOK(b)' BY DEF ApprovalsOK
  <2>1. CASE b = a
    BY <2>1 DEF TypeOK, ApprovalsOK, ApprovalOK, Local, TipIsCommitted, Committed
  <2>2. CASE b # a BY <2>2 DEF TypeOK, ApprovalsOK, ApprovalOK, Committed
  <2> QED BY <2>1, <2>2
<1> QED BY <1>1, <1>2 DEF NumbersAreGapless, PreviousIsOlder, TipIsCommitted, QueueOK,
                         WorkersOK, AcceptedFirst, Committed

LEMMA BumpCounterKeeps ==
    ASSUME IInv, NEW a \in Approvals, BumpCounter(a)
    PROVE  IInv'
<1> USE DEF IInv, BumpCounter, At
<1>1. TypeOK' BY DEF TypeOK, Local, Locals
<1>2. ApprovalsOK'
  <2> SUFFICES ASSUME NEW b \in Approvals PROVE ApprovalOK(b)' BY DEF ApprovalsOK
  <2>1. CASE b = a BY <2>1 DEF TypeOK, ApprovalsOK, ApprovalOK, Local, Committed
  <2>2. CASE b # a BY <2>2, NoneAssumption DEF TypeOK, ApprovalsOK, ApprovalOK, Committed
  <2> QED BY <2>1, <2>2
<1> QED BY <1>1, <1>2 DEF NumbersAreGapless, PreviousIsOlder, TipIsCommitted, QueueOK,
                         WorkersOK, AcceptedFirst, Committed

LEMMA CommitKeeps ==
    ASSUME IInv, NEW a \in Approvals, Commit(a)
    PROVE  IInv'
<1> DEFINE l == app[a]
           n == Len(l.kind)
           Mine(d) == d[1] = a /\ d[2] <= n
<1> USE DEF IInv
<1>1. /\ l.kind \in Kinds /\ l.base = counter /\ lock = a
      /\ l.prev # None => Committed(l.prev)
      /\ ~ Committed(<<a, 1>>) /\ ~ Committed(<<a, 2>>)
  BY DEF Commit, At, ApprovalsOK, ApprovalOK
<1>2. /\ n \in {1, 2}
      /\ \A i \in 1..n : l.kind[i] \in Subtypes
      /\ counter \in Nat
      /\ l.prev \in Doc \union {None}
  BY <1>1, KindLemma DEF TypeOK, Locals
<1>3. \A i \in 1..n : /\ Issued(a, i) \in Rows
                      /\ Issued(a, i) # None
                      /\ Issued(a, i).counter = counter + i
                      /\ Issued(a, i).prev = (IF i = 1 THEN l.prev ELSE <<a, i - 1>>)
                      /\ Issued(a, i).status = "PENDING"
  <2> SUFFICES ASSUME NEW i \in 1..n
               PROVE  /\ Issued(a, i) \in Rows
                      /\ Issued(a, i) # None
                      /\ Issued(a, i).counter = counter + i
                      /\ Issued(a, i).prev = (IF i = 1 THEN l.prev ELSE <<a, i - 1>>)
                      /\ Issued(a, i).status = "PENDING"
    OBVIOUS
  <2>1. i \in {1, 2} /\ (i = 1 \/ i - 1 = 1) BY <1>2
  <2>2. <<a, 1>> \in Doc BY DocLemma
  <2>3. Issued(a, i) \in Rows BY <1>1, <1>2, <2>1, <2>2 DEF Issued, Row, Rows, Status
  <2> QED BY <2>3, <1>1, NoneAssumption DEF Issued, Row
<1>4. \A d \in Doc : Mine(d) <=> d = <<a, 1>> \/ (n = 2 /\ d = <<a, 2>>)
  BY <1>2, DocLemma, SMTT(60)
<1>5. docs' = [d \in Doc |-> IF Mine(d) THEN Issued(a, d[2]) ELSE docs[d]] BY DEF Commit
<1>6. docs'[<<a, 1>>] = Issued(a, 1) /\ (n = 2 => docs'[<<a, 2>>] = Issued(a, 2))
  BY <1>2, <1>4, <1>5, DocLemma
<1>7. \A d \in Doc : Committed(d) => ~ Mine(d) /\ docs'[d] = docs[d]
  BY <1>1, <1>4, <1>5
<1>8. \A d \in Doc : ~ Mine(d) => docs'[d] = docs[d] BY <1>5
<1>9. /\ counter' = counter + n /\ lastHash' = <<a, n>> /\ lock' = None
      /\ app' = [app EXCEPT ![a] = Local("route", l.kind, None, 0, 1, None)]
      /\ UNCHANGED <<queue, worker, acks, faults>>
  BY <1>1 DEF Commit
<1> HIDE DEF l, n
<1>10. \A d \in Doc : Committed(d) => Committed(d)' BY <1>7 DEF Committed
<1>11. \A i \in 1..n : Committed(<<a, i>>)'
  <2> SUFFICES ASSUME NEW i \in 1..n PROVE docs'[<<a, i>>] # None BY DEF Committed
  <2>1. i = 1 \/ (n = 2 /\ i = 2) BY <1>2
  <2>2. docs'[<<a, i>>] = Issued(a, i) BY <1>6, <2>1
  <2> QED BY <1>3, <2>2
<1> HIDE DEF Mine
<1>first. /\ docs'[<<a, 1>>].counter = counter + 1 /\ docs'[<<a, 1>>].prev = l.prev
          /\ docs'[<<a, 1>>].status = "PENDING"
  <2>1. 1 \in 1..n BY <1>2
  <2> QED BY <1>3, <1>6, <2>1
<1>second. n = 2 => /\ docs'[<<a, 2>>].counter = counter + 2 /\ docs'[<<a, 2>>].prev = <<a, 1>>
                    /\ docs'[<<a, 2>>].status = "PENDING"
  <2> SUFFICES ASSUME n = 2 PROVE /\ docs'[<<a, 2>>].counter = counter + 2
                                  /\ docs'[<<a, 2>>].prev = <<a, 1>>
                                  /\ docs'[<<a, 2>>].status = "PENDING"
    OBVIOUS
  <2>1. 2 \in 1..n /\ 2 # 1 /\ 2 - 1 = 1 OBVIOUS
  <2> QED BY <1>3, <1>6, <2>1
<1>12. TypeOK'
  <2>1. \A d \in Doc : Mine(d) => d[2] \in 1..n BY <1>2, <1>4
  <2>2. docs' \in [Doc -> Rows \union {None}] BY <1>3, <1>5, <2>1 DEF TypeOK
  <2>3. <<a, n>> \in Doc BY <1>2, DocLemma
  <2> QED BY <1>1, <1>2, <1>9, <2>2, <2>3 DEF TypeOK, Local, Locals
<1>13. NumbersAreGapless'
  <2>1. \A d \in Doc : Committed(d)' => \/ Committed(d) /\ docs'[d] = docs[d]
                                        \/ d = <<a, 1>> /\ docs'[d].counter = counter + 1
                                        \/ n = 2 /\ d = <<a, 2>> /\ docs'[d].counter = counter + 2
    BY <1>4, <1>8, <1>first, <1>second DEF Committed
  <2>2. \A d \in Doc : Committed(d) => docs[d].counter \in 1..counter
    BY DEF NumbersAreGapless, Committed
  <2>3. \A d \in Doc : Committed(d)' => docs'[d].counter \in 1..counter'
    BY <1>2, <1>9, <2>1, <2>2
  <2>4. ASSUME NEW d \in Doc, NEW e \in Doc, Committed(d)', Committed(e)',
               docs'[d].counter = docs'[e].counter
        PROVE  d = e
    <3>1. CASE Committed(d) /\ Committed(e)
      BY <3>1, <2>4, <1>7 DEF NumbersAreGapless, Committed
    <3>2. CASE ~ (Committed(d) /\ Committed(e))
      BY <3>2, <2>1, <2>2, <2>4, <1>2
    <3> QED BY <3>1, <3>2
  <2>5. ASSUME NEW k \in 1..counter'
        PROVE  \E d \in Doc : Committed(d)' /\ docs'[d].counter = k
    <3>1. CASE k \in 1..counter
      <4>1. PICK d \in Doc : Committed(d) /\ docs[d].counter = k
        BY <3>1 DEF NumbersAreGapless, Committed
      <4> QED BY <4>1, <1>7, <1>10
    <3>2. CASE k = counter + 1
      <4>1. 1 \in 1..n BY <1>2
      <4>2. Committed(<<a, 1>>)' BY <4>1, <1>11
      <4>3. <<a, 1>> \in Doc BY DocLemma
      <4> QED BY <3>2, <4>2, <4>3, <1>first
    <3>3. CASE k = counter + 2 /\ n = 2
      BY <3>3, <1>2, <1>second, <1>11, DocLemma
    <3> QED BY <2>5, <3>1, <3>2, <3>3, <1>2, <1>9
  <2> QED BY <2>3, <2>4, <2>5 DEF NumbersAreGapless, Committed
<1>14. PreviousIsOlder'
  <2> SUFFICES ASSUME NEW d \in Doc, Committed(d)', docs'[d].prev # None
               PROVE  docs'[docs'[d].prev] # None /\ docs'[docs'[d].prev].counter < docs'[d].counter
    BY DEF PreviousIsOlder, Committed
  <2>1. CASE Committed(d)
    <3>1. docs'[d] = docs[d] /\ docs[d].prev \in Doc BY <2>1, <1>7, CommittedIsRow
    <3>2. Committed(docs[d].prev) /\ docs[docs[d].prev].counter < docs[d].counter
      BY <2>1, <3>1 DEF PreviousIsOlder, Committed
    <3> QED BY <3>1, <3>2, <1>7 DEF Committed
  <2>2. CASE d = <<a, 1>>
    <3>1. docs'[d].prev = l.prev /\ l.prev \in Doc /\ docs'[d].counter = counter + 1
      BY <2>2, <1>2, <1>first
    <3>2. Committed(l.prev) /\ docs[l.prev].counter \in 1..counter
      BY <3>1, <1>1 DEF NumbersAreGapless, Committed
    <3> QED BY <3>1, <3>2, <1>2, <1>7 DEF Committed
  <2>3. CASE n = 2 /\ d = <<a, 2>>
    <3>1. docs'[d].prev = <<a, 1>> /\ docs'[d].counter = counter + 2
      BY <2>3, <1>second
    <3>2. docs'[<<a, 1>>] # None BY <1>2, <1>11 DEF Committed
    <3> QED BY <3>1, <3>2, <1>2, <1>first
  <2>4. Committed(d) \/ Mine(d) BY <1>8 DEF Committed
  <2> QED BY <2>1, <2>2, <2>3, <2>4, <1>4 DEF Mine
<1>15. TipIsCommitted' BY <1>2, <1>9, <1>11 DEF TipIsCommitted
<1>16. ApprovalsOK'
  <2> SUFFICES ASSUME NEW b \in Approvals PROVE ApprovalOK(b)' BY DEF ApprovalsOK
  <2>1. CASE b = a
    <3>1. app'[a] = Local("route", l.kind, None, 0, 1, None) BY <1>9 DEF TypeOK
    <3>2. 1 \in 1..n BY <1>2
    <3>3. n = Len(l.kind) BY DEF n
    <3> QED BY <2>1, <1>1, <1>11, <3>1, <3>2, <3>3 DEF ApprovalOK, Local
  <2>2. CASE b # a
    <3>1. app'[b] = app[b] /\ app[b].prev \in Doc \union {None} BY <2>2, <1>9 DEF TypeOK, Locals
    <3>2. app[b].step # "locked" BY <2>2, <1>1 DEF ApprovalsOK, ApprovalOK
    <3>3. \A i \in {1, 2} : <<b, i>> \in Doc /\ docs'[<<b, i>>] = docs[<<b, i>>]
      BY <2>2, <1>4, <1>8, DocLemma
    <3>4. app[b].step \in {"route", "stamp"} => \A i \in 1..Len(app[b].kind) : Committed(<<b, i>>)'
      <4> SUFFICES ASSUME app[b].step \in {"route", "stamp"}, NEW i \in 1..Len(app[b].kind)
                   PROVE  Committed(<<b, i>>)'
        OBVIOUS
      <4>1. Committed(<<b, i>>) /\ app[b].kind \in Kinds BY DEF ApprovalsOK, ApprovalOK
      <4>2. i \in {1, 2} BY <4>1, KindLemma
      <4> QED BY <4>1, <4>2, <3>3 DEF Committed
    <3> QED BY <3>1, <3>2, <3>3, <3>4, <1>9, <1>10 DEF ApprovalsOK, ApprovalOK, Committed
  <2> QED BY <2>1, <2>2
<1>17. QueueOK' BY <1>9, <1>10 DEF QueueOK, TypeOK
<1>18. WorkersOK' BY <1>9, <1>10 DEF WorkersOK
<1>19. AcceptedFirst'
  BY <1>4, <1>8, <1>9, <1>first, <1>second DEF AcceptedFirst
<1> QED BY <1>12, <1>13, <1>14, <1>15, <1>16, <1>17, <1>18, <1>19

-----------------------------------------------------------------------------
(* Routing *)

\* The loop of approvePolicy stays within the documents that it committed.
LEMMA NextDocumentKeeps ==
    ASSUME IInv, NEW a \in Approvals, app[a].step \in {"route", "stamp"}, NextDocument(a),
           UNCHANGED <<counter, lock, acks>>, \A d \in Doc : Committed(d)' <=> Committed(d)
    PROVE  app' \in [Approvals -> Locals] /\ ApprovalsOK'
<1> USE DEF IInv
<1>1. /\ app[a].kind \in Kinds /\ Len(app[a].kind) \in {1, 2}
      /\ app[a].next \in 1..Len(app[a].kind)
      /\ \A i \in 1..Len(app[a].kind) : Committed(<<a, i>>)
  BY KindLemma DEF ApprovalsOK, ApprovalOK
<1>2. app' \in [Approvals -> Locals]
  <2>1. Over \in Locals BY DEF Over, Local, Locals
  <2>2. CASE app[a].next < Len(app[a].kind)
    <3>1. app[a].next + 1 \in 0..2
      <4> DEFINE n == Len(app[a].kind)
                 x == app[a].next
      <4>1. n \in {1, 2} /\ x \in 1..n /\ x < n BY <1>1, <2>2
      <4> HIDE DEF n, x
      <4>2. x + 1 \in 0..2 BY <4>1
      <4> QED BY <4>2 DEF x
    <3>2. Local("route", app[a].kind, None, 0, app[a].next + 1, None) \in Locals
      BY <1>1, <3>1 DEF Local, Locals
    <3> QED BY <2>2, <3>2 DEF NextDocument, TypeOK
  <2>3. CASE ~ (app[a].next < Len(app[a].kind))
    BY <2>1, <2>3 DEF NextDocument, TypeOK
  <2> QED BY <2>2, <2>3
<1>3. ApprovalsOK'
  <2> SUFFICES ASSUME NEW b \in Approvals PROVE ApprovalOK(b)' BY DEF ApprovalsOK
  <2>1. CASE b # a
    <3>1. app'[b] = app[b] BY <2>1 DEF NextDocument, TypeOK
    <3>2. app[b].prev \in Doc \union {None} BY DEF TypeOK, Locals
    <3>3. \A i \in {1, 2} : Committed(<<b, i>>)' <=> Committed(<<b, i>>) BY DocLemma
    <3>4. app[b].kind \in Kinds => Len(app[b].kind) \in {1, 2} BY KindLemma
    <3>5. app[b].step \in {"route", "stamp"} => \A i \in 1..Len(app[b].kind) : Committed(<<b, i>>)'
      <4> SUFFICES ASSUME app[b].step \in {"route", "stamp"}, NEW i \in 1..Len(app[b].kind)
                   PROVE  Committed(<<b, i>>)'
        OBVIOUS
      <4>1. Committed(<<b, i>>) /\ app[b].kind \in Kinds BY DEF ApprovalsOK, ApprovalOK
      <4>2. i \in {1, 2} BY <4>1, KindLemma
      <4> QED BY <4>1, <4>2, <3>3
    <3>6. app[b].prev # None => (docs'[app[b].prev] # None <=> Committed(app[b].prev))
      BY <3>2 DEF Committed
    <3> QED BY <3>1, <3>3, <3>5, <3>6 DEF ApprovalsOK, ApprovalOK, Committed
  <2>2. CASE b = a
    <3>1. \A i \in 1..Len(app[a].kind) : Committed(<<a, i>>)'
      <4> SUFFICES ASSUME NEW i \in 1..Len(app[a].kind) PROVE Committed(<<a, i>>)' OBVIOUS
      <4>1. i \in {1, 2} /\ Committed(<<a, i>>) BY <1>1, KindLemma
      <4>2. <<a, i>> \in Doc BY <4>1, DocLemma
      <4> QED BY <4>1, <4>2
    <3>2. CASE app[a].next < Len(app[a].kind)
      <4>1. app'[a] = Local("route", app[a].kind, None, 0, app[a].next + 1, None)
        BY <3>2 DEF NextDocument, TypeOK
      <4> QED BY <2>2, <3>1, <3>2, <4>1, <1>1 DEF ApprovalOK, Local
    <3>3. CASE ~ (app[a].next < Len(app[a].kind))
      <4>1. app'[a] = Over BY <3>3 DEF NextDocument, TypeOK
      <4> QED BY <2>2, <4>1 DEF ApprovalOK, Over, Local
    <3> QED BY <3>2, <3>3
  <2> QED BY <2>1, <2>2
<1> QED BY <1>2, <1>3

LEMMA Routed ==
    ASSUME IInv, NEW a \in Approvals, app[a].step \in {"route", "stamp"}
    PROVE  /\ <<a, app[a].next>> \in Doc
           /\ Committed(<<a, app[a].next>>)
           /\ app[a].kind \in Kinds
           /\ app[a].next \in 1..2
<1>1. app[a].kind \in Kinds /\ app[a].next \in 1..Len(app[a].kind) /\ Committed(<<a, app[a].next>>)
  BY DEF IInv, ApprovalsOK, ApprovalOK
<1>2. app[a].next \in {1, 2} BY <1>1, KindLemma
<1>3. <<a, app[a].next>> \in Doc BY <1>2, DocLemma
<1>4. app[a].next \in 1..2 BY <1>2
<1> QED BY <1>1, <1>3, <1>4

LEMMA EnqueueKeeps ==
    ASSUME IInv, NEW a \in Approvals, Enqueue(a)
    PROVE  IInv'
<1> USE DEF IInv
<1> DEFINE d == <<a, app[a].next>>
<1>1. app[a].step = "route" /\ d \in Doc /\ Committed(d) BY Routed DEF Enqueue, At
<1>2. /\ NextDocument(a) /\ queue' = Append(queue, d)
      /\ UNCHANGED <<counter, lastHash, lock, docs, worker, acks, faults>>
  BY DEF Enqueue
<1>3. \A e \in Doc : Committed(e)' <=> Committed(e) BY <1>2 DEF Committed
<1>4. app' \in [Approvals -> Locals] /\ ApprovalsOK' BY <1>1, <1>2, <1>3, NextDocumentKeeps
<1> HIDE DEF d
<1>5. TypeOK' BY <1>1, <1>2, <1>4 DEF TypeOK
<1>6. QueueOK' BY <1>1, <1>2 DEF QueueOK, TypeOK, Committed
<1> QED BY <1>2, <1>4, <1>5, <1>6 DEF NumbersAreGapless, PreviousIsOlder, TipIsCommitted,
                                     WorkersOK, AcceptedFirst, Committed

\* An answer of the authority is never taken back.
LEMMA AcceptedLemma ==
    ASSUME TypeOK, NEW d \in Doc, NEW answer, Accepted(d, answer)
    PROVE  /\ acks' \in [Doc -> Nat]
           /\ \A e \in Doc : acks[e] > 0 => acks'[e] > 0
           /\ answer = "accepted" => acks'[d] > 0
BY DEF TypeOK, Accepted

LEMMA ClearKeeps ==
    ASSUME IInv, NEW a \in Approvals, NEW answer \in Answers, Clear(a, answer)
    PROVE  IInv'
<1> USE DEF IInv
<1> DEFINE d == <<a, app[a].next>>
<1>1. app[a].step = "route" BY DEF Clear, At
<1>2. d \in Doc /\ app[a].kind \in Kinds /\ app[a].next \in 1..2 BY <1>1, Routed
<1>3. /\ Accepted(d, answer)
      /\ app' = [app EXCEPT ![a] = Local("stamp", app[a].kind, None, 0, app[a].next, answer)]
      /\ UNCHANGED <<counter, lastHash, lock, docs, queue, worker, faults>>
  BY DEF Clear
<1>4. /\ acks' \in [Doc -> Nat]
      /\ \A e \in Doc : acks[e] > 0 => acks'[e] > 0
      /\ answer = "accepted" => acks'[d] > 0
  <2> HIDE DEF d
  <2> QED BY <1>2, <1>3, AcceptedLemma
<1>5. TypeOK' BY <1>2, <1>3, <1>4 DEF TypeOK, Locals, Local
<1>6. ApprovalsOK'
  <2> SUFFICES ASSUME NEW b \in Approvals PROVE ApprovalOK(b)' BY DEF ApprovalsOK
  <2>1. CASE b = a
    <3>1. app'[a] = Local("stamp", app[a].kind, None, 0, app[a].next, answer)
      BY <1>3 DEF TypeOK
    <3>2. /\ app'[a].step = "stamp" /\ app'[a].kind = app[a].kind
          /\ app'[a].next = app[a].next /\ app'[a].answer = answer
      BY <3>1 DEF Local
    <3>3. ApprovalOK(a) BY DEF ApprovalsOK
    <3> QED BY <2>1, <3>2, <3>3, <1>1, <1>3, <1>4 DEF ApprovalOK, Committed
  <2>2. CASE b # a
    <3>1. app'[b] = app[b] BY <2>2, <1>3 DEF TypeOK
    <3>2. app[b].step = "stamp" => <<b, app[b].next>> \in Doc BY Routed
    <3> QED BY <3>1, <3>2, <1>3, <1>4 DEF ApprovalsOK, ApprovalOK, Committed
  <2> QED BY <2>1, <2>2
<1>7. WorkersOK' BY <1>3, <1>4 DEF WorkersOK, Committed
<1>8. AcceptedFirst' BY <1>3, <1>4 DEF AcceptedFirst
<1> QED BY <1>3, <1>5, <1>6, <1>7, <1>8 DEF NumbersAreGapless, PreviousIsOlder, TipIsCommitted,
                                            QueueOK, Committed

LEMMA StampKeeps ==
    ASSUME IInv, NEW a \in Approvals, Stamp(a)
    PROVE  IInv'
<1> USE DEF IInv
<1> DEFINE d == <<a, app[a].next>>
           status == IF app[a].answer = "accepted" THEN "CLEARED" ELSE "FAILED"
<1>1. app[a].step = "stamp" BY DEF Stamp, At
<1>2. d \in Doc /\ Committed(d) /\ status \in Status BY <1>1, Routed DEF Status
<1>3. /\ WithStatus(d, status) /\ NextDocument(a)
      /\ UNCHANGED <<counter, lastHash, lock, queue, worker, acks, faults>>
  BY DEF Stamp
<1>4. status = "CLEARED" => acks[d] > 0 BY <1>1 DEF ApprovalsOK, ApprovalOK
<1>5. status # "REPORTED" OBVIOUS
<1> HIDE DEF d, status
<1>6. /\ docs' \in [Doc -> Rows \union {None}]
      /\ docs'[d] = [docs[d] EXCEPT !.status = status]
      /\ \A e \in Doc : e # d => docs'[e] = docs[e]
      /\ \A e \in Doc : Committed(e)' <=> Committed(e)
      /\ NumbersAreGapless' /\ PreviousIsOlder' /\ TipIsCommitted'
  BY <1>2, <1>3, StatusKeepsChain
<1>7. app' \in [Approvals -> Locals] /\ ApprovalsOK' BY <1>1, <1>3, <1>6, NextDocumentKeeps
<1>8. TypeOK' BY <1>3, <1>6, <1>7 DEF TypeOK
<1>9. AcceptedFirst'
  <2>1. docs[d] \in Rows BY <1>2, CommittedIsRow
  <2>2. docs'[d].status = status BY <2>1, <1>6 DEF Rows
  <2> QED BY <2>2, <1>3, <1>4, <1>5, <1>6 DEF AcceptedFirst, Committed
<1>10. QueueOK' BY <1>3, <1>6 DEF QueueOK, TypeOK
<1>11. WorkersOK' BY <1>3, <1>6 DEF WorkersOK
<1> QED BY <1>6, <1>7, <1>8, <1>9, <1>10, <1>11

LEMMA RouteFailsKeeps ==
    ASSUME IInv, NEW a \in Approvals, RouteFails(a)
    PROVE  IInv'
<1> USE DEF IInv
<1>1. /\ app[a].step \in {"route", "stamp"} /\ NextDocument(a)
      /\ faults' = faults + 1 /\ faults < MaxFaults
      /\ UNCHANGED <<counter, lastHash, lock, docs, queue, worker, acks>>
  BY DEF RouteFails, At
<1>2. \A e \in Doc : Committed(e)' <=> Committed(e) BY <1>1 DEF Committed
<1>3. app' \in [Approvals -> Locals] /\ ApprovalsOK' BY <1>1, <1>2, NextDocumentKeeps
<1>4. TypeOK' BY <1>1, <1>3, FaultsAssumption DEF TypeOK
<1> QED BY <1>1, <1>3, <1>4 DEF NumbersAreGapless, PreviousIsOlder, TipIsCommitted, QueueOK,
                                WorkersOK, AcceptedFirst, Committed

LEMMA AbortKeeps ==
    ASSUME IInv, NEW a \in Approvals, Abort(a)
    PROVE  IInv'
<1> USE DEF IInv
<1>1. /\ app' = [app EXCEPT ![a] = Over] /\ lock' = IF lock = a THEN None ELSE lock
      /\ faults' = faults + 1 /\ faults < MaxFaults
      /\ UNCHANGED <<counter, lastHash, docs, queue, worker, acks>>
  BY DEF Abort
<1>2. TypeOK' BY <1>1, FaultsAssumption DEF TypeOK, Over, Locals, Local
<1>3. ApprovalsOK'
  <2> SUFFICES ASSUME NEW b \in Approvals PROVE ApprovalOK(b)' BY DEF ApprovalsOK
  <2>1. CASE b = a
    <3>1. app'[a] = Over BY <1>1 DEF TypeOK
    <3> QED BY <2>1, <3>1 DEF ApprovalOK, Over, Local
  <2>2. CASE b # a
    <3>1. app'[b] = app[b] /\ (lock = b => lock' = b) BY <2>2, <1>1 DEF TypeOK
    <3> QED BY <3>1, <1>1 DEF ApprovalsOK, ApprovalOK, Committed
  <2> QED BY <2>1, <2>2
<1> QED BY <1>1, <1>2, <1>3 DEF NumbersAreGapless, PreviousIsOlder, TipIsCommitted, QueueOK,
                                WorkersOK, AcceptedFirst, Committed

-----------------------------------------------------------------------------
(* Draining *)

\* A drain disturbs neither the approvals nor the chain unless it marks a document.
LEMMA StartDrainKeeps ==
    ASSUME IInv, NEW w \in Workers, StartDrain(w)
    PROVE  IInv'
<1> USE DEF IInv, StartDrain
<1>1. TypeOK' BY LimitAssumption DEF TypeOK, Drains, Run
<1>2. WorkersOK' BY LimitAssumption DEF WorkersOK, TypeOK, Run, Committed
<1> QED BY <1>1, <1>2 DEF NumbersAreGapless, PreviousIsOlder, TipIsCommitted, QueueOK,
                         ApprovalsOK, ApprovalOK, AcceptedFirst, Committed

LEMMA PopKeeps ==
    ASSUME IInv, NEW w \in Workers, Pop(w)
    PROVE  IInv'
<1> USE DEF IInv
<1>1. worker[w].step = "pop" /\ worker[w].left \in 0..DrainLimit BY DEF Pop, WorkersOK
<1>2. UNCHANGED <<counter, lastHash, lock, docs, app, acks, faults>> BY DEF Pop
<1>3. CASE worker[w].left = 0 \/ queue = <<>>
  <2>1. worker' = [worker EXCEPT ![w] = Resting] /\ UNCHANGED queue BY <1>3 DEF Pop
  <2>2. TypeOK' BY <1>2, <2>1, LimitAssumption DEF TypeOK, Drains, Resting, Run
  <2>3. WorkersOK' BY <1>2, <2>1 DEF WorkersOK, TypeOK, Resting, Run, Committed
  <2> QED BY <1>2, <2>1, <2>2, <2>3 DEF NumbersAreGapless, PreviousIsOlder, TipIsCommitted,
                                   QueueOK, ApprovalsOK, ApprovalOK, AcceptedFirst, Committed
<1>4. CASE ~ (worker[w].left = 0 \/ queue = <<>>)
  <2>1. /\ worker' = [worker EXCEPT ![w] = Run("report", Head(queue), worker[w].left - 1)]
        /\ queue' = Tail(queue)
    BY <1>4 DEF Pop
  <2>2. Head(queue) \in Doc /\ Committed(Head(queue)) /\ Tail(queue) \in Seq(Doc)
    BY <1>4 DEF TypeOK, QueueOK
  <2>3. worker[w].left - 1 \in 0..DrainLimit BY <1>1, <1>4, LimitAssumption
  <2>4. TypeOK' BY <1>2, <2>1, <2>2, <2>3 DEF TypeOK, Drains, Run
  <2>5. WorkersOK' BY <1>2, <2>1, <2>2, <2>3 DEF WorkersOK, TypeOK, Run, Committed
  <2>6. QueueOK' BY <1>2, <1>4, <2>1 DEF QueueOK, TypeOK, Committed
  <2> QED BY <1>2, <2>1, <2>4, <2>5, <2>6 DEF NumbersAreGapless, PreviousIsOlder, TipIsCommitted,
                                   ApprovalsOK, ApprovalOK, AcceptedFirst, Committed
<1> QED BY <1>3, <1>4

LEMMA ReportKeeps ==
    ASSUME IInv, NEW w \in Workers, NEW answer \in Answers, Report(w, answer)
    PROVE  IInv'
<1> USE DEF IInv
<1> DEFINE d == worker[w].doc
           left == worker[w].left
           skip == docs[d].status = "REPORTED"
<1>1. /\ worker[w].step = "report" /\ left \in 0..DrainLimit
      /\ d \in Doc /\ Committed(d)
  BY DEF Report, WorkersOK
<1>2. /\ UNCHANGED <<counter, lastHash, lock, docs, app, queue, faults>>
      /\ IF skip THEN UNCHANGED acks ELSE Accepted(d, answer)
      /\ worker' = [worker EXCEPT ![w] = IF ~ skip /\ answer = "accepted"
                                         THEN Run("mark", d, left) ELSE Run("pop", None, left)]
  BY DEF Report
<1> HIDE DEF d, left, skip
<1>3. /\ acks' \in [Doc -> Nat]
      /\ \A e \in Doc : acks[e] > 0 => acks'[e] > 0
      /\ ~ skip /\ answer = "accepted" => acks'[d] > 0
  <2>1. CASE skip BY <1>2, <2>1 DEF TypeOK
  <2>2. CASE ~ skip BY <1>1, <1>2, <2>2, AcceptedLemma
  <2> QED BY <2>1, <2>2
<1>4. TypeOK' BY <1>1, <1>2, <1>3 DEF TypeOK, Drains, Run
<1>5. WorkersOK'
  <2> SUFFICES ASSUME NEW v \in Workers
               PROVE  (/\ worker[v].step \in {"report", "mark"} => worker[v].doc \in Doc /\ Committed(worker[v].doc)
                       /\ worker[v].step = "mark" => acks[worker[v].doc] > 0
                       /\ worker[v].step # "idle" => worker[v].left \in 0..DrainLimit)'
    BY DEF WorkersOK
  <2>1. CASE v # w
    <3>1. worker'[v] = worker[v] BY <2>1, <1>2 DEF TypeOK
    <3> QED BY <3>1, <1>2, <1>3 DEF WorkersOK, Committed
  <2>2. CASE v = w /\ ~ skip /\ answer = "accepted"
    <3>1. worker'[v] = Run("mark", d, left) BY <2>2, <1>2 DEF TypeOK
    <3> QED BY <2>2, <3>1, <1>1, <1>2, <1>3 DEF Run, Committed
  <2>3. CASE v = w /\ ~ (~ skip /\ answer = "accepted")
    <3>1. worker'[v] = Run("pop", None, left) BY <2>3, <1>2 DEF TypeOK
    <3> QED BY <3>1, <1>1 DEF Run
  <2> QED BY <2>1, <2>2, <2>3
<1>6. AcceptedFirst' BY <1>2, <1>3 DEF AcceptedFirst
<1>7. ApprovalsOK'
  <2> SUFFICES ASSUME NEW a \in Approvals PROVE ApprovalOK(a)' BY DEF ApprovalsOK
  <2>1. app[a].step = "stamp" => <<a, app[a].next>> \in Doc BY Routed
  <2> QED BY <2>1, <1>2, <1>3 DEF ApprovalsOK, ApprovalOK, Committed
<1> QED BY <1>2, <1>4, <1>5, <1>6, <1>7 DEF NumbersAreGapless, PreviousIsOlder, TipIsCommitted,
                                            QueueOK, Committed

LEMMA MarkReportedKeeps ==
    ASSUME IInv, NEW w \in Workers, MarkReported(w)
    PROVE  IInv'
<1> USE DEF IInv
<1> DEFINE d == worker[w].doc
           left == worker[w].left
<1>1. /\ d \in Doc /\ Committed(d) /\ acks[d] > 0 /\ left \in 0..DrainLimit
      /\ "REPORTED" \in Status
  BY DEF MarkReported, WorkersOK, Status
<1>2. /\ WithStatus(d, "REPORTED")
      /\ worker' = [worker EXCEPT ![w] = Run("pop", None, left)]
      /\ UNCHANGED <<counter, lastHash, lock, app, queue, acks, faults>>
  BY DEF MarkReported
<1> HIDE DEF d, left
<1>3. /\ docs' \in [Doc -> Rows \union {None}]
      /\ \A e \in Doc : e # d => docs'[e] = docs[e]
      /\ \A e \in Doc : Committed(e)' <=> Committed(e)
      /\ NumbersAreGapless' /\ PreviousIsOlder' /\ TipIsCommitted'
  BY <1>1, <1>2, StatusKeepsChain
<1>4. TypeOK' BY <1>1, <1>2, <1>3 DEF TypeOK, Drains, Run
<1>5. AcceptedFirst' BY <1>1, <1>2, <1>3 DEF AcceptedFirst, Committed
<1>6. QueueOK' BY <1>2, <1>3 DEF QueueOK, TypeOK
<1>7. WorkersOK' BY <1>1, <1>2, <1>3 DEF WorkersOK, TypeOK, Run
<1>8. ApprovalsOK'
  <2> SUFFICES ASSUME NEW a \in Approvals PROVE ApprovalOK(a)' BY DEF ApprovalsOK
  <2>1. app[a].prev \in Doc \union {None} BY DEF TypeOK, Locals
  <2>2. \A i \in {1, 2} : Committed(<<a, i>>)' <=> Committed(<<a, i>>) BY <1>3, DocLemma
  <2>3. app[a].step \in {"route", "stamp"} => \A i \in 1..Len(app[a].kind) : Committed(<<a, i>>)'
    <3> SUFFICES ASSUME app[a].step \in {"route", "stamp"}, NEW i \in 1..Len(app[a].kind)
                 PROVE  Committed(<<a, i>>)'
      OBVIOUS
    <3>1. Committed(<<a, i>>) /\ app[a].kind \in Kinds BY DEF ApprovalsOK, ApprovalOK
    <3>2. i \in {1, 2} BY <3>1, KindLemma
    <3> QED BY <3>1, <3>2, <2>2
  <2>4. app[a].prev # None => (docs'[app[a].prev] # None <=> Committed(app[a].prev))
    BY <2>1, <1>3 DEF Committed
  <2> QED BY <1>2, <2>2, <2>3, <2>4 DEF ApprovalsOK, ApprovalOK, Committed
<1> QED BY <1>3, <1>4, <1>5, <1>6, <1>7, <1>8

LEMMA DrainFailsKeeps ==
    ASSUME IInv, NEW w \in Workers, DrainFails(w)
    PROVE  IInv'
<1> USE DEF IInv, DrainFails
<1>1. TypeOK' BY FaultsAssumption, LimitAssumption DEF TypeOK, Drains, Resting, Run
<1>2. WorkersOK' BY DEF WorkersOK, TypeOK, Resting, Run, Committed
<1> QED BY <1>1, <1>2 DEF NumbersAreGapless, PreviousIsOlder, TipIsCommitted, QueueOK,
                         ApprovalsOK, ApprovalOK, AcceptedFirst, Committed

-----------------------------------------------------------------------------
LEMMA NextKeeps == IInv /\ [Next]_vars => IInv'
<1> SUFFICES ASSUME IInv, [Next]_vars PROVE IInv' OBVIOUS
<1>1. CASE UNCHANGED vars
  BY <1>1 DEF IInv, vars, TypeOK, NumbersAreGapless, PreviousIsOlder, TipIsCommitted, QueueOK,
              WorkersOK, ApprovalsOK, ApprovalOK, AcceptedFirst, Committed
<1>2. ASSUME NEW a \in Approvals, NEW kind \in Kinds, ReadConfig(a, kind) PROVE IInv'
  BY <1>2, ReadConfigKeeps
<1>3. ASSUME NEW a \in Approvals, Continue(a) PROVE IInv'
  BY <1>3, BumpCounterKeeps, CommitKeeps, EnqueueKeeps, StampKeeps, ClearKeeps DEF Continue
<1>4. ASSUME NEW a \in Approvals, RouteFails(a) \/ Abort(a) PROVE IInv'
  BY <1>4, RouteFailsKeeps, AbortKeeps
<1>5. ASSUME NEW w \in Workers, Drain(w) PROVE IInv'
  BY <1>5, StartDrainKeeps, PopKeeps, ReportKeeps, MarkReportedKeeps DEF Drain
<1>6. ASSUME NEW w \in Workers, DrainFails(w) PROVE IInv'
  BY <1>6, DrainFailsKeeps
<1> QED BY <1>1, <1>2, <1>3, <1>4, <1>5, <1>6 DEF Next

\* The invariant holds of every behaviour: nobody between increment and commit
\* is overtaken, and every hash that has been read is that of a committed row.
THEOREM DocumentsSafe == Spec => []IInv
<1>1. Init => IInv BY InitKeeps
<1>2. IInv /\ [Next]_vars => IInv' BY NextKeeps
<1> QED BY <1>1, <1>2, PTL DEF Spec

\* The documents of a tenant are numbered 1, 2, 3 ... by createInTx, whatever
\* number of approvals run, roll back or die.
THEOREM NumbersAlwaysGapless == Spec => []NumbersAreGapless
<1>1. IInv => NumbersAreGapless BY DEF IInv
<1> QED BY <1>1, DocumentsSafe, PTL

\* previousHash always leads to an older committed document: the chain has no
\* cycle and no dangling end, although it may fork.
THEOREM PreviousAlwaysOlder == Spec => []PreviousIsOlder
<1>1. IInv => PreviousIsOlder BY DEF IInv
<1> QED BY <1>1, DocumentsSafe, PTL

\* Router and drain mark a document only after the authority has accepted it.
THEOREM MarkedIsAccepted == Spec => []AcceptedFirst
<1>1. IInv => AcceptedFirst BY DEF IInv
<1> QED BY <1>1, DocumentsSafe, PTL
-----------------------------------------------------------------------------
(* The authority accepts a document at most once.                           *)
(*                                                                          *)
(* A document that may still be sent is in one place: with the loop of its  *)
(* approval, at one position of the reporting list, or with one drain. Each *)
(* move takes it from where it was, so no two of them send it.              *)

\* The loop of approvePolicy has yet to route d.
ToRoute(d) ==
    \/ app[d[1]].step \in {"idle", "read", "locked"}
    \/ app[d[1]].step = "route" /\ app[d[1]].next <= d[2]
    \/ app[d[1]].step = "stamp" /\ app[d[1]].next < d[2]

Listed(d) == \E i \in 1..Len(queue) : queue[i] = d

Reports(w, d) == worker[w].step = "report" /\ worker[w].doc = d

Drained(d) == \E w \in Workers : Reports(w, d)

Unsent(d) ==
    /\ acks[d] <= 1
    /\ ToRoute(d) => acks[d] = 0 /\ ~ Listed(d) /\ ~ Drained(d)
    /\ Listed(d) => acks[d] = 0 /\ ~ Drained(d)
    /\ Drained(d) => acks[d] = 0

OneSender ==
    /\ \A d \in Doc : Unsent(d)
    /\ \A i, j \in 1..Len(queue) : queue[i] = queue[j] => i = j
    /\ \A d \in Doc : \A v, w \in Workers : Reports(v, d) /\ Reports(w, d) => v = w

\* Steps that hand no document on: whoever was to send one may have stopped.
LEMMA NothingHandedOn ==
    ASSUME OneSender, UNCHANGED <<acks, queue>>,
           \A d \in Doc : ToRoute(d)' => ToRoute(d),
           \A d \in Doc, w \in Workers : Reports(w, d)' => Reports(w, d)
    PROVE  OneSender'
<1>1. \A d \in Doc : (Listed(d)' <=> Listed(d)) /\ (Drained(d)' => Drained(d))
  BY DEF Listed, Drained
<1>2. \A d \in Doc : Unsent(d)' BY <1>1 DEF OneSender, Unsent
<1> QED BY <1>2 DEF OneSender

\* Approvals that move on, or stop, have fewer documents to route.
LEMMA ApprovalMoves ==
    ASSUME IInv, OneSender, NEW a \in Approvals, NEW local,
           app' = [app EXCEPT ![a] = local], UNCHANGED <<acks, queue, worker>>,
           \A i \in {1, 2} : ToRoute(<<a, i>>)' => ToRoute(<<a, i>>)
    PROVE  OneSender'
<1>1. ASSUME NEW d \in Doc PROVE ToRoute(d)' => ToRoute(d)
  <2>1. d[1] \in Approvals /\ d[2] \in {1, 2} /\ d = <<d[1], d[2]>> BY DocLemma
  <2>2. CASE d[1] = a BY <2>1, <2>2
  <2>3. CASE d[1] # a
    <3>1. app'[d[1]] = app[d[1]] BY <2>1, <2>3 DEF IInv, TypeOK
    <3> QED BY <3>1 DEF ToRoute
  <2> QED BY <2>2, <2>3
<1> QED BY <1>1, NothingHandedOn DEF Reports

\* The loop has routed the document it leaves behind.
LEMMA NextDocumentPasses ==
    ASSUME IInv, NEW a \in Approvals, app[a].step \in {"route", "stamp"}, NextDocument(a)
    PROVE  /\ \E local : app' = [app EXCEPT ![a] = local]
           /\ \A d \in Doc : ToRoute(d)' => ToRoute(d)
           /\ \A i \in {1, 2} : ToRoute(<<a, i>>)' => i > app[a].next
<1> DEFINE next == app[a].next
           l == IF next < Len(app[a].kind) THEN Local("route", app[a].kind, None, 0, next + 1, None)
                ELSE Over
<1>1. app' = [app EXCEPT ![a] = l] BY DEF NextDocument
<1>2. app'[a] = l /\ \A b \in Approvals : b # a => app'[b] = app[b] BY <1>1 DEF IInv, TypeOK
<1>3. next \in 1..2 BY Routed
<1>4. l.step = "done" \/ (l.step = "route" /\ l.next = next + 1) BY DEF Over, Local
<1> HIDE DEF l, next
<1>5. \A i \in {1, 2} : ToRoute(<<a, i>>)' => i > next
  BY <1>2, <1>3, <1>4 DEF ToRoute
<1>6. \A i \in {1, 2} : i > next => ToRoute(<<a, i>>)
  BY <1>3 DEF ToRoute, next
<1>7. ASSUME NEW d \in Doc PROVE ToRoute(d)' => ToRoute(d)
  <2>1. d[1] \in Approvals /\ d[2] \in {1, 2} /\ d = <<d[1], d[2]>> BY DocLemma
  <2>2. CASE d[1] = a BY <2>1, <2>2, <1>5, <1>6
  <2>3. CASE d[1] # a BY <2>1, <2>3, <1>2 DEF ToRoute
  <2> QED BY <2>2, <2>3
<1> QED BY <1>1, <1>5, <1>7 DEF next

LEMMA ApprovalSendsOnce ==
    ASSUME IInv, OneSender, NEW a \in Approvals, NEW kind,
           \/ ReadConfig(a, kind) \/ BumpCounter(a) \/ Commit(a)
           \/ Stamp(a) \/ RouteFails(a) \/ Abort(a)
    PROVE  OneSender'
<1>1. CASE ReadConfig(a, kind)
  BY <1>1, ApprovalMoves DEF ReadConfig, At, ToRoute
<1>2. CASE BumpCounter(a)
  BY <1>2, ApprovalMoves DEF BumpCounter, At, ToRoute
<1>3. CASE Commit(a)
  BY <1>3, ApprovalMoves DEF Commit, At, ToRoute
<1>4. CASE Stamp(a) \/ RouteFails(a)
  <2>1. app[a].step \in {"route", "stamp"} /\ NextDocument(a) /\ UNCHANGED <<acks, queue, worker>>
    BY <1>4 DEF Stamp, RouteFails, At
  <2> QED BY <2>1, NextDocumentPasses, NothingHandedOn DEF Reports
<1>5. CASE Abort(a)
  <2>1. app' = [app EXCEPT ![a] = Over] /\ UNCHANGED <<acks, queue, worker>> BY <1>5 DEF Abort
  <2>2. app'[a].step = "done" BY <2>1 DEF Over, Local, IInv, TypeOK
  <2>3. \A i \in {1, 2} : ~ ToRoute(<<a, i>>)' BY <2>2 DEF ToRoute
  <2> QED BY <2>1, <2>3, ApprovalMoves
<1> QED BY <1>1, <1>2, <1>3, <1>4, <1>5

\* The loop puts its next document at the end of the list and goes on.
LEMMA EnqueueSendsOnce ==
    ASSUME IInv, OneSender, NEW a \in Approvals, Enqueue(a)
    PROVE  OneSender'
<1>1. PICK d \in Doc : d = <<a, app[a].next>>
  BY Routed DEF Enqueue, At
<1>2. /\ app[a].step = "route" /\ app[a].next \in {1, 2}
      /\ queue' = Append(queue, d) /\ NextDocument(a) /\ UNCHANGED <<acks, worker>>
  BY <1>1, Routed DEF Enqueue, At
<1>3. /\ \A e \in Doc : ToRoute(e)' => ToRoute(e)
      /\ \A i \in {1, 2} : ToRoute(<<a, i>>)' => i > app[a].next
  BY <1>2, NextDocumentPasses
<1>4. ToRoute(d) BY <1>1, <1>2 DEF ToRoute
<1>5. ~ ToRoute(d)'
  <2>1. PICK i \in {1, 2} : i = app[a].next BY <1>2
  <2>2. ~ ToRoute(<<a, i>>)' BY <1>3, <2>1
  <2> QED BY <1>1, <2>1, <2>2
<1>6. queue \in Seq(Doc) BY DEF IInv, TypeOK
<1>7. /\ Len(queue') = Len(queue) + 1 /\ Len(queue) \in Nat
      /\ queue'[Len(queue) + 1] = d
      /\ \A i \in 1..Len(queue) : queue'[i] = queue[i]
      /\ \A i \in 1..Len(queue') : i \in 1..Len(queue) \/ i = Len(queue) + 1
  BY <1>2, <1>6
<1>8. acks[d] = 0 /\ ~ Drained(d) /\ \A i \in 1..Len(queue) : queue[i] # d
  BY <1>4 DEF OneSender, Unsent, Listed
<1>9. \A e \in Doc : Listed(e)' => e = d \/ Listed(e) BY <1>7 DEF Listed
<1>10. \A e \in Doc : Drained(e)' <=> Drained(e) BY <1>2 DEF Drained, Reports
<1>11. \A e \in Doc : Unsent(e)' BY <1>2, <1>3, <1>5, <1>8, <1>9, <1>10 DEF OneSender, Unsent
<1>12. \A i, j \in 1..Len(queue') : queue'[i] = queue'[j] => i = j
  BY <1>7, <1>8 DEF OneSender
<1> QED BY <1>2, <1>11, <1>12 DEF OneSender, Reports

\* An answer counts for the document it is about, once.
LEMMA AcceptedCounts ==
    ASSUME TypeOK, NEW d \in Doc, NEW answer, acks[d] = 0, Accepted(d, answer)
    PROVE  /\ acks'[d] <= 1
           /\ \A e \in Doc : e # d => acks'[e] = acks[e]
BY DEF TypeOK, Accepted

\* An invoice that is cleared at once is in nobody else's hands.
LEMMA ClearSendsOnce ==
    ASSUME IInv, OneSender, NEW a \in Approvals, NEW answer \in Answers, Clear(a, answer)
    PROVE  OneSender'
<1>1. PICK d \in Doc : d = <<a, app[a].next>>
  BY Routed DEF Clear, At
<1>2. /\ app[a].step = "route" /\ app[a].next \in {1, 2}
      /\ Accepted(d, answer) /\ UNCHANGED <<queue, worker>>
      /\ app' = [app EXCEPT ![a] = Local("stamp", app[a].kind, None, 0, app[a].next, answer)]
  BY <1>1, Routed DEF Clear, At
<1>3. app'[a].step = "stamp" /\ app'[a].next = app[a].next
  BY <1>2 DEF Local, IInv, TypeOK
<1>4. ToRoute(d) BY <1>1, <1>2 DEF ToRoute
<1>5. ~ ToRoute(d)' BY <1>1, <1>2, <1>3 DEF ToRoute
<1>6. ASSUME NEW e \in Doc PROVE ToRoute(e)' => ToRoute(e)
  <2>1. e[1] \in Approvals /\ e[2] \in {1, 2} /\ e = <<e[1], e[2]>> BY DocLemma
  <2>2. CASE e[1] = a BY <2>1, <2>2, <1>2, <1>3 DEF ToRoute
  <2>3. CASE e[1] # a
    <3>1. app'[e[1]] = app[e[1]] BY <2>1, <2>3, <1>2 DEF IInv, TypeOK
    <3> QED BY <3>1 DEF ToRoute
  <2> QED BY <2>2, <2>3
<1>7. acks[d] = 0 /\ ~ Listed(d) /\ ~ Drained(d) BY <1>4 DEF OneSender, Unsent
<1>8. acks'[d] <= 1 /\ \A e \in Doc : e # d => acks'[e] = acks[e]
  BY <1>2, <1>7, AcceptedCounts DEF IInv
<1>9. \A e \in Doc : (Listed(e)' <=> Listed(e)) /\ (Drained(e)' <=> Drained(e))
  BY <1>2 DEF Listed, Drained, Reports
<1>10. \A e \in Doc : Unsent(e)' BY <1>5, <1>6, <1>7, <1>8, <1>9 DEF OneSender, Unsent
<1> QED BY <1>2, <1>10 DEF OneSender, Reports

\* A drain takes the document off the list before it sends it.
LEMMA PopSendsOnce ==
    ASSUME IInv, OneSender, NEW w \in Workers, Pop(w)
    PROVE  OneSender'
<1>1. UNCHANGED <<acks, app>> BY DEF Pop
<1>2. \A e \in Doc : ToRoute(e)' <=> ToRoute(e) BY <1>1 DEF ToRoute
<1>3. CASE worker[w].left = 0 \/ queue = <<>>
  <2>1. worker' = [worker EXCEPT ![w] = Resting] /\ UNCHANGED queue BY <1>3 DEF Pop
  <2>2. \A d \in Doc, v \in Workers : Reports(v, d)' => Reports(v, d)
    BY <2>1 DEF Reports, Resting, Run, IInv, TypeOK
  <2> QED BY <1>1, <1>2, <2>1, <2>2, NothingHandedOn
<1>4. CASE ~ (worker[w].left = 0 \/ queue = <<>>)
  <2>1. PICK d \in Doc : d = Head(queue) BY <1>4 DEF IInv, TypeOK
  <2>2. /\ worker' = [worker EXCEPT ![w] = Run("report", d, worker[w].left - 1)]
        /\ queue' = Tail(queue)
    BY <1>4, <2>1 DEF Pop
  <2>3. /\ d = queue[1] /\ 1 \in 1..Len(queue)
        /\ \A i \in 1..Len(queue') : queue'[i] = queue[i + 1] /\ i + 1 \in 1..Len(queue) /\ i + 1 # 1
    BY <1>4, <2>1, <2>2 DEF IInv, TypeOK
  <2>4. worker'[w].step = "report" /\ worker'[w].doc = d BY <2>2 DEF Run, IInv, TypeOK
  <2>5. \A v \in Workers : v # w => worker'[v] = worker[v] BY <2>2 DEF IInv, TypeOK
  <2>6. Listed(d) BY <2>3 DEF Listed
  <2>7. acks[d] = 0 /\ ~ ToRoute(d) /\ ~ Drained(d) BY <2>6 DEF OneSender, Unsent
  <2>8. ~ Listed(d)'
    <3> SUFFICES ASSUME NEW i \in 1..Len(queue'), queue'[i] = d PROVE FALSE BY DEF Listed
    <3>1. queue[i + 1] = queue[1] BY <2>3
    <3> QED BY <3>1, <2>3 DEF OneSender
  <2>9. \A e \in Doc : Listed(e)' => Listed(e) BY <2>3 DEF Listed
  <2>10. \A e \in Doc : Drained(e)' => e = d \/ Drained(e) BY <2>4, <2>5 DEF Drained, Reports
  <2>11. \A e \in Doc : Unsent(e)'
    BY <1>1, <1>2, <2>7, <2>8, <2>9, <2>10 DEF OneSender, Unsent
  <2>12. \A i, j \in 1..Len(queue') : queue'[i] = queue'[j] => i = j
    <3> SUFFICES ASSUME NEW i \in 1..Len(queue'), NEW j \in 1..Len(queue'), queue'[i] = queue'[j]
                 PROVE  i = j
      OBVIOUS
    <3>1. i + 1 = j + 1 BY <2>3 DEF OneSender
    <3> QED BY <3>1
  <2>13. \A e \in Doc : \A u, v \in Workers : Reports(u, e)' /\ Reports(v, e)' => u = v
    BY <2>4, <2>5, <2>7 DEF OneSender, Reports, Drained
  <2> QED BY <2>11, <2>12, <2>13 DEF OneSender
<1> QED BY <1>3, <1>4

LEMMA ReportSendsOnce ==
    ASSUME IInv, OneSender, NEW w \in Workers, NEW answer \in Answers, Report(w, answer)
    PROVE  OneSender'
<1>1. PICK d \in Doc : d = worker[w].doc BY DEF Report, IInv, WorkersOK
<1>2. /\ worker[w].step = "report" /\ UNCHANGED <<queue, app>>
      /\ UNCHANGED acks \/ Accepted(d, answer)
      /\ worker' = [worker EXCEPT ![w] = Run("mark", d, @.left)]
         \/ worker' = [worker EXCEPT ![w] = Run("pop", None, @.left)]
  BY <1>1 DEF Report
<1>3. worker'[w].step # "report" /\ \A v \in Workers : v # w => worker'[v] = worker[v]
  BY <1>2 DEF Run, IInv, TypeOK
<1>4. \A e \in Doc, v \in Workers : Reports(v, e)' => v # w /\ Reports(v, e)
  BY <1>3 DEF Reports
<1>5. Reports(w, d) BY <1>1, <1>2 DEF Reports
<1>6. ~ Drained(d)' BY <1>4, <1>5 DEF OneSender, Drained
<1>7. \A e \in Doc : (Drained(e)' => Drained(e)) /\ (Listed(e)' <=> Listed(e)) /\ (ToRoute(e)' <=> ToRoute(e))
  BY <1>2, <1>4 DEF Drained, Listed, ToRoute
<1>8. acks[d] = 0 /\ ~ ToRoute(d) /\ ~ Listed(d) BY <1>5 DEF OneSender, Unsent, Drained
<1>9. acks'[d] <= 1 /\ \A e \in Doc : e # d => acks'[e] = acks[e]
  <2>1. CASE UNCHANGED acks BY <2>1, <1>8
  <2>2. CASE Accepted(d, answer) BY <2>2, <1>8, AcceptedCounts DEF IInv
  <2> QED BY <1>2, <2>1, <2>2
<1>10. \A e \in Doc : Unsent(e)' BY <1>6, <1>7, <1>8, <1>9 DEF OneSender, Unsent
<1> QED BY <1>2, <1>4, <1>10 DEF OneSender

\* Drains that begin, mark a document or die send nothing.
LEMMA DrainRests ==
    ASSUME IInv, OneSender, NEW w \in Workers, StartDrain(w) \/ MarkReported(w) \/ DrainFails(w)
    PROVE  OneSender'
<1>1. /\ UNCHANGED <<acks, queue, app>>
      /\ \E run : run.step # "report" /\ worker' = [worker EXCEPT ![w] = run]
  BY DEF StartDrain, MarkReported, DrainFails, Run, Resting
<1>2. \A d \in Doc, v \in Workers : Reports(v, d)' => Reports(v, d)
  BY <1>1 DEF Reports, IInv, TypeOK
<1>3. \A d \in Doc : ToRoute(d)' => ToRoute(d) BY <1>1 DEF ToRoute
<1> QED BY <1>1, <1>2, <1>3, NothingHandedOn

LEMMA NextSendsOnce == IInv /\ OneSender /\ [Next]_vars => OneSender'
<1> SUFFICES ASSUME IInv, OneSender, [Next]_vars PROVE OneSender' OBVIOUS
<1>1. CASE UNCHANGED vars BY <1>1, NothingHandedOn DEF vars, ToRoute, Reports
<1>2. ASSUME NEW a \in Approvals, NEW kind \in Kinds, ReadConfig(a, kind) PROVE OneSender'
  BY <1>2, ApprovalSendsOnce
<1>3. ASSUME NEW a \in Approvals, Continue(a) \/ RouteFails(a) \/ Abort(a) PROVE OneSender'
  BY <1>3, ApprovalSendsOnce, EnqueueSendsOnce, ClearSendsOnce DEF Continue
<1>4. ASSUME NEW w \in Workers, Drain(w) \/ DrainFails(w) PROVE OneSender'
  BY <1>4, DrainRests, PopSendsOnce, ReportSendsOnce DEF Drain
<1> QED BY <1>1, <1>2, <1>3, <1>4 DEF Next

\* However approvals and overlapping drains interleave, fail and die: a document
\* that route or drain marks CLEARED or REPORTED was accepted, and none is
\* accepted twice by the authority.
THEOREM AlwaysAcceptedOnce == Spec => []AcceptedOnce
<1>1. Init => OneSender
  BY DEF Init, OneSender, Unsent, Listed, Drained, Resting, Run, Reports
<1>2. IInv /\ OneSender /\ [Next]_vars => OneSender' BY NextSendsOnce
<1>3. IInv /\ OneSender => AcceptedOnce BY DEF IInv, OneSender, Unsent, AcceptedOnce, AtMostOnce
<1> QED BY <1>1, <1>2, <1>3, DocumentsSafe, PTL DEF Spec
-----------------------------------------------------------------------------
(* Approvals one at a time: no approval commits between another's reading   *)
(* of the last hash and its commit, so the chain is the order of numbers.   *)

OneInFlight == \A a, b \in InFlight : a = b

ChainInv ==
    /\ OneInFlight
    /\ ChainIsUnbroken
    /\ IF lastHash = None THEN counter = 0 ELSE docs[lastHash].counter = counter
    /\ \A a \in Approvals : app[a].step \in {"read", "locked"} => app[a].prev = lastHash

\* A set with one element at most that grows by one, and is still that small.
LEMMA AtMostOneMore ==
    ASSUME NEW S, \A a, b \in S : a = b, NEW x, NEW T \in SUBSET (S \union {x}), Cardinality(T) <= 1
    PROVE  \A a, b \in T : a = b
<1> SUFFICES ASSUME NEW a \in T, NEW b \in T, a # b
             PROVE  FALSE
  OBVIOUS
<1>1. T = {a} \union {b}
  OBVIOUS
<1>2. IsFiniteSet({a}) /\ Cardinality({a}) = 1
  BY FS_Singleton
<1>3. Cardinality(T) = 1 + 1
  BY <1>1, <1>2, FS_AddElement
<1> QED BY <1>3

\* Steps that commit no document and read no hash.
LEMMA ChainStays ==
    ASSUME IInv, ChainInv, OneInFlight', UNCHANGED <<counter, lastHash>>,
           \A d \in Doc : Committed(d)' <=> Committed(d),
           \A d \in Doc : Committed(d) => docs'[d].counter = docs[d].counter /\ docs'[d].prev = docs[d].prev,
           \A a \in Approvals : app'[a].step \in {"read", "locked"} =>
               app[a].step \in {"read", "locked"} /\ app'[a].prev = app[a].prev
    PROVE  ChainInv'
<1>1. ChainIsUnbroken'
  <2> SUFFICES ASSUME NEW d \in Doc, Committed(d)'
               PROVE  IF docs'[d].counter = 1 THEN docs'[d].prev = None
                      ELSE docs'[d].prev # None /\ docs'[docs'[d].prev] # None
                           /\ docs'[docs'[d].prev].counter = docs'[d].counter - 1
    BY DEF ChainIsUnbroken, Committed
  <2>1. Committed(d) /\ docs'[d].counter = docs[d].counter /\ docs'[d].prev = docs[d].prev
    OBVIOUS
  <2>2. docs[d].prev \in Doc \union {None} BY <2>1, CommittedIsRow DEF IInv
  <2>3. IF docs[d].counter = 1 THEN docs[d].prev = None
        ELSE docs[d].prev # None /\ Committed(docs[d].prev)
             /\ docs[docs[d].prev].counter = docs[d].counter - 1
    BY <2>1 DEF ChainInv, ChainIsUnbroken, Committed
  <2> QED BY <2>1, <2>2, <2>3 DEF Committed
<1>2. IF lastHash' = None THEN counter' = 0 ELSE docs'[lastHash'].counter = counter'
  <2>1. lastHash # None => lastHash \in Doc /\ Committed(lastHash)
    BY DEF IInv, TypeOK, TipIsCommitted
  <2> QED BY <2>1 DEF ChainInv
<1>3. \A a \in Approvals : app'[a].step \in {"read", "locked"} => app'[a].prev = lastHash'
  BY DEF ChainInv
<1> QED BY <1>1, <1>2, <1>3 DEF ChainInv

\* The documents of a commit continue the chain where it ended: nobody else has
\* committed since the hash was read.
LEMMA CommitExtendsChain ==
    ASSUME IInv, ChainInv, OneInFlight', NEW a \in Approvals, Commit(a)
    PROVE  ChainInv'
<1> DEFINE n == Len(app[a].kind)
           Mine(d) == d[1] = a /\ d[2] <= n
<1>1. /\ app[a].step = "locked" /\ app[a].prev = lastHash /\ app[a].base = counter
      /\ app[a].kind \in Kinds /\ ~ Committed(<<a, 1>>) /\ ~ Committed(<<a, 2>>)
      /\ counter \in Nat /\ lastHash \in Doc \union {None}
      /\ lastHash # None => Committed(lastHash)
  BY DEF Commit, At, ChainInv, IInv, ApprovalsOK, ApprovalOK, TypeOK, TipIsCommitted
<1>2. n \in {1, 2} BY <1>1, KindLemma
<1>3. /\ docs' = [d \in Doc |-> IF Mine(d) THEN Issued(a, d[2]) ELSE docs[d]]
      /\ counter' = counter + n /\ lastHash' = <<a, n>>
      /\ app' = [app EXCEPT ![a] = Local("route", app[a].kind, None, 0, 1, None)]
  BY <1>1 DEF Commit
<1> HIDE DEF n
<1>4. \A d \in Doc : Mine(d) <=> d = <<a, 1>> \/ (n = 2 /\ d = <<a, 2>>)
  BY <1>2, DocLemma, SMTT(60)
<1>5. <<a, 1>> \in Doc /\ <<a, 2>> \in Doc BY DocLemma
<1>6. docs'[<<a, 1>>] = Issued(a, 1) /\ (n = 2 => docs'[<<a, 2>>] = Issued(a, 2))
  BY <1>3, <1>4, <1>5
<1>7. \A d \in Doc : ~ Mine(d) => docs'[d] = docs[d] BY <1>3
<1>8. /\ docs'[<<a, 1>>].counter = counter + 1 /\ docs'[<<a, 1>>].prev = lastHash
      /\ n = 2 => docs'[<<a, 2>>].counter = counter + 2 /\ docs'[<<a, 2>>].prev = <<a, 1>>
  BY <1>1, <1>6 DEF Issued, Row
<1>9. docs'[<<a, 1>>] # None
  <2>1. 1 \in 1..Len(app[a].kind) BY <1>2 DEF n
  <2>2. Issued(a, 1) \in Rows
    <3>1. app[a].kind[1] \in Subtypes BY <1>1, <2>1, KindLemma
    <3> QED BY <1>1, <3>1 DEF Issued, Row, Rows, Status
  <2> QED BY <1>6, <2>2, NoneAssumption
<1>10. \A d \in Doc : Committed(d) => docs'[d] = docs[d]
  BY <1>1, <1>4, <1>7
<1> HIDE DEF Mine
<1>11. ChainIsUnbroken'
  <2> SUFFICES ASSUME NEW d \in Doc, docs'[d] # None
               PROVE  IF docs'[d].counter = 1 THEN docs'[d].prev = None
                      ELSE docs'[d].prev # None /\ docs'[docs'[d].prev] # None
                           /\ docs'[docs'[d].prev].counter = docs'[d].counter - 1
    BY DEF ChainIsUnbroken
  <2>1. CASE d = <<a, 1>>
    <3>1. CASE lastHash = None
      <4>1. counter = 0 BY <3>1 DEF ChainInv
      <4> QED BY <2>1, <3>1, <4>1, <1>8
    <3>2. CASE lastHash # None
      <4>1. docs[lastHash].counter = counter /\ docs'[lastHash] = docs[lastHash]
        BY <3>2, <1>1, <1>10 DEF ChainInv
      <4>2. docs[lastHash].counter \in 1..counter /\ docs'[lastHash] # None
        BY <3>2, <4>1, <1>1 DEF IInv, NumbersAreGapless, Committed
      <4> QED BY <2>1, <3>2, <4>1, <4>2, <1>1, <1>8
    <3> QED BY <3>1, <3>2
  <2>2. CASE n = 2 /\ d = <<a, 2>>
    <3>1. <<a, 1>> # None BY <1>5, NoneAssumption
    <3> QED BY <2>2, <3>1, <1>1, <1>8, <1>9
  <2>3. CASE ~ Mine(d)
    <3>1. Committed(d) /\ docs'[d] = docs[d] BY <2>3, <1>7 DEF Committed
    <3>2. IF docs[d].counter = 1 THEN docs[d].prev = None
          ELSE docs[d].prev # None /\ Committed(docs[d].prev)
               /\ docs[docs[d].prev].counter = docs[d].counter - 1
      BY <3>1 DEF ChainInv, ChainIsUnbroken, Committed
    <3>3. docs[d].prev \in Doc \union {None} BY <3>1, CommittedIsRow DEF IInv
    <3> QED BY <3>1, <3>2, <3>3, <1>10 DEF Committed
  <2> QED BY <2>1, <2>2, <2>3, <1>4
<1>12. lastHash' # None /\ docs'[lastHash'].counter = counter'
  <2>1. lastHash' \in Doc BY <1>2, <1>3, <1>5
  <2>2. CASE n = 1 BY <2>1, <2>2, <1>3, <1>8, NoneAssumption
  <2>3. CASE n = 2 BY <2>1, <2>3, <1>3, <1>8, NoneAssumption
  <2> QED BY <2>1, <2>2, <2>3, <1>2, NoneAssumption
<1>13. ASSUME NEW b \in Approvals PROVE app'[b].step \notin {"read", "locked"}
  <2>1. CASE b = a BY <2>1, <1>3 DEF Local, IInv, TypeOK
  <2>2. CASE b # a
    <3>1. app'[b] = app[b] BY <2>2, <1>3 DEF IInv, TypeOK
    <3> QED BY <2>2, <3>1, <1>1 DEF ChainInv, OneInFlight, InFlight
  <2> QED BY <2>1, <2>2
<1> QED BY <1>11, <1>12, <1>13 DEF ChainInv

LEMMA NextKeepsChain == IInv /\ ChainInv /\ OneInFlight' /\ [Next]_vars => ChainInv'
<1> SUFFICES ASSUME IInv, ChainInv, OneInFlight', [Next]_vars PROVE ChainInv' OBVIOUS
<1>1. CASE UNCHANGED vars BY <1>1, ChainStays DEF vars, Committed
<1>2. ASSUME NEW a \in Approvals, NEW kind \in Kinds, ReadConfig(a, kind) PROVE ChainInv'
  <2>1. /\ app' = [app EXCEPT ![a] = Local("read", kind, lastHash, 0, 0, None)]
        /\ UNCHANGED <<counter, lastHash, docs>>
    BY <1>2 DEF ReadConfig
  <2>2. \A b \in Approvals : app'[b].step \in {"read", "locked"} => app'[b].prev = lastHash
    BY <2>1 DEF Local, ChainInv, IInv, TypeOK
  <2> QED BY <2>1, <2>2 DEF ChainInv, ChainIsUnbroken
<1>3. ASSUME NEW a \in Approvals,
             BumpCounter(a) \/ Enqueue(a) \/ RouteFails(a) \/ Abort(a) \/ \E x \in Answers : Clear(a, x)
      PROVE  ChainInv'
  <2>1. UNCHANGED <<counter, lastHash, docs>>
    BY <1>3 DEF BumpCounter, Enqueue, RouteFails, Abort, Clear
  <2>2. \E local : /\ app' = [app EXCEPT ![a] = local]
                   /\ local.step \in {"read", "locked"} => app[a].step = "read" /\ local.prev = app[a].prev
    BY <1>3 DEF BumpCounter, Enqueue, RouteFails, Abort, Clear, NextDocument, Local, Over, At
  <2>3. \A b \in Approvals : app'[b].step \in {"read", "locked"} =>
               app[b].step \in {"read", "locked"} /\ app'[b].prev = app[b].prev
    BY <2>2 DEF IInv, TypeOK
  <2> QED BY <2>1, <2>3, ChainStays DEF Committed
<1>4. ASSUME NEW d \in Doc, NEW status \in Status, Committed(d), WithStatus(d, status),
             UNCHANGED <<counter, lastHash>>,
             \A b \in Approvals : app'[b].step \in {"read", "locked"} =>
               app[b].step \in {"read", "locked"} /\ app'[b].prev = app[b].prev
      PROVE  ChainInv'
  <2>1. /\ docs'[d] = [docs[d] EXCEPT !.status = status]
        /\ \A e \in Doc : e # d => docs'[e] = docs[e]
        /\ \A e \in Doc : Committed(e)' <=> Committed(e)
    BY <1>4, StatusKeepsChain
  <2>2. docs[d] \in Rows BY <1>4, CommittedIsRow DEF IInv
  <2>3. docs'[d].counter = docs[d].counter /\ docs'[d].prev = docs[d].prev
    BY <2>1, <2>2 DEF Rows
  <2> QED BY <1>4, <2>1, <2>3, ChainStays
<1>5. ASSUME NEW a \in Approvals, Stamp(a) PROVE ChainInv'
  <2>1. PICK d \in Doc : d = <<a, app[a].next>> /\ Committed(d)
    BY <1>5, Routed DEF Stamp, At
  <2>2. PICK status \in Status : WithStatus(d, status)
    BY <1>5, <2>1 DEF Stamp, Status
  <2>3. \E local : app' = [app EXCEPT ![a] = local] /\ local.step \notin {"read", "locked"}
    <3>1. PICK local : /\ app' = [app EXCEPT ![a] = local]
                       /\ local = IF app[a].next < Len(app[a].kind)
                                  THEN Local("route", app[a].kind, None, 0, app[a].next + 1, None)
                                  ELSE Over
      BY <1>5 DEF Stamp, NextDocument
    <3>2. local.step \notin {"read", "locked"} BY <3>1 DEF Local, Over
    <3> QED BY <3>1, <3>2
  <2>4. \A b \in Approvals : app'[b].step \in {"read", "locked"} =>
               app[b].step \in {"read", "locked"} /\ app'[b].prev = app[b].prev
    BY <2>3 DEF IInv, TypeOK
  <2> QED BY <1>5, <2>1, <2>2, <2>4, <1>4 DEF Stamp
<1>6. ASSUME NEW w \in Workers, MarkReported(w) PROVE ChainInv'
  <2>1. PICK d \in Doc : d = worker[w].doc /\ Committed(d)
    BY <1>6 DEF MarkReported, IInv, WorkersOK
  <2>2. WithStatus(d, "REPORTED") /\ "REPORTED" \in Status /\ UNCHANGED <<counter, lastHash, app>>
    BY <1>6, <2>1 DEF MarkReported, Status
  <2> QED BY <2>1, <2>2, <1>4
<1>7. ASSUME NEW w \in Workers,
             StartDrain(w) \/ Pop(w) \/ DrainFails(w) \/ \E x \in Answers : Report(w, x)
      PROVE  ChainInv'
  <2>1. UNCHANGED <<counter, lastHash, docs, app>> BY <1>7 DEF StartDrain, Pop, DrainFails, Report
  <2> QED BY <2>1, ChainStays DEF Committed
<1> QED BY <1>1, <1>2, <1>3, <1>5, <1>6, <1>7, CommitExtendsChain DEF Next, Continue, Drain

\* A step moves one approval, so the instances that serve one at a time keep to it.
LEMMA OneInFlightStays ==
    ASSUME IInv, OneInFlight, [Next]_vars, Cardinality(InFlight') <= 1
    PROVE  OneInFlight'
<1>1. UNCHANGED app \/ \E a \in Approvals : \E local : app' = [app EXCEPT ![a] = local]
  <2>1. ASSUME NEW a \in Approvals, NEW kind \in Kinds, ReadConfig(a, kind)
        PROVE  \E local : app' = [app EXCEPT ![a] = local]
    BY <2>1 DEF ReadConfig
  <2>2. ASSUME NEW a \in Approvals, Continue(a) \/ RouteFails(a) \/ Abort(a)
        PROVE  \E local : app' = [app EXCEPT ![a] = local]
    BY <2>2 DEF Continue, BumpCounter, Commit, Enqueue, Clear, Stamp, RouteFails, Abort, NextDocument
  <2>3. ASSUME NEW w \in Workers, Drain(w) \/ DrainFails(w) PROVE UNCHANGED app
    BY <2>3 DEF Drain, StartDrain, Pop, Report, MarkReported, DrainFails
  <2> QED BY <2>1, <2>2, <2>3 DEF Next, vars
<1>2. PICK a : InFlight' \subseteq InFlight \union {a}
  BY <1>1 DEF InFlight, IInv, TypeOK
<1> QED BY <1>2, AtMostOneMore DEF OneInFlight

\* Under any load that serves one approval at a time, whatever the approvals
\* issue, roll back or fail to route: the chain of hashes is the order of the
\* numbers, without a fork or a gap.
THEOREM SerialChainAlwaysUnbroken == MCSpec => []SerialChainIsUnbroken
<1> DEFINE Serial == load.atOnce = 1
<1>1. MCInit => (Serial => ChainInv)
  <2> SUFFICES ASSUME Init PROVE ChainInv BY DEF MCInit
  <2> QED BY DEF Init, Idle, Local, ChainInv, ChainIsUnbroken, OneInFlight, InFlight
<1>2. MCSpec => Spec
  <2>1. MCInit => Init BY DEF MCInit
  <2>2. [MCNext]_MCVars => [Next]_vars BY DEF MCNext, MCVars, vars
  <2> QED BY <2>1, <2>2, PTL DEF MCSpec, Spec
<1>3. IInv /\ (Serial => ChainInv) /\ [MCNext]_MCVars => (Serial => ChainInv)'
  <2> SUFFICES ASSUME IInv, Serial => ChainInv, [MCNext]_MCVars, Serial' PROVE ChainInv' OBVIOUS
  <2>1. [Next]_vars /\ ChainInv BY DEF MCNext, MCVars, vars
  <2>2. OneInFlight'
    <3>1. CASE MCNext
      <4>1. Cardinality(InFlight') <= 1 BY <3>1 DEF MCNext, Within
      <4> QED BY <2>1, <4>1, OneInFlightStays DEF ChainInv
    <3>2. CASE UNCHANGED MCVars
      BY <3>2, <2>1 DEF MCVars, vars, ChainInv, OneInFlight, InFlight
    <3> QED BY <3>1, <3>2
  <2> QED BY <2>1, <2>2, NextKeepsChain
<1>4. (Serial => ChainInv) => SerialChainIsUnbroken BY DEF ChainInv, SerialChainIsUnbroken
<1> HIDE DEF Serial
<1> QED BY <1>1, <1>2, <1>3, <1>4, DocumentsSafe, PTL DEF MCSpec
=============================================================================
