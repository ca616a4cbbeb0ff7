------------------------- MODULE TenantAccount_proofs -------------------------
(***************************************************************************)
(* What holds of TenantAccount for any number of calls, members and seats, *)
(* however calls interleave, fail or are lost with the process.            *)
(*                                                                         *)
(* A call activates an invoice that it knew to be captured some time ago.  *)
(* The invariant says why it still is: a charge that was captured stays    *)
(* so, and until an invoice knows its charge, only the call that created   *)
(* the invoice touches the two.                                            *)
(*                                                                         *)
(* Served one at a time, what a call has read of the licence, the members, *)
(* the tokens and the standing is current, also when an earlier call has   *)
(* died between two of its statements.                                     *)
(***************************************************************************)
EXTENDS MCTenantAccount, FiniteSetTheorems, TLAPS

StepNames == {"idle", "done", "invoice", "charge", "link", "retrieve", "mark", "activate", "hire", "disable",
          "count", "sync", "issue", "rotate", "revoke", "standing", "invalidate"}

\* An invoice that knows its charge.
Known(i) == i \in Rows /\ invoices[i] \in InvoiceRow /\ invoices[i].charged

\* The steps at which a call is the only one to touch the rows it creates.
Creating == {"idle", "invoice", "charge", "link"}

\* What a call c with the local variables l may count on: about its own rows,
\* about the invoice or token it works on, and about the values it has read.
OwnOK(c, l) ==
    /\ l.step \in {"idle", "invoice"} => invoices[c] = None /\ charges[c] = None
    /\ l.step \in {"charge", "link"} =>
           invoices[c] \in InvoiceRow /\ ~ invoices[c].charged /\ invoices[c].status = "PENDING"
    /\ l.step = "charge" => charges[c] = None
    /\ l.step = "link" => charges[c] = "INITIATED"

OtherOK(l) ==
    /\ l.step \in {"retrieve", "mark", "activate"} => Known(l.of)
    /\ l.step = "activate" => charges[l.of] = "CAPTURED"
    /\ l.step \in {"rotate", "revoke"} => l.of \in Rows /\ tokens[l.of] \in TokenRow

ValuesOK(l) ==
    /\ l.step \in StepNames
    /\ l.step = "invoice" => l.value \in {"plan", "seat"}
    /\ l.step = "mark" => l.value \in {"PENDING", "FAILED"}
    /\ l.step \in {"hire", "disable", "issue"} => l.of \in Users
    /\ l.step = "disable" => l.value \in BOOLEAN
    /\ l.step = "count" => l.of \in BOOLEAN
    /\ l.step = "sync" => l.of \in Nat /\ (l.value # None => l.value \in Nat)
    /\ l.step = "issue" => l.value \in Rows
    /\ l.step = "standing" => l.of \in {"ACTIVE", "SUSPENDED"} /\ l.value \in {"ahead", "passed"}

LocalOK(c, l) == OwnOK(c, l) /\ OtherOK(l) /\ ValuesOK(l)

\* A charge is one of an invoice.
ChargesOK == \A i \in Rows : charges[i] # None => invoices[i] # None

LookupOK ==
    /\ lookup.step \in {"idle", "status", "store"}
    /\ lookup.step = "store" => lookup.value \in {"active", "readonly", "blocked"}

Inv ==
    /\ TypeOK
    /\ call = [c \in Calls |-> call[c]]
    /\ \A c \in Calls : LocalOK(c, call[c])
    /\ ChargesOK
    /\ LookupOK
    /\ IsFiniteSet(members)
    /\ PaidIsCaptured

USE CallsAssumption, StaffAssumption, SeatsAssumption, BoundsAssumption, NoneAssumption

-----------------------------------------------------------------------------
(* Frames                                                                   *)

\* What a call counts on stays if its own rows are left alone while it creates
\* them, known invoices and captured charges stay so, and tokens do not go.
LEMMA LocalStays ==
    ASSUME NEW c \in Calls, NEW l, LocalOK(c, l),
           l.step \in Creating => invoices'[c] = invoices[c] /\ charges'[c] = charges[c],
           \A i \in Rows : Known(i) => Known(i)' /\ (charges[i] = "CAPTURED" => charges'[i] = "CAPTURED"),
           \A t \in Rows : tokens[t] \in TokenRow => tokens'[t] \in TokenRow
    PROVE  LocalOK(c, l)'
<1>1. Known(l.of) => l.of \in Rows
  BY DEF Known
<1> QED BY <1>1 DEF LocalOK, OwnOK, OtherOK, ValuesOK, Creating

\* One call moves: the others are where they were.
LEMMA OneMoves ==
    ASSUME Inv, NEW c \in Calls, NEW l, call' = [call EXCEPT ![c] = l]
    PROVE  /\ call' = [d \in Calls |-> call'[d]]
           /\ call'[c] = l
           /\ \A d \in Calls : d # c => call'[d] = call[d]
BY DEF Inv

\* One call moves, by a step that leaves to the others what they count on.
LEMMA StepKeeps ==
    ASSUME Inv, NEW c \in Calls, NEW l, call' = [call EXCEPT ![c] = l], LocalOK(c, l)',
           \A d \in Calls : d # c /\ call[d].step \in Creating =>
               invoices'[d] = invoices[d] /\ charges'[d] = charges[d],
           \A i \in Rows : Known(i) => Known(i)' /\ (charges[i] = "CAPTURED" => charges'[i] = "CAPTURED"),
           \A t \in Rows : tokens[t] \in TokenRow => tokens'[t] \in TokenRow,
           TypeOK', ChargesOK', LookupOK', IsFiniteSet(members'), PaidIsCaptured'
    PROVE  Inv'
<1>1. /\ call' = [d \in Calls |-> call'[d]]
      /\ call'[c] = l
      /\ \A d \in Calls : d # c => call'[d] = call[d]
  BY OneMoves
<1>2. ASSUME NEW d \in Calls PROVE LocalOK(d, call[d])'
  <2>1. CASE d = c
    BY <1>1, <2>1
  <2>2. CASE d # c
    <3>1. call'[d] = call[d] /\ LocalOK(d, call[d])
      BY <1>1, <2>2 DEF Inv
    <3>2. PICK k : k = call[d] /\ k = call'[d] /\ LocalOK(d, k)
      BY <3>1
    <3>3. k.step \in Creating => invoices'[d] = invoices[d] /\ charges'[d] = charges[d]
      BY <2>2, <3>2
    <3>4. LocalOK(d, k)'
      BY <3>2, <3>3, LocalStays
    <3> QED BY <3>2, <3>4
  <2> QED BY <2>1, <2>2
<1> QED BY <1>1, <1>2 DEF Inv

\* A call moves that changes no row: it was let in, it has read, or it dies.
LEMMA QuietStepKeeps ==
    ASSUME Inv, NEW c \in Calls, NEW l, call' = [call EXCEPT ![c] = l], LocalOK(c, l),
           UNCHANGED <<account, trialOver, seats, billing, tokens, access>>, crashes' \in 0..MaxCrashes
    PROVE  Inv'
<1>1. UNCHANGED <<status, renewal, trialOver, licensed, used, returned, members>>
  BY DEF account, seats
<1>2. UNCHANGED <<invoices, charges, tokens, cache, lookup>>
  BY DEF billing, access
<1>3. TypeOK'
  BY <1>1, <1>2 DEF Inv, TypeOK
<1>4. \A i \in Rows : Known(i) => Known(i)'
  BY <1>2 DEF Known
<1>5. LocalOK(c, l)'
  BY <1>2, <1>4, LocalStays
<1>6. ChargesOK' /\ LookupOK' /\ PaidIsCaptured' /\ IsFiniteSet(members')
  BY <1>1, <1>2 DEF Inv, ChargesOK, LookupOK, PaidIsCaptured, Existing
<1> QED BY <1>2, <1>3, <1>4, <1>5, <1>6, StepKeeps

\* A step that moves no call leaves every call what it counts on.
LEMMA NobodyMoves ==
    ASSUME Inv, UNCHANGED call,
           \A d \in Calls : call[d].step \in Creating =>
               invoices'[d] = invoices[d] /\ charges'[d] = charges[d],
           \A i \in Rows : Known(i) => Known(i)' /\ (charges[i] = "CAPTURED" => charges'[i] = "CAPTURED"),
           UNCHANGED tokens, TypeOK', ChargesOK', LookupOK', IsFiniteSet(members'), PaidIsCaptured'
    PROVE  Inv'
<1>1. ASSUME NEW d \in Calls PROVE LocalOK(d, call[d])'
  <2>1. PICK k : k = call[d] /\ k = call'[d] /\ LocalOK(d, k)
    BY DEF Inv
  <2>2. LocalOK(d, k)'
    BY <2>1, LocalStays
  <2> QED BY <2>1, <2>2
<1> QED BY <1>1 DEF Inv

-----------------------------------------------------------------------------
(* The steps                                                                *)

LEMMA InitHolds == Init => Inv
<1> SUFFICES ASSUME Init PROVE Inv
  OBVIOUS
<1>1. PICK buys \in {"plan", "seat"} :
          invoices = [x \in Rows |-> IF x = 0 THEN Invoice(buys, "PENDING", TRUE) ELSE None]
  BY DEF Init
<1>2. Invoice(buys, "PENDING", TRUE) \in InvoiceRow /\ Token(Owner, 0) \in TokenRow
  BY DEF Invoice, InvoiceRow, Token, TokenRow, Rows
<1>3. 0 \in Rows /\ Calls \subseteq Rows /\ 0 \notin Calls
  BY DEF Rows
<1>4. invoices \in [Rows -> InvoiceRow \union {None}] /\ charges \in [Rows -> Charges \union {None}]
  BY <1>1, <1>2 DEF Init, Charges
<1>5. tokens \in [Rows -> TokenRow \union {None}]
  BY <1>2 DEF Init
<1>6. returned = {} /\ {} \subseteq Calls
  BY DEF Init
<1>7. TypeOK
  <2>1. licensed \in Nat /\ used \in Nat /\ crashes \in 0..MaxCrashes
    BY DEF Init
  <2>2. members \subseteq Users /\ cache \in {"active", "readonly", "blocked", None}
    BY DEF Init
  <2>3. /\ status \in {"TRIAL", "ACTIVE", "SUSPENDED", "CANCELLED"}
        /\ trialOver \in BOOLEAN /\ renewal \in {"ahead", "passed"}
    BY DEF Init
  <2> QED BY <1>4, <1>5, <1>6, <2>1, <2>2, <2>3 DEF TypeOK
<1>8. call = [c \in Calls |-> Idle] /\ Idle = Local("idle", None, None)
  BY DEF Init, Idle
<1>9. ASSUME NEW c \in Calls PROVE LocalOK(c, call[c])
  <2>1. call[c].step = "idle"
    BY <1>8 DEF Local
  <2>2. invoices[c] = None /\ charges[c] = None
    BY <1>1, <1>3 DEF Init
  <2> QED BY <2>1, <2>2 DEF LocalOK, OwnOK, OtherOK, ValuesOK, StepNames
<1>10. call = [c \in Calls |-> call[c]]
  BY <1>8
<1>11. ChargesOK
  BY <1>1, <1>2, <1>3 DEF Init, ChargesOK
<1>12. LookupOK
  BY DEF Init, LookupOK, Idle, Local
<1>13. PaidIsCaptured
  BY <1>1, <1>3 DEF PaidIsCaptured, Existing, Invoice
<1> QED BY <1>7, <1>9, <1>10, <1>11, <1>12, <1>13 DEF Inv, Init

\* The steps whose first moment counts on no row of the call's own.
Entry == StepNames \ {"idle", "charge", "link"}

\* A call is let in.
LEMMA BeginKeeps ==
    ASSUME Inv, NEW c \in Calls, NEW step \in Entry, NEW of, NEW value, Begin(c, Local(step, of, value)),
           OtherOK(Local(step, of, value)), ValuesOK(Local(step, of, value))
    PROVE  Inv'
<1> DEFINE l == Local(step, of, value)
<1>1. l.step = step
  BY DEF Local
<1>2. LocalOK(c, call[c]) /\ call[c].step = "idle"
  BY DEF Inv, Begin
<1>3. OwnOK(c, l)
  BY <1>1, <1>2 DEF LocalOK, OwnOK, Entry
<1>4. /\ call' = [call EXCEPT ![c] = l]
      /\ UNCHANGED <<account, trialOver, seats, billing, tokens, access, crashes>>
  BY DEF Begin
<1>5. crashes' \in 0..MaxCrashes
  BY <1>4 DEF Inv, TypeOK
<1> QED BY <1>3, <1>4, <1>5, QuietStepKeeps DEF LocalOK

LEMMA AcceptKeeps ==
    ASSUME Inv, NEW c \in Calls, Accept(c)
    PROVE  Inv'
<1>1. \A step, of, value : /\ Local(step, of, value).step = step
                           /\ Local(step, of, value).of = of
                           /\ Local(step, of, value).value = value
  BY DEF Local
<1>2. \A i \in Rows : invoices[i] # None => invoices[i] \in InvoiceRow
  BY DEF Inv, TypeOK
<1>3. \A t \in Rows : tokens[t] # None => tokens[t] \in TokenRow
  BY DEF Inv, TypeOK
<1>4. ASSUME NEW buys \in {"plan", "seat"}, Checkout(c, buys) PROVE Inv'
  <2>1. OtherOK(Local("invoice", c, buys)) /\ ValuesOK(Local("invoice", c, buys))
    BY <1>1 DEF OtherOK, ValuesOK, StepNames
  <2> QED BY <1>4, <2>1, BeginKeeps DEF Checkout, Entry, StepNames
<1>5. ASSUME NEW i \in Rows, Confirm(c, i) PROVE Inv'
  <2>1. Known(i)
    BY <1>2, <1>5 DEF Confirm, Known
  <2>2. OtherOK(Local("retrieve", i, None)) /\ ValuesOK(Local("retrieve", i, None))
    BY <1>1, <2>1 DEF OtherOK, ValuesOK, StepNames
  <2> QED BY <1>5, <2>2, BeginKeeps DEF Confirm, Entry, StepNames
<1>6. ASSUME NEW i \in Rows, Webhook(c, i) PROVE Inv'
  <2>1. invoices[i] # None /\ charges[i] = "CAPTURED"
    BY <1>6 DEF Webhook, Inv, ChargesOK, Charges
  <2>2. Known(i)
    BY <1>2, <1>6, <2>1 DEF Webhook, Known
  <2>3. OtherOK(Local("activate", i, None)) /\ ValuesOK(Local("activate", i, None))
    BY <1>1, <2>1, <2>2 DEF OtherOK, ValuesOK, StepNames
  <2> QED BY <1>6, <2>3, BeginKeeps DEF Webhook, Entry, StepNames
<1>7. ASSUME NEW u \in Users, CreateMember(c, u) PROVE Inv'
  <2>1. OtherOK(Local("hire", u, None)) /\ ValuesOK(Local("hire", u, None))
    BY <1>1 DEF OtherOK, ValuesOK, StepNames
  <2> QED BY <1>7, <2>1, BeginKeeps DEF CreateMember, Entry, StepNames
<1>8. ASSUME NEW u \in Users, Login(c, u) PROVE Inv'
  <2>1. OtherOK(Local("issue", u, c)) /\ ValuesOK(Local("issue", u, c))
    BY <1>1 DEF OtherOK, ValuesOK, StepNames, Rows
  <2> QED BY <1>8, <2>1, BeginKeeps DEF Login, Entry, StepNames
<1>9. ASSUME NEW u \in Users, NEW b \in BOOLEAN, Offboard(c, u, b) PROVE Inv'
  <2>1. OtherOK(Local("disable", u, b)) /\ ValuesOK(Local("disable", u, b))
    BY <1>1 DEF OtherOK, ValuesOK, StepNames
  <2> QED BY <1>9, <2>1, BeginKeeps DEF Offboard, Entry, StepNames
<1>10. ASSUME NEW t \in Rows, Refresh(c, t) PROVE Inv'
  <2>1. OtherOK(Local("rotate", t, None)) /\ ValuesOK(Local("rotate", t, None))
    BY <1>1, <1>3, <1>10 DEF Refresh, OtherOK, ValuesOK, StepNames
  <2> QED BY <1>10, <2>1, BeginKeeps DEF Refresh, Entry, StepNames
<1>11. ASSUME NEW t \in Rows, Logout(c, t) PROVE Inv'
  <2>1. OtherOK(Local("revoke", t, None)) /\ ValuesOK(Local("revoke", t, None))
    BY <1>1, <1>3, <1>11 DEF Logout, OtherOK, ValuesOK, StepNames
  <2> QED BY <1>11, <2>1, BeginKeeps DEF Logout, Entry, StepNames
<1>12. ASSUME NEW s \in {"ACTIVE", "SUSPENDED"}, NEW date \in {"ahead", "passed"},
              Begin(c, Local("standing", s, date))
       PROVE  Inv'
  <2>1. OtherOK(Local("standing", s, date)) /\ ValuesOK(Local("standing", s, date))
    BY <1>1 DEF OtherOK, ValuesOK, StepNames
  <2> QED BY <1>12, <2>1, BeginKeeps DEF Entry, StepNames
<1>13. ASSUME NEW s \in {"ACTIVE", "SUSPENDED"}, SetStatus(c, s) PROVE Inv'
  <2>1. renewal \in {"ahead", "passed"}
    BY DEF Inv, TypeOK
  <2> QED BY <1>12, <1>13, <2>1 DEF SetStatus
<1>14. ASSUME NEW date \in {"ahead", "passed"}, SetRenewal(c, date) PROVE Inv'
  BY <1>12, <1>14 DEF SetRenewal
<1> QED BY <1>4, <1>5, <1>6, <1>7, <1>8, <1>9, <1>10, <1>11, <1>13, <1>14 DEF Accept

\* A step of a call that writes.
LEMMA CreateInvoiceKeeps ==
    ASSUME Inv, NEW c \in Calls, CreateInvoice(c)
    PROVE  Inv'
<1> DEFINE l == Local("charge", c, None)
           row == Invoice(call[c].value, "PENDING", FALSE)
<1>1. LocalOK(c, call[c]) /\ call[c].step = "invoice"
  BY DEF Inv, CreateInvoice, At
<1>2. invoices[c] = None /\ charges[c] = None /\ call[c].value \in {"plan", "seat"} /\ c \in Rows
  BY <1>1 DEF LocalOK, OwnOK, ValuesOK, Rows
<1>3. row \in InvoiceRow /\ ~ row.charged /\ row.status = "PENDING"
  BY <1>2 DEF Invoice, InvoiceRow
<1>4. /\ call' = [call EXCEPT ![c] = l] /\ invoices' = [invoices EXCEPT ![c] = row]
      /\ UNCHANGED <<account, trialOver, seats, charges, tokens, access, crashes>>
  BY DEF CreateInvoice, Continue
<1>5. l.step = "charge"
  BY DEF Local
<1> HIDE DEF l, row
<1>6. invoices'[c] = row /\ \A i \in Rows : i # c => invoices'[i] = invoices[i]
  BY <1>2, <1>4 DEF Inv, TypeOK
<1>7. UNCHANGED <<status, renewal, licensed, used, returned, members, cache, lookup>>
  BY <1>4 DEF account, seats, access
<1>8. TypeOK'
  BY <1>3, <1>4, <1>6, <1>7 DEF Inv, TypeOK
<1>9. LocalOK(c, l)'
  BY <1>2, <1>3, <1>4, <1>5, <1>6 DEF LocalOK, OwnOK, OtherOK, ValuesOK, StepNames
<1>10. \A i \in Rows : Known(i) => Known(i)'
  BY <1>2, <1>6 DEF Known
<1>11. ChargesOK' /\ LookupOK' /\ PaidIsCaptured' /\ IsFiniteSet(members')
  BY <1>3, <1>4, <1>6, <1>7 DEF Inv, ChargesOK, LookupOK, PaidIsCaptured, Existing
<1>12. \A d \in Calls : d # c => invoices'[d] = invoices[d]
  BY <1>6 DEF Rows
<1> QED BY <1>4, <1>8, <1>9, <1>10, <1>11, <1>12, StepKeeps

LEMMA CreateChargeKeeps ==
    ASSUME Inv, NEW c \in Calls, CreateCharge(c)
    PROVE  Inv'
<1> DEFINE l == Local("link", c, None)
<1>1. LocalOK(c, call[c]) /\ call[c].step = "charge"
  BY DEF Inv, CreateCharge, At
<1>2. /\ invoices[c] \in InvoiceRow /\ ~ invoices[c].charged /\ invoices[c].status = "PENDING"
      /\ charges[c] = None /\ c \in Rows
  BY <1>1 DEF LocalOK, OwnOK, Rows
<1>3. /\ call' = [call EXCEPT ![c] = l] /\ charges' = [charges EXCEPT ![c] = "INITIATED"]
      /\ UNCHANGED <<account, trialOver, seats, invoices, tokens, access, crashes>>
  BY DEF CreateCharge, Continue
<1>4. l.step = "link"
  BY DEF Local
<1> HIDE DEF l
<1>5. charges'[c] = "INITIATED" /\ \A i \in Rows : i # c => charges'[i] = charges[i]
  BY <1>2, <1>3 DEF Inv, TypeOK
<1>6. UNCHANGED <<status, renewal, licensed, used, returned, members, cache, lookup>>
  BY <1>3 DEF account, seats, access
<1>7. TypeOK'
  BY <1>3, <1>5, <1>6 DEF Inv, TypeOK, Charges
<1>8. LocalOK(c, l)'
  BY <1>2, <1>3, <1>4, <1>5 DEF LocalOK, OwnOK, OtherOK, ValuesOK, StepNames
<1>9. \A i \in Rows : Known(i) => Known(i)' /\ (charges[i] = "CAPTURED" => charges'[i] = "CAPTURED")
  BY <1>2, <1>3, <1>5 DEF Known
<1>10. ChargesOK' /\ LookupOK' /\ PaidIsCaptured' /\ IsFiniteSet(members')
  BY <1>2, <1>3, <1>5, <1>6 DEF Inv, ChargesOK, LookupOK, PaidIsCaptured, Existing
<1>11. \A d \in Calls : d # c => charges'[d] = charges[d]
  BY <1>5 DEF Rows
<1> QED BY <1>3, <1>7, <1>8, <1>9, <1>10, <1>11, StepKeeps

LEMMA StoreChargeKeeps ==
    ASSUME Inv, NEW c \in Calls, StoreCharge(c)
    PROVE  Inv'
<1> DEFINE row == [invoices[c] EXCEPT !.charged = TRUE]
<1>1. LocalOK(c, call[c]) /\ call[c].step = "link"
  BY DEF Inv, StoreCharge, At
<1>2. invoices[c] \in InvoiceRow /\ invoices[c].status = "PENDING" /\ c \in Rows
  BY <1>1 DEF LocalOK, OwnOK, Rows
<1>3. row \in InvoiceRow /\ row.charged /\ row.status = "PENDING"
  BY <1>2 DEF InvoiceRow
<1>4. /\ call' = [call EXCEPT ![c] = Over] /\ invoices' = [invoices EXCEPT ![c] = row]
      /\ UNCHANGED <<account, trialOver, seats, charges, tokens, access, crashes>>
  BY DEF StoreCharge, Finish, Continue
<1>5. Over.step = "done"
  BY DEF Over, Local
<1> HIDE DEF row
<1>6. invoices'[c] = row /\ \A i \in Rows : i # c => invoices'[i] = invoices[i]
  BY <1>2, <1>4 DEF Inv, TypeOK
<1>7. UNCHANGED <<status, renewal, licensed, used, returned, members, cache, lookup>>
  BY <1>4 DEF account, seats, access
<1>8. TypeOK'
  BY <1>3, <1>4, <1>6, <1>7 DEF Inv, TypeOK
<1>9. LocalOK(c, Over)'
  BY <1>5 DEF LocalOK, OwnOK, OtherOK, ValuesOK, StepNames
<1>10. \A i \in Rows : Known(i) => Known(i)'
  BY <1>3, <1>6 DEF Known
<1>11. ChargesOK' /\ LookupOK' /\ PaidIsCaptured' /\ IsFiniteSet(members')
  BY <1>3, <1>4, <1>6, <1>7 DEF Inv, ChargesOK, LookupOK, PaidIsCaptured, Existing
<1>12. \A d \in Calls : d # c => invoices'[d] = invoices[d]
  BY <1>6 DEF Rows
<1> QED BY <1>4, <1>8, <1>9, <1>10, <1>11, <1>12, StepKeeps

\* A call that changes the status of an invoice that knows its charge.
LEMMA StatusChangeKeeps ==
    ASSUME Inv, NEW c \in Calls, NEW l, call' = [call EXCEPT ![c] = l], l.step \in {"done", "invalidate"},
           NEW i, Known(i), NEW s \in {"PENDING", "PAID", "FAILED"},
           s = "PAID" => charges[i] = "CAPTURED",
           invoices' = [invoices EXCEPT ![i].status = s],
           status' \in {"TRIAL", "ACTIVE", "SUSPENDED", "CANCELLED"}, renewal' \in {"ahead", "passed"},
           licensed' \in Nat,
           UNCHANGED <<trialOver, used, returned, members, charges, tokens, access, crashes>>
    PROVE  Inv'
<1> DEFINE row == [invoices[i] EXCEPT !.status = s]
<1>1. i \in Rows /\ invoices[i] \in InvoiceRow /\ invoices[i].charged
  BY DEF Known
<1>2. row \in InvoiceRow /\ row.charged /\ row.status = s
  BY <1>1 DEF InvoiceRow
<1>3. invoices' = [invoices EXCEPT ![i] = row]
  OBVIOUS
<1> HIDE DEF row
<1>4. invoices'[i] = row /\ \A j \in Rows : j # i => invoices'[j] = invoices[j]
  BY <1>1, <1>3 DEF Inv, TypeOK
<1>5. UNCHANGED <<cache, lookup>>
  BY DEF access
<1>6. invoices' \in [Rows -> InvoiceRow \union {None}]
  BY <1>2, <1>3 DEF Inv, TypeOK
<1>7. TypeOK'
  BY <1>5, <1>6 DEF Inv, TypeOK
<1>8. LocalOK(c, l)'
  BY DEF LocalOK, OwnOK, OtherOK, ValuesOK, StepNames
<1>9. \A j \in Rows : Known(j) => Known(j)'
  BY <1>2, <1>4 DEF Known
<1>10. ChargesOK' /\ LookupOK' /\ PaidIsCaptured' /\ IsFiniteSet(members')
  BY <1>1, <1>2, <1>4, <1>5 DEF Inv, ChargesOK, LookupOK, PaidIsCaptured, Existing
<1>11. ASSUME NEW d \in Calls, call[d].step \in Creating PROVE invoices'[d] = invoices[d]
  <2>1. LocalOK(d, call[d]) /\ d \in Rows
    BY DEF Inv, Rows
  <2>2. d # i
    BY <1>1, <1>11, <2>1 DEF LocalOK, OwnOK, Creating
  <2> QED BY <1>4, <2>1, <2>2
<1> QED BY <1>7, <1>8, <1>9, <1>10, <1>11, StepKeeps

LEMMA MarkKeeps ==
    ASSUME Inv, NEW c \in Calls, Mark(c)
    PROVE  Inv'
<1>1. LocalOK(c, call[c]) /\ call[c].step = "mark"
  BY DEF Inv, Mark, At
<1>2. Known(call[c].of) /\ call[c].value \in {"PENDING", "FAILED"}
  BY <1>1 DEF LocalOK, OtherOK, ValuesOK
<1>3. /\ call' = [call EXCEPT ![c] = Over] /\ Over.step = "done"
      /\ invoices' = [invoices EXCEPT ![call[c].of].status = call[c].value]
      /\ UNCHANGED <<account, trialOver, seats, charges, tokens, access, crashes>>
  BY DEF Mark, Finish, Continue, Over, Local
<1>4. UNCHANGED <<status, renewal, licensed, used, returned, members>>
  BY <1>3 DEF account, seats
<1>5. /\ status' \in {"TRIAL", "ACTIVE", "SUSPENDED", "CANCELLED"}
      /\ renewal' \in {"ahead", "passed"} /\ licensed' \in Nat
  BY <1>4 DEF Inv, TypeOK
<1> QED BY <1>2, <1>3, <1>4, <1>5, StatusChangeKeeps

LEMMA ActivateKeeps ==
    ASSUME Inv, NEW c \in Calls, Activate(c)
    PROVE  Inv'
<1> DEFINE i == call[c].of
<1>1. LocalOK(c, call[c]) /\ call[c].step = "activate"
  BY DEF Inv, Activate, At
<1>2. Known(i) /\ charges[i] = "CAPTURED"
  BY <1>1 DEF LocalOK, OtherOK
<1>3. /\ invoices' = [invoices EXCEPT ![i].status = "PAID"]
      /\ UNCHANGED <<used, returned, members, charges, tokens, access>>
  BY DEF Activate
<1>4. \/ Finish(c) /\ licensed' = licensed + 1 /\ UNCHANGED account
      \/ /\ Continue(c, Local("invalidate", None, None))
         /\ status' = "ACTIVE" /\ renewal' = "ahead" /\ UNCHANGED licensed
  BY DEF Activate
<1>5. PICK l : /\ call' = [call EXCEPT ![c] = l] /\ l.step \in {"done", "invalidate"}
               /\ UNCHANGED <<trialOver, crashes>>
  <2>1. Over.step = "done" /\ Local("invalidate", None, None).step = "invalidate"
    BY DEF Over, Local
  <2> QED BY <1>4, <2>1 DEF Finish, Continue
<1>6. /\ status' \in {"TRIAL", "ACTIVE", "SUSPENDED", "CANCELLED"}
      /\ renewal' \in {"ahead", "passed"} /\ licensed' \in Nat
  BY <1>4 DEF Inv, TypeOK, account
<1> QED BY <1>2, <1>3, <1>5, <1>6, StatusChangeKeeps

\* A call that changes something else than invoices and charges.
LEMMA ApartKeeps ==
    ASSUME Inv, NEW c \in Calls, NEW l, call' = [call EXCEPT ![c] = l], ValuesOK(l),
           l.step \in {"done", "count", "issue", "invalidate"},
           UNCHANGED <<invoices, charges, lookup>>,
           \A t \in Rows : tokens[t] \in TokenRow => tokens'[t] \in TokenRow,
           TypeOK', IsFiniteSet(members')
    PROVE  Inv'
<1>1. LocalOK(c, l)'
  BY DEF LocalOK, OwnOK, OtherOK, ValuesOK
<1>2. \A i \in Rows : Known(i) => Known(i)'
  BY DEF Known
<1>3. ChargesOK' /\ LookupOK' /\ PaidIsCaptured'
  BY DEF Inv, ChargesOK, LookupOK, PaidIsCaptured, Existing
<1> QED BY <1>1, <1>2, <1>3, StepKeeps

LEMMA OverIsOver == Over.step = "done" /\ ValuesOK(Over)
BY DEF Over, Local, ValuesOK, StepNames

LEMMA MembersKeep ==
    ASSUME Inv, NEW c \in Calls, CommitMember(c) \/ Disable(c)
    PROVE  Inv'
<1>1. LocalOK(c, call[c]) /\ call[c].step \in {"hire", "disable"}
  BY DEF Inv, CommitMember, Disable, At
<1>2. call[c].of \in Users /\ (call[c].step = "disable" => call[c].value \in BOOLEAN)
  BY <1>1 DEF LocalOK, ValuesOK
<1>3. PICK b \in BOOLEAN : Continue(c, Local("count", b, None))
  BY <1>2 DEF CommitMember, Disable, At
<1>4. ValuesOK(Local("count", b, None)) /\ Local("count", b, None).step = "count"
  BY DEF ValuesOK, Local, StepNames
<1>5. /\ call' = [call EXCEPT ![c] = Local("count", b, None)]
      /\ UNCHANGED <<status, renewal, trialOver, licensed, used, returned, crashes>>
      /\ UNCHANGED <<invoices, charges, tokens, cache, lookup>>
  BY <1>3 DEF CommitMember, Disable, Continue, account, billing, access
<1>6. members' = members \union {call[c].of} \/ members' = members \ {call[c].of}
  BY DEF CommitMember, Disable
<1>7. IsFiniteSet(members') /\ members' \subseteq Users
  <2>1. IsFiniteSet(members \union {call[c].of}) /\ IsFiniteSet(members \ {call[c].of})
    BY FS_AddElement, FS_RemoveElement DEF Inv
  <2> QED BY <1>2, <1>6, <2>1 DEF Inv, TypeOK
<1>8. TypeOK'
  BY <1>5, <1>7 DEF Inv, TypeOK
<1> QED BY <1>4, <1>5, <1>7, <1>8, ApartKeeps

LEMMA SyncSeatsKeeps ==
    ASSUME Inv, NEW c \in Calls, SyncSeats(c)
    PROVE  Inv'
<1>1. LocalOK(c, call[c]) /\ call[c].step = "sync"
  BY DEF Inv, SyncSeats, At
<1>2. call[c].of \in Nat /\ (call[c].value # None => call[c].value \in Nat)
  BY <1>1 DEF LocalOK, ValuesOK
<1>3. used' \in Nat /\ licensed' \in Nat /\ returned' \subseteq Calls
  BY <1>2 DEF SyncSeats, Inv, TypeOK
<1>4. /\ call' = [call EXCEPT ![c] = Over]
      /\ UNCHANGED <<status, renewal, trialOver, members, crashes>>
      /\ UNCHANGED <<invoices, charges, tokens, cache, lookup>>
  BY DEF SyncSeats, Finish, Continue, account, billing, access
<1>5. TypeOK' /\ IsFiniteSet(members')
  BY <1>3, <1>4 DEF Inv, TypeOK
<1> QED BY <1>4, <1>5, OverIsOver, ApartKeeps

LEMMA CountSeatsKeeps ==
    ASSUME Inv, NEW c \in Calls, CountSeats(c)
    PROVE  Inv'
<1> DEFINE count == Cardinality(members)
           less == IF licensed - 1 > count THEN licensed - 1 ELSE count
           value == IF call[c].of THEN less ELSE None
           l == Local("sync", count, value)
<1>1. count \in Nat /\ licensed \in Nat
  BY FS_CardinalityType DEF Inv, TypeOK
<1>2. less \in Nat
  BY <1>1
<1>3. value # None => value \in Nat
  BY <1>2
<1>4. Continue(c, l) /\ UNCHANGED <<account, seats, billing, tokens, access>>
  BY DEF CountSeats
<1> HIDE DEF value, count
<1>5. l.step = "sync" /\ l.of = count /\ l.value = value
  BY DEF Local
<1>6. call' = [call EXCEPT ![c] = l] /\ UNCHANGED <<trialOver, crashes>>
  BY <1>4 DEF Continue
<1> HIDE DEF l
<1>7. LocalOK(c, l)
  BY <1>1, <1>3, <1>5 DEF LocalOK, OwnOK, OtherOK, ValuesOK, StepNames
<1>8. crashes' \in 0..MaxCrashes
  BY <1>6 DEF Inv, TypeOK
<1> QED BY <1>4, <1>6, <1>7, <1>8, QuietStepKeeps

LEMMA RetrieveKeeps ==
    ASSUME Inv, NEW c \in Calls, Retrieve(c)
    PROVE  Inv'
<1> DEFINE i == call[c].of
<1>1. LocalOK(c, call[c]) /\ call[c].step = "retrieve"
  BY DEF Inv, Retrieve, At
<1>2. Known(i)
  BY <1>1 DEF LocalOK, OtherOK
<1> HIDE DEF i
<1>3. \A step, value : /\ Local(step, i, value).step = step
                       /\ Local(step, i, value).of = i
                       /\ Local(step, i, value).value = value
  BY DEF Local
<1>4. \/ charges[i] = "CAPTURED" /\ Continue(c, Local("activate", i, None))
      \/ Continue(c, Local("mark", i, "FAILED"))
      \/ Continue(c, Local("mark", i, "PENDING"))
  BY DEF Retrieve, i
<1>5. PICK step \in {"activate", "mark"}, value \in {None, "FAILED", "PENDING"} :
          /\ Continue(c, Local(step, i, value))
          /\ step = "activate" => charges[i] = "CAPTURED"
          /\ step = "mark" => value \in {"PENDING", "FAILED"}
  BY <1>4
<1>6. LocalOK(c, Local(step, i, value))
  BY <1>2, <1>3, <1>5 DEF LocalOK, OwnOK, OtherOK, ValuesOK, StepNames
<1>7. /\ call' = [call EXCEPT ![c] = Local(step, i, value)]
      /\ UNCHANGED <<account, trialOver, seats, billing, tokens, access, crashes>>
  BY <1>5 DEF Continue, Retrieve
<1>8. crashes' \in 0..MaxCrashes
  BY <1>7 DEF Inv, TypeOK
<1> QED BY <1>6, <1>7, <1>8, QuietStepKeeps

\* A call that writes one token, after which it is over or issues another.
LEMMA TokenKeeps ==
    ASSUME Inv, NEW c \in Calls, NEW l, call' = [call EXCEPT ![c] = l], ValuesOK(l),
           l.step \in {"done", "issue"}, NEW t \in Rows, NEW row \in TokenRow,
           tokens' = [tokens EXCEPT ![t] = row],
           UNCHANGED <<account, trialOver, seats, billing, access, crashes>>
    PROVE  Inv'
<1>1. tokens' \in [Rows -> TokenRow \union {None}]
  BY DEF Inv, TypeOK
<1>2. \A o \in Rows : tokens[o] \in TokenRow => tokens'[o] \in TokenRow
  BY DEF Inv, TypeOK
<1>3. /\ UNCHANGED <<status, renewal, licensed, used, returned, members>>
      /\ UNCHANGED <<invoices, charges, cache, lookup>>
  BY DEF account, seats, billing, access
<1>4. TypeOK' /\ IsFiniteSet(members')
  BY <1>1, <1>3 DEF Inv, TypeOK
<1> QED BY <1>2, <1>3, <1>4, ApartKeeps

LEMMA RotateKeeps ==
    ASSUME Inv, NEW c \in Calls, Rotate(c)
    PROVE  Inv'
<1> DEFINE t == call[c].of
           row == [tokens[t] EXCEPT !.state = "exchanged"]
           l == Local("issue", tokens[t].user, tokens[t].login)
<1>1. LocalOK(c, call[c]) /\ call[c].step = "rotate"
  BY DEF Inv, Rotate, At
<1>2. t \in Rows /\ tokens[t] \in TokenRow
  BY <1>1 DEF LocalOK, OtherOK
<1>3. row \in TokenRow
  BY <1>2 DEF TokenRow
<1>4. l.step = "issue" /\ ValuesOK(l)
  BY <1>2 DEF Local, ValuesOK, StepNames, TokenRow
<1>5. /\ call' = [call EXCEPT ![c] = l] /\ tokens' = [tokens EXCEPT ![t] = row]
      /\ UNCHANGED <<account, trialOver, seats, billing, access, crashes>>
  BY DEF Rotate, Continue
<1> HIDE DEF t, row, l
<1> QED BY <1>2, <1>3, <1>4, <1>5, TokenKeeps

LEMMA IssueTokenKeeps ==
    ASSUME Inv, NEW c \in Calls, IssueToken(c)
    PROVE  Inv'
<1> DEFINE row == Token(call[c].of, call[c].value)
<1>1. LocalOK(c, call[c]) /\ call[c].step = "issue"
  BY DEF Inv, IssueToken, At
<1>2. call[c].of \in Users /\ call[c].value \in Rows
  BY <1>1 DEF LocalOK, ValuesOK
<1>3. row \in TokenRow /\ c \in Rows
  BY <1>2 DEF Token, TokenRow, Rows
<1>4. /\ call' = [call EXCEPT ![c] = Over] /\ tokens' = [tokens EXCEPT ![c] = row]
      /\ UNCHANGED <<account, trialOver, seats, billing, access, crashes>>
  BY DEF IssueToken, Finish, Continue
<1> HIDE DEF row
<1> QED BY <1>3, <1>4, OverIsOver, TokenKeeps

LEMMA RevokeKeeps ==
    ASSUME Inv, NEW c \in Calls, Revoke(c)
    PROVE  Inv'
<1> DEFINE t == call[c].of
           state == IF tokens[t].state = "live" THEN "revoked" ELSE tokens[t].state
           row == [tokens[t] EXCEPT !.state = state]
<1>1. LocalOK(c, call[c]) /\ call[c].step = "revoke"
  BY DEF Inv, Revoke, At
<1>2. t \in Rows /\ tokens[t] \in TokenRow
  BY <1>1 DEF LocalOK, OtherOK
<1>3. row \in TokenRow
  BY <1>2 DEF TokenRow
<1>4. /\ call' = [call EXCEPT ![c] = Over] /\ tokens' = [tokens EXCEPT ![t] = row]
      /\ UNCHANGED <<account, trialOver, seats, billing, access, crashes>>
  BY DEF Revoke, Finish, Continue
<1> HIDE DEF t, row
<1> QED BY <1>2, <1>3, <1>4, OverIsOver, TokenKeeps

\* A call about the tenant's standing or its cached answer.
LEMMA StandingKeeps ==
    ASSUME Inv, NEW c \in Calls, CommitStanding(c) \/ Invalidate(c)
    PROVE  Inv'
<1>1. LocalOK(c, call[c])
  BY DEF Inv
<1>2. CommitStanding(c) => call[c].of \in {"ACTIVE", "SUSPENDED"} /\ call[c].value \in {"ahead", "passed"}
  BY <1>1 DEF CommitStanding, At, LocalOK, ValuesOK
<1>3. /\ status' \in {"TRIAL", "ACTIVE", "SUSPENDED", "CANCELLED"} /\ renewal' \in {"ahead", "passed"}
      /\ cache' \in {"active", "readonly", "blocked", None}
  BY <1>2 DEF CommitStanding, Invalidate, account, access, Inv, TypeOK
<1>4. PICK l : /\ call' = [call EXCEPT ![c] = l] /\ l.step \in {"done", "invalidate"}
               /\ UNCHANGED <<trialOver, crashes>>
  <2>1. Over.step = "done" /\ Local("invalidate", None, None).step = "invalidate"
    BY DEF Over, Local
  <2> QED BY <2>1 DEF CommitStanding, Invalidate, Finish, Continue
<1>5. /\ UNCHANGED <<licensed, used, returned, members>>
      /\ UNCHANGED <<invoices, charges, tokens, lookup>>
  BY DEF CommitStanding, Invalidate, seats, billing, access
<1>6. TypeOK' /\ IsFiniteSet(members')
  BY <1>3, <1>4, <1>5 DEF Inv, TypeOK
<1>7. ValuesOK(l)
  BY <1>4 DEF ValuesOK, StepNames
<1> QED BY <1>4, <1>5, <1>6, <1>7, ApartKeeps

\* The customer pays, or fails to.
LEMMA SettleKeeps ==
    ASSUME Inv, NEW i \in Rows, NEW outcome \in {"CAPTURED", "FAILED"}, Settle(i, outcome)
    PROVE  Inv'
<1>1. /\ charges[i] = "INITIATED" /\ invoices[i].charged
      /\ charges' = [charges EXCEPT ![i] = outcome]
      /\ UNCHANGED <<status, renewal, trialOver, licensed, used, returned, members>>
      /\ UNCHANGED <<invoices, tokens, cache, lookup, call, crashes>>
  BY DEF Settle, account, seats, access
<1>2. charges'[i] = outcome /\ \A j \in Rows : j # i => charges'[j] = charges[j]
  BY <1>1 DEF Inv, TypeOK
<1>3. invoices[i] # None
  BY <1>1 DEF Inv, ChargesOK, Charges
<1>4. Known(i)
  BY <1>1, <1>3 DEF Inv, TypeOK, Known
<1>5. charges' \in [Rows -> Charges \union {None}]
  BY <1>1 DEF Inv, TypeOK, Charges
<1>6. TypeOK'
  BY <1>1, <1>5 DEF Inv, TypeOK
<1>7. ASSUME NEW d \in Calls, call[d].step \in Creating PROVE charges'[d] = charges[d]
  <2>1. LocalOK(d, call[d]) /\ d \in Rows
    BY DEF Inv, Rows
  <2>2. d # i
    BY <1>4, <1>7, <2>1 DEF LocalOK, OwnOK, Creating, Known
  <2> QED BY <1>2, <2>1, <2>2
<1>8. \A j \in Rows : Known(j) => Known(j)' /\ (charges[j] = "CAPTURED" => charges'[j] = "CAPTURED")
  BY <1>1, <1>2 DEF Known
<1>9. ChargesOK' /\ LookupOK' /\ IsFiniteSet(members')
  BY <1>1, <1>2, <1>3 DEF Inv, ChargesOK, LookupOK
<1>10. PaidIsCaptured'
  BY <1>1, <1>2 DEF Inv, PaidIsCaptured, Existing
<1> QED BY <1>1, <1>6, <1>7, <1>8, <1>9, <1>10, NobodyMoves

\* Dates pass, entries of the cache grow old, and requests look the tenant up.
LEMMA TimeKeeps ==
    ASSUME Inv, Clock \/ Lookup
    PROVE  Inv'
<1>1. /\ UNCHANGED <<status, licensed, used, returned, members>>
      /\ UNCHANGED <<invoices, charges, tokens, call, crashes>>
  BY DEF Clock, RenewalPasses, TrialEnds, CacheExpires, Pass, Lookup, ReadStatus, ComputeAccess, StoreAccess,
         Look, account, seats, billing, access
<1>2. renewal' \in {"ahead", "passed"} /\ trialOver' \in BOOLEAN
  BY DEF Clock, RenewalPasses, TrialEnds, CacheExpires, Pass, Lookup, ReadStatus, ComputeAccess, StoreAccess,
         Look, account, Inv, TypeOK
<1>3. cache' \in {"active", "readonly", "blocked", None} /\ LookupOK'
  <2>1. CASE Clock
    BY <2>1 DEF Clock, RenewalPasses, TrialEnds, CacheExpires, Pass, access, Inv, TypeOK, LookupOK
  <2>2. CASE ReadStatus
    BY <2>2 DEF ReadStatus, Look, Local, Inv, TypeOK, LookupOK
  <2>3. CASE ComputeAccess
    BY <2>3 DEF ComputeAccess, Look, Local, Access, Inv, TypeOK, LookupOK
  <2>4. CASE StoreAccess
    BY <2>4 DEF StoreAccess, Idle, Local, Inv, TypeOK, LookupOK
  <2> QED BY <2>1, <2>2, <2>3, <2>4 DEF Lookup
<1>4. TypeOK'
  BY <1>1, <1>2, <1>3 DEF Inv, TypeOK
<1>5. \A i \in Rows : Known(i) => Known(i)'
  BY <1>1 DEF Known
<1>6. ChargesOK' /\ PaidIsCaptured' /\ IsFiniteSet(members')
  BY <1>1 DEF Inv, ChargesOK, PaidIsCaptured, Existing
<1> QED BY <1>1, <1>3, <1>4, <1>5, <1>6, NobodyMoves

LEMMA FailKeeps ==
    ASSUME Inv, NEW c \in Calls, Fail(c)
    PROVE  Inv'
<1>1. /\ call' = [call EXCEPT ![c] = Over]
      /\ UNCHANGED <<account, trialOver, seats, billing, tokens, access>>
  BY DEF Fail
<1>2. crashes' \in 0..MaxCrashes
  BY DEF Fail, Inv, TypeOK
<1>3. LocalOK(c, Over)
  BY OverIsOver DEF LocalOK, OwnOK, OtherOK
<1> QED BY <1>1, <1>2, <1>3, QuietStepKeeps

\* The process restarts: every call under way is over.
LEMMA RestartKeeps ==
    ASSUME Inv, Restart
    PROVE  Inv'
<1>1. /\ call' = [c \in Calls |-> IF c \in InFlight THEN Over ELSE call[c]]
      /\ crashes' \in 0..MaxCrashes
      /\ UNCHANGED <<status, renewal, trialOver, licensed, used, returned, members>>
      /\ UNCHANGED <<invoices, charges, tokens>>
      /\ cache' = None /\ lookup' = Idle
  BY DEF Restart, Inv, TypeOK, account, seats, billing
<1>2. ASSUME NEW c \in Calls PROVE LocalOK(c, call[c])'
  <2>1. LocalOK(c, Over)
    BY OverIsOver DEF LocalOK, OwnOK, OtherOK
  <2>2. PICK k : k = call'[c] /\ LocalOK(c, k)
    BY <1>1, <2>1 DEF Inv
  <2>3. \A i \in Rows : Known(i) => Known(i)'
    BY <1>1 DEF Known
  <2>4. LocalOK(c, k)'
    BY <1>1, <2>2, <2>3, LocalStays
  <2> QED BY <2>2, <2>4
<1>3. call' = [c \in Calls |-> call'[c]]
  BY <1>1
<1>4. TypeOK'
  BY <1>1 DEF Inv, TypeOK
<1>5. ChargesOK' /\ PaidIsCaptured' /\ IsFiniteSet(members')
  BY <1>1 DEF Inv, ChargesOK, PaidIsCaptured, Existing
<1>6. LookupOK'
  BY <1>1 DEF LookupOK, Idle, Local
<1> QED BY <1>2, <1>3, <1>4, <1>5, <1>6 DEF Inv

LEMMA NextKeeps == Inv /\ [Next]_vars => Inv'
<1> SUFFICES ASSUME Inv, [Next]_vars PROVE Inv'
  OBVIOUS
<1>1. ASSUME NEW c \in Calls, Step(c) PROVE Inv'
  <2>1. CASE CreateInvoice(c) \/ CreateCharge(c) \/ StoreCharge(c)
    BY <2>1, CreateInvoiceKeeps, CreateChargeKeeps, StoreChargeKeeps
  <2>2. CASE Retrieve(c) \/ Mark(c) \/ Activate(c)
    BY <2>2, RetrieveKeeps, MarkKeeps, ActivateKeeps
  <2>3. CASE CommitMember(c) \/ Disable(c) \/ CountSeats(c) \/ SyncSeats(c)
    BY <2>3, MembersKeep, CountSeatsKeeps, SyncSeatsKeeps
  <2>4. CASE Rotate(c) \/ IssueToken(c) \/ Revoke(c)
    BY <2>4, RotateKeeps, IssueTokenKeeps, RevokeKeeps
  <2>5. CASE CommitStanding(c) \/ Invalidate(c)
    BY <2>5, StandingKeeps
  <2> QED BY <1>1, <2>1, <2>2, <2>3, <2>4, <2>5 DEF Step
<1>2. ASSUME NEW c \in Calls, Accept(c) \/ Fail(c) PROVE Inv'
  BY <1>2, AcceptKeeps, FailKeeps
<1>3. CASE Customer
  BY <1>3, SettleKeeps DEF Customer
<1>4. CASE Clock \/ Lookup
  BY <1>4, TimeKeeps
<1>5. CASE Restart
  BY <1>5, RestartKeeps
<1>6. CASE UNCHANGED vars
  <2>1. /\ UNCHANGED <<status, renewal, trialOver, licensed, used, returned, members>>
        /\ UNCHANGED <<invoices, charges, tokens, cache, lookup, call, crashes>>
    BY <1>6 DEF vars, account, seats, billing, access
  <2>2. TypeOK' /\ ChargesOK' /\ LookupOK' /\ PaidIsCaptured' /\ IsFiniteSet(members')
    BY <2>1 DEF Inv, TypeOK, ChargesOK, LookupOK, PaidIsCaptured, Existing
  <2>3. \A i \in Rows : Known(i) => Known(i)'
    BY <2>1 DEF Known
  <2> QED BY <2>1, <2>2, <2>3, NobodyMoves
<1> QED BY <1>1, <1>2, <1>3, <1>4, <1>5, <1>6 DEF Next

-----------------------------------------------------------------------------
\* The invariant holds in every behaviour of the API.
THEOREM AccountSafe == Spec => []Inv
<1> QED BY InitHolds, NextKeeps, PTL DEF Spec

\* The columns hold what they are declared to hold: however offboardings and
\* payments interleave, no seat count gets negative.
THEOREM AccountTyped == Spec => []TypeOK
<1>1. Inv => TypeOK
  BY DEF Inv
<1> QED BY <1>1, AccountSafe, PTL

\* An invoice that is paid has a charge that the gateway captured, for any number
\* of checkouts, confirmations and webhooks at a time.
THEOREM PaidAlwaysCaptured == Spec => []PaidIsCaptured
<1>1. Inv => PaidIsCaptured
  BY DEF Inv
<1> QED BY <1>1, AccountSafe, PTL
-----------------------------------------------------------------------------
(* Calls served one at a time                                               *)
(*                                                                          *)
(* While no two calls are between their read and their write, and a lookup  *)
(* is over before a call begins, what was read is still so when it is       *)
(* written. The invariant says what each call has checked, and what         *)
(* licence, members, sessions and the cached answer add up to because of it.*)

OneInFlight == \A a, b \in InFlight : a = b
LookupApart == lookup.step = "idle" \/ InFlight = {}

\* Calls come in order, and the one in flight is the last.
InOrder ==
    \A c, d \in Calls : d < c /\ call[c].step # "idle" => call[d].step = "done"

LicenceSerial ==
    /\ IsFiniteSet(PaidSeats) /\ IsFiniteSet(returned)
    /\ LicenceIsPaid /\ MembersAreLicensed
    /\ \A c \in returned : call[c].step = "done"

\* The seats in use are out of date only while a call is about to count them.
BilledSerial ==
    crashes = 0 /\ (\A c \in Calls : call[c].step \notin {"count", "sync"}) => Cardinality(members) <= used

SessionsSerial ==
    /\ OneLiveToken /\ LogoutEndsSession
    /\ \A t \in Existing(tokens) : tokens[t].login \in Calls => call[tokens[t].login].step # "idle"

\* An answer that is right, but for a date that has passed since.
Current(answer) ==
    \/ answer \in {None, Access(status, trialOver, renewal)}
    \/ answer = "active" /\ Access(status, trialOver, renewal) = "readonly"

AccessSerial ==
    /\ (\A c \in Calls : call[c].step # "invalidate") => Current(cache)
    /\ lookup.step = "status" => lookup.of = status
    /\ lookup.step = "store" => Current(lookup.value)

\* What a call has read is still so when it writes.
LocalSerial(l) ==
    /\ l.step \in {"retrieve", "mark", "activate"} => invoices[l.of].status # "PAID"
    /\ l.step = "hire" => Cardinality(members) < licensed
    /\ l.step = "sync" =>
           /\ l.of = Cardinality(members)
           /\ l.value # None => l.value \in {licensed - 1, licensed} /\ l.of <= l.value
    /\ l.step = "rotate" => tokens[l.of].state = "live"
    /\ l.step = "issue" =>
           /\ l.value \in Calls => call[l.value].step # "idle"
           /\ \A t \in Existing(tokens) : tokens[t].login = l.value => tokens[t].state = "exchanged"

PartsSerial == LicenceSerial /\ BilledSerial /\ SessionsSerial /\ AccessSerial

SerialInv ==
    /\ InOrder /\ LookupApart
    /\ PartsSerial
    /\ \A c \in Calls : LocalSerial(call[c])

-----------------------------------------------------------------------------
(* Frames of the serial calls                                               *)

LEMMA RestingIsSerial ==
    ASSUME NEW l, l.step \in {"idle", "done"}
    PROVE  LocalSerial(l)'
BY DEF LocalSerial

LEMMA OthersRest ==
    ASSUME Inv, SerialInv, NEW c \in InFlight, NEW d \in Calls, d # c
    PROVE  call[d].step \in {"idle", "done"}
<1>1. c \in Nat /\ d \in Nat /\ (c < d \/ d < c) BY DEF InFlight
<1> QED BY <1>1 DEF SerialInv, InOrder, InFlight

\* The one call in flight moves.
LEMMA MoveIsSerial ==
    ASSUME Inv, SerialInv, NEW c \in InFlight, NEW l, call' = [call EXCEPT ![c] = l], l.step # "idle",
           LookupApart', PartsSerial', LocalSerial(l)'
    PROVE  SerialInv'
<1>1. c \in Calls BY DEF InFlight
<1>2. call'[c] = l /\ \A d \in Calls : d # c => call'[d] = call[d]
  BY <1>1, OneMoves
<1>3. InOrder'
  BY <1>1, <1>2 DEF SerialInv, InOrder, InFlight
<1>4. ASSUME NEW d \in Calls PROVE LocalSerial(call[d])'
  <2>1. CASE d = c BY <1>2, <2>1
  <2>2. CASE d # c
    <3>1. PICK k : k = call'[d] /\ k.step \in {"idle", "done"} BY <1>2, <2>2, OthersRest
    <3>2. LocalSerial(k)' BY <3>1, RestingIsSerial
    <3> QED BY <3>1, <3>2
  <2> QED BY <2>1, <2>2
<1> QED BY <1>3, <1>4 DEF SerialInv

LEMMA LicenceStays ==
    ASSUME Inv, SerialInv, NEW c \in Calls, call[c].step # "done", NEW l, call' = [call EXCEPT ![c] = l],
           UNCHANGED <<licensed, returned, members>>, PaidSeats' = PaidSeats
    PROVE  LicenceSerial'
<1>1. \A d \in Calls : d # c => call'[d] = call[d] BY OneMoves
<1>2. \A d \in returned : d \in Calls /\ call[d].step = "done"
  BY DEF Inv, TypeOK, SerialInv, PartsSerial, LicenceSerial
<1>3. \A d \in returned' : call'[d].step = "done" BY <1>1, <1>2
<1> QED BY <1>3 DEF SerialInv, PartsSerial, LicenceSerial, LicenceIsPaid, MembersAreLicensed

LEMMA BilledStays ==
    ASSUME Inv, SerialInv, NEW c \in Calls, NEW l, call' = [call EXCEPT ![c] = l],
           UNCHANGED <<used, members>>,
           crashes' = 0 => crashes = 0 /\ (call[c].step \in {"count", "sync"} => l.step \in {"count", "sync"})
    PROVE  BilledSerial'
<1>1. call'[c] = l /\ \A d \in Calls : d # c => call'[d] = call[d] BY OneMoves
<1> SUFFICES ASSUME crashes' = 0, \A d \in Calls : call'[d].step \notin {"count", "sync"}
             PROVE  Cardinality(members) <= used
  BY DEF BilledSerial
<1>2. \A d \in Calls : call[d].step \notin {"count", "sync"} BY <1>1
<1> QED BY <1>2 DEF SerialInv, PartsSerial, BilledSerial

LEMMA SessionsStay ==
    ASSUME Inv, SerialInv, NEW c \in Calls, NEW l, call' = [call EXCEPT ![c] = l], l.step # "idle",
           UNCHANGED tokens
    PROVE  SessionsSerial'
<1>1. call'[c] = l /\ \A d \in Calls : d # c => call'[d] = call[d] BY OneMoves
<1>2. Existing(tokens)' = Existing(tokens) BY DEF Existing
<1>3. OneLiveToken' /\ LogoutEndsSession'
  BY <1>2 DEF SerialInv, PartsSerial, SessionsSerial, OneLiveToken, LogoutEndsSession
<1>4. ASSUME NEW t \in Existing(tokens)', tokens'[t].login \in Calls PROVE call'[tokens'[t].login].step # "idle"
  BY <1>1, <1>2, <1>4 DEF SerialInv, PartsSerial, SessionsSerial
<1> QED BY <1>3, <1>4 DEF SessionsSerial

LEMMA AccessStays ==
    ASSUME Inv, SerialInv, NEW c \in Calls, NEW l, call' = [call EXCEPT ![c] = l],
           UNCHANGED <<status, trialOver, renewal, cache, lookup>>,
           call[c].step = "invalidate" => l.step = "invalidate"
    PROVE  AccessSerial'
<1>1. call'[c] = l /\ \A d \in Calls : d # c => call'[d] = call[d] BY OneMoves
<1>2. (\A d \in Calls : call'[d].step # "invalidate") => (\A d \in Calls : call[d].step # "invalidate")
  BY <1>1
<1> QED BY <1>2 DEF SerialInv, PartsSerial, AccessSerial, Current

\* A call moves and changes no row.
LEMMA QuietIsSerial ==
    ASSUME Inv, SerialInv, NEW c \in InFlight, NEW l, call' = [call EXCEPT ![c] = l], l.step # "idle",
           UNCHANGED <<account, trialOver, seats, invoices, tokens, access>>,
           crashes' = 0 => crashes = 0 /\ (call[c].step \in {"count", "sync"} => l.step \in {"count", "sync"}),
           call[c].step = "invalidate" => l.step = "invalidate",
           LookupApart', LocalSerial(l)'
    PROVE  SerialInv'
<1>1. c \in Calls /\ call[c].step # "done" BY DEF InFlight
<1>2. UNCHANGED <<status, renewal, licensed, used, returned, members, cache, lookup>>
  BY DEF account, seats, access
<1>3. PaidSeats' = PaidSeats BY DEF PaidSeats, Existing
<1>4. PartsSerial'
  BY <1>1, <1>2, <1>3, LicenceStays, BilledStays, SessionsStay, AccessStays DEF PartsSerial
<1> QED BY <1>4, MoveIsSerial

LEMMA LookupIsIdle ==
    ASSUME SerialInv, NEW c \in InFlight
    PROVE  lookup.step = "idle"
BY DEF SerialInv, LookupApart

-----------------------------------------------------------------------------
(* A call is let in                                                         *)

LEMMA BeginIsSerial ==
    ASSUME Inv, SerialInv, OneInFlight', LookupApart', NEW c \in Calls, NEW l, Begin(c, l),
           l.step \notin {"idle", "done"}, LocalSerial(l)'
    PROVE  SerialInv'
<1>1. /\ call[c].step = "idle" /\ call' = [call EXCEPT ![c] = l]
      /\ \A d \in Calls : d < c => call[d].step # "idle"
      /\ UNCHANGED <<account, trialOver, seats, billing, tokens, access, crashes>>
  BY DEF Begin
<1>2. call'[c] = l /\ \A d \in Calls : d # c => call'[d] = call[d]
  BY <1>1, OneMoves
<1>3. InFlight = {}
  <2> SUFFICES ASSUME NEW d \in InFlight PROVE FALSE
    OBVIOUS
  <2>1. d \in Calls /\ d # c BY <1>1 DEF InFlight
  <2>2. d \in InFlight' /\ c \in InFlight' BY <1>2, <2>1 DEF InFlight
  <2> QED BY <2>1, <2>2 DEF OneInFlight
<1>4. \A d \in Calls : call[d].step \in {"idle", "done"} BY <1>3 DEF InFlight
<1>5. InOrder'
  <2> SUFFICES ASSUME NEW a \in Calls, NEW b \in Calls, b < a, call'[a].step # "idle"
               PROVE  call'[b].step = "done"
    BY DEF InOrder
  <2>1. CASE a = c
    <3>1. b # c /\ call[b].step # "idle" BY <1>1, <2>1
    <3> QED BY <1>2, <1>4, <3>1
  <2>2. CASE a # c
    <3>1. call[a].step # "idle" BY <1>2, <2>2
    <3>2. call[b].step = "done" BY <3>1 DEF SerialInv, InOrder
    <3> QED BY <1>1, <1>2, <3>2
  <2> QED BY <2>1, <2>2
<1>6. ASSUME NEW d \in Calls PROVE LocalSerial(call[d])'
  <2>1. CASE d = c BY <1>2, <2>1
  <2>2. CASE d # c
    <3>1. PICK k : k = call'[d] /\ k.step \in {"idle", "done"} BY <1>2, <1>4, <2>2
    <3>2. LocalSerial(k)' BY <3>1, RestingIsSerial
    <3> QED BY <3>1, <3>2
  <2> QED BY <2>1, <2>2
<1>7. /\ UNCHANGED <<status, renewal, licensed, used, returned, members, cache, lookup>>
      /\ UNCHANGED <<trialOver, invoices, tokens, crashes>>
  BY <1>1 DEF account, seats, billing, access
<1>8. PaidSeats' = PaidSeats BY <1>7 DEF PaidSeats, Existing
<1>9. PartsSerial'
  BY <1>1, <1>7, <1>8, LicenceStays, BilledStays, SessionsStay, AccessStays DEF PartsSerial
<1> QED BY <1>5, <1>6, <1>9 DEF SerialInv

LEMMA AcceptIsSerial ==
    ASSUME Inv, SerialInv, OneInFlight', LookupApart', NEW c \in Calls, Accept(c)
    PROVE  SerialInv'
<1>1. \A step, of, value : /\ Local(step, of, value).step = step
                           /\ Local(step, of, value).of = of
                           /\ Local(step, of, value).value = value
  BY DEF Local
<1>2. ASSUME NEW l, Begin(c, l)
      PROVE  /\ UNCHANGED <<invoices, tokens, members, licensed>>
             /\ call[c].step = "idle" /\ call'[c] = l
             /\ \A d \in Calls : d # c => call'[d] = call[d]
  <2>1. call' = [call EXCEPT ![c] = l] BY <1>2 DEF Begin
  <2> QED BY <1>2, <2>1, OneMoves DEF Begin, billing, seats
<1>3. ASSUME NEW buys \in {"plan", "seat"}, Checkout(c, buys) PROVE SerialInv'
  <2>1. LocalSerial(Local("invoice", c, buys))' BY <1>1 DEF LocalSerial
  <2> QED BY <1>1, <1>3, <2>1, BeginIsSerial DEF Checkout
<1>4. ASSUME NEW i \in Rows, Confirm(c, i) PROVE SerialInv'
  <2>1. Begin(c, Local("retrieve", i, None)) /\ invoices[i].status # "PAID" BY <1>4 DEF Confirm
  <2>2. LocalSerial(Local("retrieve", i, None))' BY <1>1, <1>2, <2>1 DEF LocalSerial
  <2> QED BY <1>1, <2>1, <2>2, BeginIsSerial
<1>5. ASSUME NEW i \in Rows, Webhook(c, i) PROVE SerialInv'
  <2>1. Begin(c, Local("activate", i, None)) /\ invoices[i].status # "PAID" BY <1>5 DEF Webhook
  <2>2. LocalSerial(Local("activate", i, None))' BY <1>1, <1>2, <2>1 DEF LocalSerial
  <2> QED BY <1>1, <2>1, <2>2, BeginIsSerial
<1>6. ASSUME NEW u \in Users, CreateMember(c, u) PROVE SerialInv'
  <2>1. Begin(c, Local("hire", u, None)) /\ Cardinality(members) < licensed BY <1>6 DEF CreateMember
  <2>2. LocalSerial(Local("hire", u, None))' BY <1>1, <1>2, <2>1 DEF LocalSerial
  <2> QED BY <1>1, <2>1, <2>2, BeginIsSerial
<1>7. ASSUME NEW u \in Users, Login(c, u) PROVE SerialInv'
  <2>1. Begin(c, Local("issue", u, c)) BY <1>7 DEF Login
  <2>2. UNCHANGED tokens /\ call[c].step = "idle" /\ call'[c].step # "idle" BY <1>1, <1>2, <2>1
  <2>3. \A t \in Existing(tokens)' : tokens'[t].login # c
    BY <2>2 DEF Existing, SerialInv, PartsSerial, SessionsSerial
  <2>4. LocalSerial(Local("issue", u, c))' BY <1>1, <2>2, <2>3 DEF LocalSerial
  <2> QED BY <1>1, <2>1, <2>4, BeginIsSerial
<1>8. ASSUME NEW u \in Users, NEW b \in BOOLEAN, Offboard(c, u, b) PROVE SerialInv'
  <2>1. LocalSerial(Local("disable", u, b))' BY <1>1 DEF LocalSerial
  <2> QED BY <1>1, <1>8, <2>1, BeginIsSerial DEF Offboard
<1>9. ASSUME NEW t \in Rows, Refresh(c, t) PROVE SerialInv'
  <2>1. Begin(c, Local("rotate", t, None)) /\ tokens[t].state = "live" BY <1>9 DEF Refresh
  <2>2. LocalSerial(Local("rotate", t, None))' BY <1>1, <1>2, <2>1 DEF LocalSerial
  <2> QED BY <1>1, <2>1, <2>2, BeginIsSerial
<1>10. ASSUME NEW t \in Rows, Logout(c, t) PROVE SerialInv'
  <2>1. LocalSerial(Local("revoke", t, None))' BY <1>1 DEF LocalSerial
  <2> QED BY <1>1, <1>10, <2>1, BeginIsSerial DEF Logout
<1>11. ASSUME NEW s, NEW date, Begin(c, Local("standing", s, date)) PROVE SerialInv'
  <2>1. LocalSerial(Local("standing", s, date))' BY <1>1 DEF LocalSerial
  <2> QED BY <1>1, <1>11, <2>1, BeginIsSerial
<1> QED BY <1>3, <1>4, <1>5, <1>6, <1>7, <1>8, <1>9, <1>10, <1>11 DEF Accept, SetStatus, SetRenewal

-----------------------------------------------------------------------------
(* The steps of the one call                                                *)

\* What is left of a call's other parts when it writes an invoice that is not paid
\* by it: the paid seats are the same.
LEMMA UnpaidIsSerial ==
    ASSUME Inv, SerialInv, NEW c \in InFlight, NEW l, call' = [call EXCEPT ![c] = l], l.step # "idle",
           call[c].step \in {"invoice", "charge", "link", "mark"}, LookupApart', LocalSerial(l)',
           UNCHANGED <<account, trialOver, seats, tokens, access, crashes>>,
           NEW i \in Rows, \A j \in Rows : j # i => invoices'[j] = invoices[j],
           invoices[i] # None => invoices[i].status # "PAID",
           invoices'[i] # None => invoices'[i].status # "PAID"
    PROVE  SerialInv'
<1>1. c \in Calls /\ call[c].step # "done" BY DEF InFlight
<1>2. UNCHANGED <<status, renewal, licensed, used, returned, members, cache, lookup>>
  BY DEF account, seats, access
<1>3. PaidSeats' = PaidSeats BY DEF PaidSeats, Existing
<1>4. PartsSerial'
  BY <1>1, <1>2, <1>3, LicenceStays, BilledStays, SessionsStay, AccessStays DEF PartsSerial
<1> QED BY <1>4, MoveIsSerial

LEMMA CheckoutIsSerial ==
    ASSUME Inv, SerialInv, LookupApart', NEW c \in Calls, CreateInvoice(c) \/ CreateCharge(c) \/ StoreCharge(c)
    PROVE  SerialInv'
<1>1. /\ c \in Rows /\ c \in InFlight /\ LocalOK(c, call[c]) /\ call[c].step \in {"invoice", "charge", "link"}
      /\ CreateInvoice(c) => call[c].step = "invoice"
      /\ StoreCharge(c) => call[c].step = "link"
  BY DEF CreateInvoice, CreateCharge, StoreCharge, At, InFlight, Inv, Rows
<1>2. PICK l : call' = [call EXCEPT ![c] = l] /\ l.step \in {"charge", "link", "done"} /\ UNCHANGED <<trialOver, crashes>>
  <2>1. \A of, value : Local("charge", of, value).step = "charge" /\ Local("link", of, value).step = "link"
    BY DEF Local
  <2> QED BY <2>1, OverIsOver DEF CreateInvoice, CreateCharge, StoreCharge, Finish, Continue
<1>3. LocalSerial(l)' BY <1>2 DEF LocalSerial
<1>4. UNCHANGED <<account, seats, tokens, access>>
  BY DEF CreateInvoice, CreateCharge, StoreCharge
<1>5. \A j \in Rows : j # c => invoices'[j] = invoices[j]
  BY <1>1 DEF CreateInvoice, CreateCharge, StoreCharge, Inv, TypeOK
<1>6. invoices[c] # None => invoices[c].status # "PAID"
  BY <1>1 DEF LocalOK, OwnOK
<1>7. invoices'[c] # None => invoices'[c].status # "PAID"
  <2>1. CASE CreateInvoice(c)
    <3>1. invoices' = [invoices EXCEPT ![c] = Invoice(call[c].value, "PENDING", FALSE)]
      BY <2>1 DEF CreateInvoice
    <3>2. invoices'[c] = Invoice(call[c].value, "PENDING", FALSE) BY <1>1, <3>1 DEF Inv, TypeOK
    <3> QED BY <3>2 DEF Invoice
  <2>2. CASE CreateCharge(c) BY <1>6, <2>2 DEF CreateCharge
  <2>3. CASE StoreCharge(c)
    <3>1. invoices' = [invoices EXCEPT ![c].charged = TRUE] BY <2>3 DEF StoreCharge
    <3>2. invoices[c] \in InvoiceRow /\ invoices[c].status # "PAID" BY <1>1, <2>3 DEF LocalOK, OwnOK
    <3>3. invoices'[c].status = invoices[c].status BY <1>1, <3>1, <3>2 DEF Inv, TypeOK, InvoiceRow
    <3> QED BY <3>2, <3>3
  <2> QED BY <2>1, <2>2, <2>3
<1> QED BY <1>1, <1>2, <1>3, <1>4, <1>5, <1>6, <1>7, UnpaidIsSerial

LEMMA RetrieveIsSerial ==
    ASSUME Inv, SerialInv, LookupApart', NEW c \in Calls, Retrieve(c)
    PROVE  SerialInv'
<1>1. c \in InFlight /\ call[c].step = "retrieve" /\ LocalSerial(call[c])
  BY DEF Retrieve, At, InFlight, SerialInv
<1>2. UNCHANGED <<account, trialOver, seats, invoices, tokens, access, crashes>>
  BY DEF Retrieve, Continue, billing
<1>3. PICK i : i = call[c].of OBVIOUS
<1>4. invoices[i].status # "PAID" BY <1>1, <1>3 DEF LocalSerial
<1>5. \A step, value : Local(step, i, value).step = step /\ Local(step, i, value).of = i
  BY DEF Local
<1>6. PICK l : call' = [call EXCEPT ![c] = l] /\ l.step \in {"activate", "mark"} /\ l.of = i
  <2>1. \/ Continue(c, Local("activate", i, None))
        \/ Continue(c, Local("mark", i, "FAILED"))
        \/ Continue(c, Local("mark", i, "PENDING"))
    BY <1>3 DEF Retrieve
  <2>2. PICK step, value : step \in {"activate", "mark"} /\ Continue(c, Local(step, i, value)) BY <2>1
  <2>3. call' = [call EXCEPT ![c] = Local(step, i, value)] BY <2>2 DEF Continue
  <2> DEFINE l == Local(step, i, value)
  <2>4. l.step \in {"activate", "mark"} /\ l.of = i BY <1>5, <2>2
  <2> HIDE DEF l
  <2>5. call' = [call EXCEPT ![c] = l] BY <2>3 DEF l
  <2> QED BY <2>4, <2>5
<1>7. LocalSerial(l)' BY <1>2, <1>4, <1>6 DEF LocalSerial
<1> QED BY <1>1, <1>2, <1>6, <1>7, QuietIsSerial

LEMMA MarkIsSerial ==
    ASSUME Inv, SerialInv, LookupApart', NEW c \in Calls, Mark(c)
    PROVE  SerialInv'
<1>1. c \in InFlight /\ call[c].step = "mark" /\ LocalSerial(call[c]) /\ LocalOK(c, call[c])
  BY DEF Mark, At, InFlight, SerialInv, Inv
<1>2. PICK i, s : i = call[c].of /\ s = call[c].value OBVIOUS
<1>3. i \in Rows /\ invoices[i] \in InvoiceRow /\ invoices[i].status # "PAID" /\ s \in {"PENDING", "FAILED"}
  BY <1>1, <1>2 DEF LocalSerial, LocalOK, OtherOK, ValuesOK, Known
<1>4. /\ call' = [call EXCEPT ![c] = Over] /\ invoices' = [invoices EXCEPT ![i].status = s]
      /\ UNCHANGED <<account, trialOver, seats, tokens, access, crashes>>
  BY <1>2 DEF Mark, Finish, Continue
<1>5. invoices'[i].status = s /\ \A j \in Rows : j # i => invoices'[j] = invoices[j]
  BY <1>3, <1>4 DEF Inv, TypeOK, InvoiceRow
<1>6. LocalSerial(Over)' BY OverIsOver, RestingIsSerial
<1> QED BY <1>1, <1>3, <1>4, <1>5, <1>6, OverIsOver, UnpaidIsSerial

LEMMA ActivateIsSerial ==
    ASSUME Inv, SerialInv, LookupApart', NEW c \in Calls, Activate(c)
    PROVE  SerialInv'
<1>1. c \in InFlight /\ call[c].step = "activate" /\ LocalSerial(call[c]) /\ LocalOK(c, call[c])
  BY DEF Activate, At, InFlight, SerialInv, Inv
<1>2. PICK i : i = call[c].of OBVIOUS
<1>3. i \in Rows /\ invoices[i] \in InvoiceRow /\ invoices[i] # None /\ invoices[i].status # "PAID"
  BY <1>1, <1>2 DEF LocalSerial, LocalOK, OtherOK, Known
<1>4. /\ invoices' = [invoices EXCEPT ![i].status = "PAID"]
      /\ UNCHANGED <<used, returned, members, tokens, access>>
  BY <1>2 DEF Activate
<1>5. /\ invoices'[i] # None /\ invoices'[i].status = "PAID" /\ invoices'[i].buys = invoices[i].buys
      /\ \A j \in Rows : j # i => invoices'[j] = invoices[j]
  <2>1. invoices'[i] = [invoices[i] EXCEPT !.status = "PAID"] BY <1>3, <1>4 DEF Inv, TypeOK
  <2>2. invoices'[i] \in InvoiceRow BY <1>3, <2>1 DEF InvoiceRow
  <2> QED BY <1>3, <1>4, <2>1, <2>2 DEF Inv, TypeOK, InvoiceRow
<1>6. Local("invalidate", None, None).step = "invalidate" BY DEF Local
<1>7. UNCHANGED <<cache, lookup>> /\ lookup.step = "idle" BY <1>1, <1>4, LookupIsIdle DEF access
<1>8. LicenceIsPaid /\ MembersAreLicensed /\ IsFiniteSet(PaidSeats) /\ licensed \in Nat
  BY DEF SerialInv, PartsSerial, LicenceSerial, Inv, TypeOK
<1>9. CASE invoices[i].buys = "seat" /\ licensed' = licensed + 1 /\ Finish(c) /\ UNCHANGED account
  <2>1. call' = [call EXCEPT ![c] = Over] /\ UNCHANGED <<trialOver, crashes, status, renewal>>
    BY <1>9 DEF Finish, Continue, account
  <2>2. \A d \in Calls : d # c => call'[d] = call[d] BY <2>1, OneMoves
  <2>3. i \notin PaidSeats /\ PaidSeats' = PaidSeats \union {i}
    BY <1>3, <1>5, <1>9 DEF PaidSeats, Existing
  <2>4. IsFiniteSet(PaidSeats') /\ Cardinality(PaidSeats') = Cardinality(PaidSeats) + 1
    BY <1>8, <2>3, FS_AddElement
  <2>5. Cardinality(PaidSeats) \in Nat /\ Cardinality(returned) \in Nat /\ Cardinality(members) \in Nat
    BY <1>8, FS_CardinalityType DEF SerialInv, PartsSerial, LicenceSerial, Inv
  <2>6. LicenceIsPaid' /\ MembersAreLicensed'
    BY <1>4, <1>8, <1>9, <2>4, <2>5 DEF LicenceIsPaid, MembersAreLicensed
  <2>7. \A d \in returned' : call'[d].step = "done"
    BY <1>4, <2>1, <2>2, OverIsOver, OneMoves DEF SerialInv, PartsSerial, LicenceSerial, Inv, TypeOK
  <2>8. LicenceSerial' BY <1>4, <2>4, <2>6, <2>7 DEF LicenceSerial, SerialInv, PartsSerial
  <2>9. BilledSerial' /\ SessionsSerial' /\ AccessSerial'
    BY <1>1, <1>4, <1>7, <2>1, OverIsOver, BilledStays, SessionsStay, AccessStays
  <2>10. LocalSerial(Over)' BY OverIsOver, RestingIsSerial
  <2> QED BY <1>1, <2>1, <2>8, <2>9, <2>10, OverIsOver, MoveIsSerial DEF PartsSerial
<1>10. CASE invoices[i].buys = "plan" /\ Continue(c, Local("invalidate", None, None)) /\ UNCHANGED licensed
  <2> DEFINE l == Local("invalidate", None, None)
  <2>1. call' = [call EXCEPT ![c] = l] /\ UNCHANGED <<trialOver, crashes>>
    BY <1>10 DEF Continue
  <2> HIDE DEF l
  <2>2. l.step = "invalidate" BY <1>6 DEF l
  <2>3. PaidSeats' = PaidSeats BY <1>3, <1>5, <1>10 DEF PaidSeats, Existing
  <2>4. LicenceSerial' BY <1>1, <1>4, <1>10, <2>1, <2>3, LicenceStays
  <2>5. BilledSerial' /\ SessionsSerial'
    BY <1>1, <1>4, <2>1, <2>2, BilledStays, SessionsStay
  <2>6. call'[c] = l BY <2>1, OneMoves
  <2>7. AccessSerial' BY <1>7, <2>2, <2>6 DEF AccessSerial
  <2>8. LocalSerial(l)' BY <2>2 DEF LocalSerial
  <2> QED BY <1>1, <2>1, <2>2, <2>4, <2>5, <2>7, <2>8, MoveIsSerial DEF PartsSerial
<1> QED BY <1>2, <1>9, <1>10 DEF Activate

LEMMA HireIsSerial ==
    ASSUME Inv, SerialInv, LookupApart', NEW c \in Calls, CommitMember(c) \/ Disable(c)
    PROVE  SerialInv'
<1>1. /\ c \in InFlight /\ call[c].step \in {"hire", "disable"} /\ LocalSerial(call[c])
      /\ CommitMember(c) => call[c].step = "hire"
  BY DEF CommitMember, Disable, At, InFlight, SerialInv, Inv
<1>2. PICK l : call' = [call EXCEPT ![c] = l] /\ l.step = "count"
  <2>1. \A of, value : Local("count", of, value).step = "count" BY DEF Local
  <2> QED BY <2>1 DEF CommitMember, Disable, Continue
<1>3. /\ UNCHANGED <<status, renewal, trialOver, licensed, used, returned, crashes>>
      /\ UNCHANGED <<invoices, charges, tokens, cache, lookup>>
  BY DEF CommitMember, Disable, Continue, account, billing, access
<1>4. IsFiniteSet(members) /\ licensed \in Nat /\ Cardinality(members) \in Nat
  BY FS_CardinalityType DEF Inv, TypeOK
<1>5. Cardinality(members') <= licensed
  <2>1. CASE CommitMember(c)
    <3>1. Cardinality(members) < licensed BY <1>1, <2>1 DEF LocalSerial
    <3>2. PICK u : u = call[c].of OBVIOUS
    <3>3. members' = members \union {u} BY <2>1, <3>2 DEF CommitMember
    <3>4. CASE u \in members
      <4>1. members' = members BY <3>3, <3>4
      <4> QED BY <1>4, <3>1, <4>1
    <3>5. CASE u \notin members
      <4>1. Cardinality(members') = Cardinality(members) + 1 BY <1>4, <3>3, <3>5, FS_AddElement
      <4> QED BY <1>4, <3>1, <4>1
    <3> QED BY <3>4, <3>5
  <2>2. CASE Disable(c)
    <3>1. Cardinality(members) <= licensed BY DEF SerialInv, PartsSerial, LicenceSerial, MembersAreLicensed
    <3>2. members' \subseteq members BY <2>2 DEF Disable
    <3>3. Cardinality(members') <= Cardinality(members) /\ Cardinality(members') \in Nat
      BY <1>4, <3>2, FS_Subset, FS_CardinalityType
    <3> QED BY <1>4, <3>1, <3>3
  <2> QED BY <2>1, <2>2
<1>6. /\ call'[c] = l /\ \A d \in Calls : d # c => call'[d] = call[d]
  BY <1>2, OneMoves
<1>7. LicenceSerial'
  <2>1. PaidSeats' = PaidSeats BY <1>3 DEF PaidSeats, Existing
  <2>2. \A d \in returned : d # c /\ d \in Calls
    BY <1>1 DEF SerialInv, PartsSerial, LicenceSerial, InFlight, Inv, TypeOK
  <2>3. \A d \in returned' : call'[d].step = "done"
    BY <1>3, <1>6, <2>2 DEF SerialInv, PartsSerial, LicenceSerial
  <2>4. MembersAreLicensed' BY <1>3, <1>5 DEF MembersAreLicensed
  <2> QED BY <1>3, <2>1, <2>3, <2>4 DEF SerialInv, PartsSerial, LicenceSerial, LicenceIsPaid
<1>8. BilledSerial' BY <1>2, <1>6 DEF BilledSerial
<1>9. SessionsSerial' /\ AccessSerial' BY <1>1, <1>2, <1>3, SessionsStay, AccessStays
<1>10. LocalSerial(l)' BY <1>2 DEF LocalSerial
<1> QED BY <1>1, <1>2, <1>7, <1>8, <1>9, <1>10, MoveIsSerial DEF PartsSerial

LEMMA CountIsSerial ==
    ASSUME Inv, SerialInv, LookupApart', NEW c \in Calls, CountSeats(c)
    PROVE  SerialInv'
<1> DEFINE count == Cardinality(members)
           less == IF licensed - 1 > count THEN licensed - 1 ELSE count
           value == IF call[c].of THEN less ELSE None
<1>1. c \in InFlight /\ call[c].step = "count" BY DEF CountSeats, At, InFlight
<1>2. count \in Nat /\ licensed \in Nat /\ count <= licensed
  BY FS_CardinalityType DEF Inv, TypeOK, SerialInv, PartsSerial, LicenceSerial, MembersAreLicensed
<1>3. less \in {licensed - 1, licensed} /\ count <= less BY <1>2
<1>4. value # None => value \in {licensed - 1, licensed} /\ count <= value BY <1>3
<1>5. Continue(c, Local("sync", count, value)) /\ UNCHANGED <<account, seats, billing, tokens, access>>
  BY DEF CountSeats
<1> HIDE DEF value, less, count
<1>6. PICK l : l = Local("sync", count, value) OBVIOUS
<1>7. l.step = "sync" /\ l.of = count /\ l.value = value BY <1>6 DEF Local
<1>8. call' = [call EXCEPT ![c] = l] /\ UNCHANGED <<trialOver, crashes>> BY <1>5, <1>6 DEF Continue
<1>9. UNCHANGED <<members, licensed, invoices>> BY <1>5 DEF seats, billing
<1>10. l.of = Cardinality(members) /\ (l.value # None => l.value \in {licensed - 1, licensed} /\ l.of <= l.value)
  BY <1>4, <1>7 DEF count
<1>11. LocalSerial(l)' BY <1>7, <1>9, <1>10 DEF LocalSerial
<1> QED BY <1>1, <1>5, <1>7, <1>8, <1>9, <1>11, QuietIsSerial

LEMMA SyncIsSerial ==
    ASSUME Inv, SerialInv, LookupApart', NEW c \in Calls, SyncSeats(c)
    PROVE  SerialInv'
<1>1. c \in InFlight /\ call[c].step = "sync" /\ LocalSerial(call[c])
  BY DEF SyncSeats, At, InFlight, SerialInv
<1>2. PICK count, value : count = call[c].of /\ value = call[c].value OBVIOUS
<1>3. /\ count = Cardinality(members)
      /\ value # None => value \in {licensed - 1, licensed} /\ count <= value
  BY <1>1, <1>2 DEF LocalSerial
<1>4. /\ call' = [call EXCEPT ![c] = Over] /\ UNCHANGED <<trialOver, crashes>>
      /\ UNCHANGED <<status, renewal, cache, lookup, invoices, tokens, members>>
  BY DEF SyncSeats, Finish, Continue, account, billing, access
<1>5. /\ used' = count
      /\ IF value = None THEN UNCHANGED <<licensed, returned>>
         ELSE /\ licensed' = value
              /\ returned' = IF value < licensed THEN returned \union {c} ELSE returned
  BY <1>2 DEF SyncSeats
<1>6. call'[c] = Over /\ \A d \in Calls : d # c => call'[d] = call[d]
  BY <1>4, OneMoves
<1>7. PaidSeats' = PaidSeats BY <1>4 DEF PaidSeats, Existing
<1>8. /\ licensed \in Nat /\ LicenceIsPaid /\ MembersAreLicensed
      /\ IsFiniteSet(PaidSeats) /\ IsFiniteSet(returned) /\ c \notin returned
      /\ returned \subseteq Calls /\ \A d \in returned : call[d].step = "done"
  BY <1>1 DEF Inv, TypeOK, SerialInv, PartsSerial, LicenceSerial, InFlight
<1>9. Cardinality(returned) \in Nat /\ Cardinality(PaidSeats) \in Nat /\ Cardinality(members) \in Nat
  BY <1>8, FS_CardinalityType DEF Inv
<1>10. LicenceSerial'
  <2>1. CASE licensed' = licensed - 1 /\ returned' = returned \union {c} /\ count <= licensed - 1
    <3>1. IsFiniteSet(returned') /\ Cardinality(returned') = Cardinality(returned) + 1
      BY <1>8, <2>1, FS_AddElement
    <3>2. LicenceIsPaid' BY <1>7, <1>8, <1>9, <2>1, <3>1 DEF LicenceIsPaid
    <3>3. MembersAreLicensed' BY <1>3, <1>4, <2>1 DEF MembersAreLicensed
    <3>4. \A d \in returned' : call'[d].step = "done" BY <1>6, <1>8, <2>1, OverIsOver
    <3> QED BY <1>7, <1>8, <3>1, <3>2, <3>3, <3>4 DEF LicenceSerial
  <2>2. CASE licensed' = licensed /\ returned' = returned
    <3>1. \A d \in returned' : call'[d].step = "done" BY <1>6, <1>8, <2>2, OverIsOver
    <3> QED BY <1>4, <1>7, <1>8, <2>2, <3>1 DEF LicenceSerial, LicenceIsPaid, MembersAreLicensed
  <2> QED BY <1>3, <1>5, <1>8, <2>1, <2>2
<1>11. BilledSerial' BY <1>3, <1>4, <1>5, <1>9 DEF BilledSerial
<1>12. SessionsSerial' /\ AccessSerial'
  BY <1>1, <1>4, OverIsOver, SessionsStay, AccessStays DEF InFlight
<1>13. LocalSerial(Over)' BY OverIsOver, RestingIsSerial
<1> QED BY <1>1, <1>4, <1>10, <1>11, <1>12, <1>13, OverIsOver, MoveIsSerial DEF PartsSerial

\* A call that writes one token.
LEMMA TokenIsSerial ==
    ASSUME Inv, SerialInv, LookupApart', NEW c \in InFlight, NEW l, call' = [call EXCEPT ![c] = l],
           call[c].step \in {"rotate", "issue", "revoke"}, l.step \in {"done", "issue"},
           UNCHANGED <<account, trialOver, seats, billing, access, crashes>>,
           SessionsSerial', LocalSerial(l)'
    PROVE  SerialInv'
<1>1. c \in Calls /\ call[c].step # "done" BY DEF InFlight
<1>2. UNCHANGED <<status, renewal, licensed, used, returned, members, cache, lookup, invoices>>
  BY DEF account, seats, billing, access
<1>3. PaidSeats' = PaidSeats BY <1>2 DEF PaidSeats, Existing
<1>4. PartsSerial'
  BY <1>1, <1>2, <1>3, LicenceStays, BilledStays, AccessStays DEF PartsSerial
<1> QED BY <1>4, MoveIsSerial

LEMMA RotateIsSerial ==
    ASSUME Inv, SerialInv, LookupApart', NEW c \in Calls, Rotate(c)
    PROVE  SerialInv'
<1>1. /\ c \in InFlight /\ call[c].step = "rotate" /\ LocalSerial(call[c]) /\ LocalOK(c, call[c])
  BY DEF Rotate, At, InFlight, SerialInv, Inv
<1>2. PICK t : t = call[c].of OBVIOUS
<1>3. t \in Rows /\ tokens[t] \in TokenRow /\ tokens[t] # None /\ tokens[t].state = "live"
  BY <1>1, <1>2 DEF LocalSerial, LocalOK, OtherOK
<1>4. PICK l : l = Local("issue", tokens[t].user, tokens[t].login) OBVIOUS
<1>5. /\ tokens' = [tokens EXCEPT ![t].state = "exchanged"]
      /\ call' = [call EXCEPT ![c] = l]
      /\ UNCHANGED <<account, trialOver, seats, billing, access, crashes>>
  BY <1>2, <1>4 DEF Rotate, Continue
<1>6. l.step = "issue" /\ l.value = tokens[t].login BY <1>4 DEF Local
<1>7. call'[c] = l /\ \A d \in Calls : d # c => call'[d] = call[d]
  BY <1>5, OneMoves
<1>8. /\ tokens'[t].state = "exchanged" /\ tokens'[t].login = tokens[t].login
      /\ \A o \in Rows : o # t => tokens'[o] = tokens[o]
  BY <1>3, <1>5 DEF Inv, TypeOK, TokenRow
<1>9. \A o \in Existing(tokens)' : o \in Existing(tokens) /\ tokens'[o].login = tokens[o].login
  BY <1>3, <1>8 DEF Existing
<1>10. OneLiveToken /\ LogoutEndsSession /\ t \in Existing(tokens)
  BY <1>3 DEF SerialInv, PartsSerial, SessionsSerial, Existing
<1>11. OneLiveToken'
  BY <1>8, <1>9, <1>10 DEF OneLiveToken, Existing
<1>12. LogoutEndsSession'
  BY <1>8, <1>9, <1>10 DEF LogoutEndsSession, Existing
<1>13. \A o \in Existing(tokens)' : tokens'[o].login \in Calls => call'[tokens'[o].login].step # "idle"
  BY <1>6, <1>7, <1>9 DEF SerialInv, PartsSerial, SessionsSerial
<1>14. SessionsSerial' BY <1>11, <1>12, <1>13 DEF SessionsSerial
<1>15. \A o \in Existing(tokens)' : tokens'[o].login = l.value => tokens'[o].state = "exchanged"
  <2> SUFFICES ASSUME NEW o \in Existing(tokens)', tokens'[o].login = tokens[t].login, o # t
               PROVE  tokens'[o].state = "exchanged"
    BY <1>6, <1>8
  <2>1. o \in Existing(tokens) /\ o \in Rows /\ tokens'[o] = tokens[o] /\ tokens[o].login = tokens[t].login
    BY <1>8, <1>9 DEF Existing
  <2>2. tokens[o].state # "live" /\ tokens[o].state # "revoked"
    BY <1>3, <1>10, <2>1 DEF OneLiveToken, LogoutEndsSession
  <2>3. tokens[o] \in TokenRow BY <2>1 DEF Existing, Inv, TypeOK
  <2> QED BY <2>1, <2>2, <2>3 DEF TokenRow
<1>16. l.value \in Calls => call'[l.value].step # "idle"
  BY <1>6, <1>7, <1>10 DEF SerialInv, PartsSerial, SessionsSerial
<1>17. LocalSerial(l)' BY <1>6, <1>15, <1>16 DEF LocalSerial
<1> QED BY <1>1, <1>5, <1>6, <1>14, <1>17, TokenIsSerial

LEMMA IssueIsSerial ==
    ASSUME Inv, SerialInv, LookupApart', NEW c \in Calls, IssueToken(c)
    PROVE  SerialInv'
<1>1. /\ c \in InFlight /\ call[c].step = "issue" /\ LocalSerial(call[c]) /\ c \in Rows
  BY DEF IssueToken, At, InFlight, SerialInv, Rows
<1>2. PICK user, login : user = call[c].of /\ login = call[c].value OBVIOUS
<1>3. /\ login \in Calls => call[login].step # "idle"
      /\ \A t \in Existing(tokens) : tokens[t].login = login => tokens[t].state = "exchanged"
  BY <1>1, <1>2 DEF LocalSerial
<1>4. /\ tokens' = [tokens EXCEPT ![c] = Token(user, login)] /\ call' = [call EXCEPT ![c] = Over]
      /\ UNCHANGED <<account, trialOver, seats, billing, access, crashes>>
  BY <1>2 DEF IssueToken, Finish, Continue
<1>5. call'[c] = Over /\ \A d \in Calls : d # c => call'[d] = call[d]
  BY <1>4, OneMoves
<1>6. /\ tokens'[c] = Token(user, login) /\ \A o \in Rows : o # c => tokens'[o] = tokens[o]
  BY <1>1, <1>4 DEF Inv, TypeOK
<1>7. tokens'[c].login = login /\ tokens'[c].state = "live" BY <1>6 DEF Token
<1>8. \A o \in Existing(tokens)' : o # c => o \in Existing(tokens) /\ tokens'[o] = tokens[o]
  BY <1>6 DEF Existing
<1>9. OneLiveToken /\ LogoutEndsSession BY DEF SerialInv, PartsSerial, SessionsSerial
<1>10. OneLiveToken'
  <2> SUFFICES ASSUME NEW t \in Existing(tokens)', NEW o \in Existing(tokens)', tokens'[t].state = "live",
                      tokens'[o].state = "live", tokens'[t].login = tokens'[o].login
               PROVE  t = o
    BY DEF OneLiveToken
  <2>1. CASE t = c \/ o = c BY <1>3, <1>7, <1>8, <2>1
  <2>2. CASE t # c /\ o # c BY <1>8, <1>9, <2>2 DEF OneLiveToken
  <2> QED BY <2>1, <2>2
<1>11. LogoutEndsSession'
  <2> SUFFICES ASSUME NEW t \in Existing(tokens)', NEW o \in Existing(tokens)', tokens'[t].state = "revoked",
                      tokens'[t].login = tokens'[o].login
               PROVE  tokens'[o].state # "live"
    BY DEF LogoutEndsSession
  <2>1. t # c BY <1>7
  <2>2. CASE o = c BY <1>3, <1>7, <1>8, <2>1, <2>2
  <2>3. CASE o # c BY <1>8, <1>9, <2>1, <2>3 DEF LogoutEndsSession
  <2> QED BY <2>2, <2>3
<1>12. ASSUME NEW o \in Existing(tokens)', tokens'[o].login \in Calls PROVE call'[tokens'[o].login].step # "idle"
  <2>1. call[tokens'[o].login].step # "idle"
    BY <1>3, <1>7, <1>8, <1>12 DEF SerialInv, PartsSerial, SessionsSerial
  <2> QED BY <1>5, <1>12, <2>1, OverIsOver
<1>13. SessionsSerial' BY <1>10, <1>11, <1>12 DEF SessionsSerial
<1>14. LocalSerial(Over)' BY OverIsOver, RestingIsSerial
<1> QED BY <1>1, <1>4, <1>13, <1>14, OverIsOver, TokenIsSerial

LEMMA RevokeIsSerial ==
    ASSUME Inv, SerialInv, LookupApart', NEW c \in Calls, Revoke(c)
    PROVE  SerialInv'
<1>1. /\ c \in InFlight /\ call[c].step = "revoke" /\ LocalOK(c, call[c])
  BY DEF Revoke, At, InFlight, Inv
<1>2. PICK t : t = call[c].of OBVIOUS
<1>3. t \in Rows /\ tokens[t] \in TokenRow /\ tokens[t] # None
  BY <1>1, <1>2 DEF LocalOK, OtherOK
<1> DEFINE state == IF tokens[t].state = "live" THEN "revoked" ELSE tokens[t].state
<1>4. /\ tokens' = [tokens EXCEPT ![t].state = state] /\ call' = [call EXCEPT ![c] = Over]
      /\ UNCHANGED <<account, trialOver, seats, billing, access, crashes>>
  BY <1>2 DEF Revoke, Finish, Continue
<1>5. call'[c] = Over /\ \A d \in Calls : d # c => call'[d] = call[d]
  BY <1>4, OneMoves
<1>6. /\ tokens'[t].state = state /\ tokens'[t].login = tokens[t].login
      /\ \A o \in Rows : o # t => tokens'[o] = tokens[o]
  BY <1>3, <1>4 DEF Inv, TypeOK, TokenRow
<1>7. \A o \in Existing(tokens)' : o \in Existing(tokens) /\ tokens'[o].login = tokens[o].login
  BY <1>3, <1>6 DEF Existing
<1>8. OneLiveToken /\ LogoutEndsSession /\ t \in Existing(tokens)
  BY <1>3 DEF SerialInv, PartsSerial, SessionsSerial, Existing
<1>9. \A o \in Existing(tokens)' : tokens'[o].state = "live" => o # t /\ tokens'[o] = tokens[o]
  BY <1>6 DEF Existing
<1>10. OneLiveToken' BY <1>7, <1>8, <1>9 DEF OneLiveToken
<1>11. LogoutEndsSession'
  <2> SUFFICES ASSUME NEW a \in Existing(tokens)', NEW o \in Existing(tokens)', tokens'[a].state = "revoked",
                      tokens'[a].login = tokens'[o].login, tokens'[o].state = "live"
               PROVE  FALSE
    BY DEF LogoutEndsSession
  <2>1. o # t /\ tokens[o].state = "live" /\ o \in Existing(tokens) /\ a \in Existing(tokens)
    BY <1>7, <1>9
  <2>2. tokens[a].login = tokens[o].login BY <1>7
  <2>3. CASE a = t
    <3>1. tokens[t].state # "live" BY <1>8, <2>1, <2>2, <2>3 DEF OneLiveToken
    <3>2. tokens[t].state = "revoked" BY <1>6, <2>3, <3>1
    <3> QED BY <1>8, <2>1, <2>2, <2>3, <3>2 DEF LogoutEndsSession
  <2>4. CASE a # t
    <3>1. tokens[a].state = "revoked" BY <1>6, <2>1, <2>4 DEF Existing
    <3> QED BY <1>8, <2>1, <2>2, <3>1 DEF LogoutEndsSession
  <2> QED BY <2>3, <2>4
<1>12. \A o \in Existing(tokens)' : tokens'[o].login \in Calls => call'[tokens'[o].login].step # "idle"
  BY <1>5, <1>7, OverIsOver DEF SerialInv, PartsSerial, SessionsSerial
<1>13. SessionsSerial' BY <1>10, <1>11, <1>12 DEF SessionsSerial
<1>14. LocalSerial(Over)' BY OverIsOver, RestingIsSerial
<1> QED BY <1>1, <1>4, <1>13, <1>14, OverIsOver, TokenIsSerial

\* The tenant's standing changes while nobody looks it up, and then the answer goes.
LEMMA StandingIsSerial ==
    ASSUME Inv, SerialInv, LookupApart', NEW c \in Calls, CommitStanding(c) \/ Invalidate(c)
    PROVE  SerialInv'
<1>1. /\ c \in InFlight /\ call[c].step \in {"standing", "invalidate"} /\ call[c].step # "done"
      /\ CommitStanding(c) => call[c].step = "standing"
      /\ lookup.step = "idle"
  BY LookupIsIdle DEF CommitStanding, Invalidate, At, InFlight
<1>2. PICK l : /\ call' = [call EXCEPT ![c] = l] /\ l.step \in {"done", "invalidate"}
               /\ CommitStanding(c) => l.step = "invalidate"
               /\ Invalidate(c) => l.step = "done"
  <2>1. Local("invalidate", None, None).step = "invalidate" BY DEF Local
  <2>2. CASE CommitStanding(c)
    <3>1. call[c].step = "standing" BY <1>1, <2>2
    <3>2. ~ Invalidate(c) BY <3>1 DEF Invalidate, At
    <3> QED BY <2>1, <2>2, <3>2 DEF CommitStanding, Continue
  <2>3. CASE Invalidate(c) /\ ~ CommitStanding(c)
    BY <2>3, OverIsOver DEF Invalidate, Finish, Continue
  <2> QED BY <2>2, <2>3
<1>3. UNCHANGED <<trialOver, crashes, licensed, used, returned, members, invoices, tokens, lookup>>
  BY DEF CommitStanding, Invalidate, Finish, Continue, seats, billing, access
<1>4. call'[c] = l /\ \A d \in Calls : d # c => call'[d] = call[d] BY <1>2, OneMoves
<1>5. PaidSeats' = PaidSeats BY <1>3 DEF PaidSeats, Existing
<1>6. LicenceSerial' /\ BilledSerial' /\ SessionsSerial'
  BY <1>1, <1>2, <1>3, <1>5, LicenceStays, BilledStays, SessionsStay
<1>7. AccessSerial'
  <2>1. CASE CommitStanding(c) BY <1>1, <1>2, <1>3, <1>4, <2>1 DEF AccessSerial
  <2>2. CASE Invalidate(c)
    <3>1. cache' = None BY <2>2 DEF Invalidate
    <3> QED BY <1>1, <1>3, <3>1 DEF AccessSerial, Current
  <2> QED BY <2>1, <2>2
<1>8. LocalSerial(l)' BY <1>2 DEF LocalSerial
<1> QED BY <1>1, <1>2, <1>6, <1>7, <1>8, MoveIsSerial DEF PartsSerial

LEMMA FailIsSerial ==
    ASSUME Inv, SerialInv, LookupApart', NEW c \in Calls, Fail(c)
    PROVE  SerialInv'
<1>1. /\ c \in InFlight /\ call[c].step # "invalidate" /\ crashes' = crashes + 1 /\ crashes \in Nat
      /\ call' = [call EXCEPT ![c] = Over]
      /\ UNCHANGED <<account, trialOver, seats, billing, tokens, access>>
  BY DEF Fail, At, Inv, TypeOK
<1>2. crashes' # 0 BY <1>1
<1>3. LocalSerial(Over)' BY OverIsOver, RestingIsSerial
<1> QED BY <1>1, <1>2, <1>3, OverIsOver, QuietIsSerial DEF billing

-----------------------------------------------------------------------------
(* What happens around the one call                                         *)

\* No call moves, and what calls have read is not written.
LEMMA StillIsSerial ==
    ASSUME Inv, SerialInv, UNCHANGED <<call, licensed, used, returned, members, invoices, tokens, crashes>>,
           LookupApart', AccessSerial'
    PROVE  SerialInv'
<1>1. PaidSeats' = PaidSeats /\ Existing(tokens)' = Existing(tokens) BY DEF PaidSeats, Existing
<1>2. LicenceSerial'
  BY <1>1 DEF SerialInv, PartsSerial, LicenceSerial, LicenceIsPaid, MembersAreLicensed
<1>3. BilledSerial' BY DEF SerialInv, PartsSerial, BilledSerial
<1>4. SessionsSerial'
  BY <1>1 DEF SerialInv, PartsSerial, SessionsSerial, OneLiveToken, LogoutEndsSession
<1>5. InOrder' BY DEF SerialInv, InOrder
<1>6. ASSUME NEW d \in Calls PROVE LocalSerial(call[d])'
  <2>1. PICK k : k = call'[d] /\ k = call[d] /\ LocalSerial(k) BY DEF SerialInv
  <2>2. LocalSerial(k)' BY <1>1, <2>1 DEF LocalSerial
  <2> QED BY <2>1, <2>2
<1> QED BY <1>2, <1>3, <1>4, <1>5, <1>6 DEF SerialInv, PartsSerial

\* A date that passes makes an answer too kind by "active" for "readonly" only.
LEMMA DatesPass ==
    ASSUME Inv, NEW answer, Current(answer), UNCHANGED status,
           trialOver => trialOver', renewal = "passed" => renewal' = "passed"
    PROVE  Current(answer)'
BY DEF Current, Access, Inv, TypeOK

LEMMA TimeIsSerial ==
    ASSUME Inv, SerialInv, LookupApart', Clock \/ Lookup
    PROVE  SerialInv'
<1>1. UNCHANGED <<status, call, licensed, used, returned, members, invoices, tokens, crashes>>
  BY DEF Clock, RenewalPasses, TrialEnds, CacheExpires, Pass, Lookup, ReadStatus, ComputeAccess, StoreAccess,
         Look, account, seats, billing
<1>2. AccessSerial BY DEF SerialInv, PartsSerial
<1>3. AccessSerial'
  <2>1. CASE RenewalPasses \/ TrialEnds
    <3>1. /\ trialOver => trialOver'
          /\ renewal = "passed" => renewal' = "passed"
          /\ UNCHANGED <<cache, lookup>>
      BY <2>1 DEF RenewalPasses, TrialEnds, Pass, access
    <3>2. PICK held, found : held = cache /\ found = lookup OBVIOUS
    <3>3. Current(held) => Current(held)' BY <1>1, <3>1, DatesPass
    <3>4. Current(found.value) => Current(found.value)' BY <1>1, <3>1, DatesPass
    <3>5. Current(cache) => Current(cache)' BY <3>1, <3>2, <3>3
    <3>6. Current(lookup.value) => Current(lookup.value)' BY <3>1, <3>2, <3>4
    <3> QED BY <1>1, <1>2, <3>1, <3>5, <3>6 DEF AccessSerial
  <2>2. CASE CacheExpires
    <3>1. cache' = None /\ UNCHANGED <<lookup, trialOver, renewal>> BY <2>2 DEF CacheExpires, account
    <3> QED BY <1>1, <1>2, <3>1 DEF AccessSerial, Current
  <2>3. CASE ReadStatus
    <3>1. lookup' = Local("status", status, None) /\ UNCHANGED <<cache, trialOver, renewal>>
      BY <2>3 DEF ReadStatus, Look, account
    <3>2. lookup'.step = "status" /\ lookup'.of = status BY <3>1 DEF Local
    <3> QED BY <1>1, <1>2, <3>1, <3>2 DEF AccessSerial, Current
  <2>4. CASE ComputeAccess
    <3>1. /\ lookup' = Local("store", None, Access(lookup.of, trialOver, renewal)) /\ lookup.of = status
          /\ UNCHANGED <<cache, trialOver, renewal>>
      BY <1>2, <2>4 DEF ComputeAccess, Look, account, AccessSerial
    <3>2. lookup'.step = "store" /\ lookup'.value = Access(status, trialOver, renewal) BY <3>1 DEF Local
    <3>3. Current(lookup.value)' BY <1>1, <3>1, <3>2 DEF Current
    <3>4. Current(cache) => Current(cache)' BY <1>1, <3>1 DEF Current
    <3> QED BY <1>1, <1>2, <3>2, <3>3, <3>4 DEF AccessSerial
  <2>5. CASE StoreAccess
    <3>1. Current(lookup.value) BY <1>2, <2>5 DEF StoreAccess, AccessSerial
    <3>2. cache' = lookup.value /\ lookup' = Idle /\ UNCHANGED <<trialOver, renewal>>
      BY <2>5 DEF StoreAccess, account
    <3>3. Current(cache)' BY <1>1, <3>1, <3>2 DEF Current
    <3>4. lookup'.step = "idle" BY <3>2 DEF Idle, Local
    <3> QED BY <3>3, <3>4 DEF AccessSerial
  <2> QED BY <2>1, <2>2, <2>3, <2>4, <2>5 DEF Clock, Lookup
<1> QED BY <1>1, <1>3, StillIsSerial

LEMMA PaymentIsSerial ==
    ASSUME Inv, SerialInv, LookupApart', Customer \/ UNCHANGED vars
    PROVE  SerialInv'
<1>1. /\ UNCHANGED <<status, renewal, trialOver, cache, lookup>>
      /\ UNCHANGED <<call, licensed, used, returned, members, invoices, tokens, crashes>>
  BY DEF Customer, Settle, vars, account, seats, billing, access
<1>2. AccessSerial' BY <1>1 DEF SerialInv, PartsSerial, AccessSerial, Current
<1> QED BY <1>1, <1>2, StillIsSerial

\* The process restarts: what it was doing is over, and what it remembered is gone.
LEMMA RestartIsSerial ==
    ASSUME Inv, SerialInv, LookupApart', Restart
    PROVE  SerialInv'
<1>1. /\ call' = [c \in Calls |-> IF c \in InFlight THEN Over ELSE call[c]]
      /\ crashes' = crashes + 1 /\ crashes \in Nat /\ cache' = None /\ lookup' = Idle
      /\ UNCHANGED <<licensed, used, returned, members, invoices, tokens>>
  BY DEF Restart, Inv, TypeOK, seats, billing
<1>2. \A d \in Calls : /\ call'[d].step \in {"idle", "done"}
                       /\ call'[d].step = "idle" <=> call[d].step = "idle"
                       /\ call[d].step = "done" => call'[d].step = "done"
  BY <1>1, OverIsOver DEF InFlight
<1>3. crashes' # 0 BY <1>1
<1>4. PaidSeats' = PaidSeats /\ Existing(tokens)' = Existing(tokens) BY <1>1 DEF PaidSeats, Existing
<1>5. \A d \in returned' : call'[d].step = "done"
  BY <1>1, <1>2 DEF SerialInv, PartsSerial, LicenceSerial, Inv, TypeOK
<1>6. LicenceSerial'
  BY <1>1, <1>4, <1>5 DEF SerialInv, PartsSerial, LicenceSerial, LicenceIsPaid, MembersAreLicensed
<1>7. BilledSerial' BY <1>3 DEF BilledSerial
<1>8. SessionsSerial'
  <2>1. OneLiveToken' /\ LogoutEndsSession'
    BY <1>1, <1>4 DEF SerialInv, PartsSerial, SessionsSerial, OneLiveToken, LogoutEndsSession
  <2>2. \A t \in Existing(tokens)' : tokens'[t].login \in Calls => call'[tokens'[t].login].step # "idle"
    BY <1>1, <1>2, <1>4 DEF SerialInv, PartsSerial, SessionsSerial
  <2> QED BY <2>1, <2>2 DEF SessionsSerial
<1>9. lookup'.step = "idle" BY <1>1 DEF Idle, Local
<1>10. AccessSerial' BY <1>1, <1>9 DEF AccessSerial, Current
<1>11. InOrder'
  <2> SUFFICES ASSUME NEW a \in Calls, NEW b \in Calls, b < a, call'[a].step # "idle"
               PROVE  call'[b].step = "done"
    BY DEF InOrder
  <2>1. call[a].step # "idle" BY <1>2
  <2>2. call[b].step = "done" BY <2>1 DEF SerialInv, InOrder
  <2> QED BY <1>2, <2>2
<1>12. ASSUME NEW d \in Calls PROVE LocalSerial(call[d])'
  <2>1. PICK k : k = call'[d] /\ k.step \in {"idle", "done"} BY <1>2
  <2>2. LocalSerial(k)' BY <2>1, RestingIsSerial
  <2> QED BY <2>1, <2>2
<1> QED BY <1>6, <1>7, <1>8, <1>10, <1>11, <1>12 DEF SerialInv, PartsSerial

LEMMA NextIsSerial == Inv /\ SerialInv /\ OneInFlight' /\ LookupApart' /\ [Next]_vars => SerialInv'
<1> SUFFICES ASSUME Inv, SerialInv, OneInFlight', LookupApart', [Next]_vars PROVE SerialInv'
  OBVIOUS
<1>1. ASSUME NEW c \in Calls, Step(c) PROVE SerialInv'
  <2>1. CASE CreateInvoice(c) \/ CreateCharge(c) \/ StoreCharge(c) BY <2>1, CheckoutIsSerial
  <2>2. CASE Retrieve(c) \/ Mark(c) \/ Activate(c)
    BY <2>2, RetrieveIsSerial, MarkIsSerial, ActivateIsSerial
  <2>3. CASE CommitMember(c) \/ Disable(c) BY <2>3, HireIsSerial
  <2>4. CASE CountSeats(c) \/ SyncSeats(c) BY <2>4, CountIsSerial, SyncIsSerial
  <2>5. CASE Rotate(c) \/ IssueToken(c) \/ Revoke(c)
    BY <2>5, RotateIsSerial, IssueIsSerial, RevokeIsSerial
  <2>6. CASE CommitStanding(c) \/ Invalidate(c) BY <2>6, StandingIsSerial
  <2> QED BY <1>1, <2>1, <2>2, <2>3, <2>4, <2>5, <2>6 DEF Step
<1>2. ASSUME NEW c \in Calls, Accept(c) \/ Fail(c) PROVE SerialInv'
  BY <1>2, AcceptIsSerial, FailIsSerial
<1>3. CASE Customer \/ UNCHANGED vars BY <1>3, PaymentIsSerial
<1>4. CASE Clock \/ Lookup BY <1>4, TimeIsSerial
<1>5. CASE Restart BY <1>5, RestartIsSerial
<1> QED BY <1>1, <1>2, <1>3, <1>4, <1>5 DEF Next

LEMMA InitIsSerial == Init => SerialInv
<1> SUFFICES ASSUME Init PROVE SerialInv
  OBVIOUS
<1>1. \A c \in Calls : call[c].step = "idle" BY DEF Init, Idle, Local
<1>2. InOrder /\ LookupApart BY <1>1 DEF InOrder, LookupApart, Init, Idle, Local
<1>3. \A i \in Existing(invoices) : invoices[i].status # "PAID"
  BY DEF Init, Existing, Invoice
<1>4. PaidSeats = {} /\ returned = {} BY <1>3 DEF PaidSeats, Init
<1>5. Cardinality(PaidSeats) = 0 /\ IsFiniteSet(PaidSeats) /\ IsFiniteSet(returned) /\ Cardinality(returned) = 0
  BY <1>4, FS_EmptySet
<1>6. /\ licensed = Seats /\ used = Seats /\ members = Staff /\ Cardinality(Staff) \in Nat
  BY FS_CardinalityType DEF Init
<1>7. LicenceSerial
  BY <1>4, <1>5, <1>6 DEF LicenceSerial, LicenceIsPaid, MembersAreLicensed
<1>8. BilledSerial BY <1>6 DEF BilledSerial
<1>9. \A t \in Existing(tokens) : t = 0 /\ tokens[t].login = 0 /\ tokens[t].state = "live"
  BY DEF Init, Existing, Token
<1>10. SessionsSerial
  BY <1>9 DEF SessionsSerial, OneLiveToken, LogoutEndsSession
<1>11. AccessSerial BY DEF Init, AccessSerial, Current, Idle, Local
<1>12. \A c \in Calls : LocalSerial(call[c]) BY <1>1 DEF LocalSerial
<1> QED BY <1>2, <1>7, <1>8, <1>10, <1>11, <1>12 DEF SerialInv, PartsSerial

\* A set with one element at most that grows by one, and is still that small.
LEMMA AtMostOneMore ==
    ASSUME NEW S, \A a, b \in S : a = b, NEW x, NEW T \in SUBSET (S \union {x}), Cardinality(T) <= 1
    PROVE  \A a, b \in T : a = b
<1> SUFFICES ASSUME NEW a \in T, NEW b \in T, a # b
             PROVE  FALSE
  OBVIOUS
<1>1. T = {a} \union {b}
  OBVIOUS
<1>2. IsFiniteSet({a}) /\ Cardinality({a}) = 1
  BY FS_Singleton
<1>3. b \notin {a}
  OBVIOUS
<1>4. Cardinality({a} \union {b}) = Cardinality({a}) + 1
  BY <1>2, <1>3, FS_AddElement, Zenon
<1> QED BY <1>1, <1>2, <1>4

LEMMA OneCallMoves ==
    ASSUME Next
    PROVE  \/ \E c \in Calls : \E l : call' = [call EXCEPT ![c] = l]
           \/ UNCHANGED call
           \/ Restart
<1>1. ASSUME NEW c \in Calls, Accept(c) PROVE \E l : call' = [call EXCEPT ![c] = l]
  <2>1. \E l : Begin(c, l)
    BY <1>1 DEF Accept, Checkout, Confirm, Webhook, CreateMember, Login, Offboard, Refresh, Logout, SetStatus,
                SetRenewal
  <2> QED BY <2>1 DEF Begin
<1>2. ASSUME NEW c \in Calls, Step(c) PROVE \E l : call' = [call EXCEPT ![c] = l]
  <2>1. \E l : Continue(c, l)
    BY <1>2 DEF Step, CreateInvoice, CreateCharge, StoreCharge, Retrieve, Mark, Activate, CommitMember, Disable,
                CountSeats, SyncSeats, Rotate, IssueToken, Revoke, CommitStanding, Invalidate, Finish
  <2> QED BY <2>1 DEF Continue
<1>3. ASSUME NEW c \in Calls, Fail(c) PROVE \E l : call' = [call EXCEPT ![c] = l]
  BY <1>3 DEF Fail
<1>4. Customer => UNCHANGED call BY DEF Customer, Settle
<1>5. Clock => UNCHANGED call BY DEF Clock, RenewalPasses, TrialEnds, Pass, CacheExpires
<1>6. Lookup => UNCHANGED call BY DEF Lookup, ReadStatus, ComputeAccess, StoreAccess, Look
<1> QED BY <1>1, <1>2, <1>3, <1>4, <1>5, <1>6 DEF Next

\* Served one at a time, no two calls are between their read and their write.
LEMMA OneInFlightStays ==
    ASSUME Inv, SerialInv, [Next]_vars, UNCHANGED load, Within' \/ UNCHANGED vars, Serial
    PROVE  OneInFlight' /\ LookupApart'
<1>1. \A a, b \in InFlight : a = b
  <2> SUFFICES ASSUME NEW a \in InFlight, NEW b \in InFlight, a # b
               PROVE  FALSE
    OBVIOUS
  <2>1. a \in Calls /\ b \in Calls BY DEF InFlight
  <2>2. a \in Nat /\ b \in Nat /\ (a < b \/ b < a) BY <2>1
  <2> QED BY <2>1, <2>2 DEF SerialInv, InOrder, InFlight
<1>2. CASE UNCHANGED vars
  BY <1>1, <1>2 DEF vars, access, OneInFlight, LookupApart, InFlight, SerialInv
<1>3. CASE Within' /\ Next
  <2>1. Cardinality(InFlight') <= 1 /\ LookupApart'
    BY <1>3 DEF Within, Serial, LookupApart, Idle, Local
  <2>2. CASE \E c \in Calls : \E l : call' = [call EXCEPT ![c] = l]
    <3>1. PICK c \in Calls : \E l : call' = [call EXCEPT ![c] = l] BY <2>2
    <3>2. InFlight' \subseteq InFlight \union {c} BY <3>1 DEF Inv, InFlight
    <3>3. InFlight' \in SUBSET (InFlight \union {c}) BY <3>2
    <3>4. \A a, b \in InFlight' : a = b BY <1>1, <2>1, <3>3, AtMostOneMore
    <3> QED BY <2>1, <3>4 DEF OneInFlight
  <2>3. CASE UNCHANGED call BY <1>1, <2>1, <2>3 DEF OneInFlight, InFlight
  <2>4. CASE Restart
    <3>1. InFlight' = {} BY <2>4, OverIsOver DEF Restart, InFlight
    <3> QED BY <2>1, <3>1 DEF OneInFlight
  <2> QED BY <1>3, <2>2, <2>3, <2>4, OneCallMoves
<1> QED BY <1>2, <1>3

\* What holds when calls are served one at a time, however many there are, and
\* whichever of them fail or are lost with the process.
THEOREM SerialCallsSafe == MCSpec => [](Serial => SerialInv)
<1>1. MCInit => Init
  BY DEF MCInit
<1>2. MCSpec => []Inv
  <2>1. [MCNext]_MCVars => [Next]_vars
    BY DEF MCNext, MCVars
  <2>2. MCSpec => Spec BY <1>1, <2>1, PTL DEF MCSpec, Spec
  <2> QED BY <2>2, AccountSafe, PTL
<1>3. Inv /\ (Serial => SerialInv) /\ [MCNext]_MCVars => (Serial => SerialInv)'
  <2> SUFFICES ASSUME Inv, Serial => SerialInv, [MCNext]_MCVars, Serial'
               PROVE  SerialInv'
    OBVIOUS
  <2>1. UNCHANGED load /\ [Next]_vars /\ (Within' \/ UNCHANGED vars)
    BY DEF MCNext, MCVars
  <2>2. Serial /\ SerialInv
    BY <2>1 DEF Serial
  <2>3. OneInFlight' /\ LookupApart'
    BY <2>1, <2>2, OneInFlightStays
  <2> QED BY <2>1, <2>2, <2>3, NextIsSerial
<1>4. MCInit => (Serial => SerialInv)
  BY <1>1, InitIsSerial
<1> QED BY <1>2, <1>3, <1>4, PTL DEF MCSpec

\* plan-seats.e2e-spec.ts, staff.service.ts: the licence is what was signed up and
\* paid for less what was given back, no more members than it allows, and between
\* calls the next checkout bills them all unless a call has died; for any number of
\* calls served one at a time.
THEOREM SerialSeatsAlwaysPaid == MCSpec => []SerialSeatsArePaid
<1>1. SerialInv => LicenceIsPaid /\ MembersAreLicensed
  BY DEF SerialInv, PartsSerial, LicenceSerial
<1>2. SerialInv /\ crashes = 0 => MembersAreBilled
  BY DEF SerialInv, PartsSerial, BilledSerial, MembersAreBilled, InFlight
<1>3. (Serial => SerialInv) => SerialSeatsArePaid
  BY <1>1, <1>2 DEF SerialSeatsArePaid
<1> QED BY <1>3, SerialCallsSafe, PTL

\* auth-refresh.e2e-spec.ts: a login has one live token, and none after a logout,
\* for any number of refreshes and logouts served one at a time.
THEOREM SerialSessionsAlwaysEnd == MCSpec => []SerialSessionsEnd
<1>1. (Serial => SerialInv) => SerialSessionsEnd
  BY DEF SerialSessionsEnd, SerialInv, PartsSerial, SessionsSerial
<1> QED BY <1>1, SerialCallsSafe, PTL

\* billing.e2e-spec.ts, platform.service.ts: an old payment lifts no suspension, and
\* between calls a cached answer is right but for a date that has passed since.
THEOREM SerialSuspensionAlwaysHolds == MCSpec => SerialSuspensionHolds
<1>1. Inv /\ SerialInv /\ Next => SuspensionHolds
  <2> SUFFICES ASSUME Inv, SerialInv, Next, status = "SUSPENDED", status' = "ACTIVE"
               PROVE  \/ \E c \in Calls : At(c, "standing")
                      \/ \E i \in Existing(invoices) : invoices[i].status # "PAID" /\ invoices'[i].status = "PAID"
    BY DEF SuspensionHolds
  <2>1. ASSUME NEW c \in Calls, Accept(c) \/ Fail(c) PROVE status' = status
    BY <2>1 DEF Accept, Checkout, Confirm, Webhook, CreateMember, Login, Offboard, Refresh, Logout, SetStatus,
                SetRenewal, Begin, Fail, account
  <2>2. ASSUME NEW c \in Calls, Step(c) PROVE status' = status \/ Activate(c) \/ CommitStanding(c)
    BY <2>2 DEF Step, CreateInvoice, CreateCharge, StoreCharge, Retrieve, Mark, CommitMember, Disable,
                CountSeats, SyncSeats, Rotate, IssueToken, Revoke, Invalidate, account
  <2>3. Customer \/ Clock \/ Lookup \/ Restart => status' = status
    BY DEF Customer, Settle, Clock, RenewalPasses, TrialEnds, Pass, CacheExpires, Lookup, ReadStatus,
           ComputeAccess, StoreAccess, Look, Restart, account
  <2>4. PICK c \in Calls : Activate(c) \/ CommitStanding(c)
    BY <2>1, <2>2, <2>3 DEF Next
  <2>5. CASE CommitStanding(c) BY <2>5 DEF CommitStanding
  <2>6. CASE Activate(c)
    <3>1. LocalSerial(call[c]) /\ LocalOK(c, call[c]) /\ call[c].step = "activate"
      BY <2>6 DEF SerialInv, Inv, Activate, At
    <3>2. PICK i : i = call[c].of OBVIOUS
    <3>3. i \in Rows /\ invoices[i] \in InvoiceRow /\ invoices[i].status # "PAID"
      BY <3>1, <3>2 DEF LocalSerial, LocalOK, OtherOK, Known
    <3>4. invoices' = [invoices EXCEPT ![i].status = "PAID"] BY <2>6, <3>2 DEF Activate
    <3>5. invoices'[i].status = "PAID" BY <3>3, <3>4 DEF Inv, TypeOK, InvoiceRow
    <3> QED BY <3>3, <3>5 DEF Existing
  <2> QED BY <2>4, <2>5, <2>6
<1>2. SerialInv' => CacheIsCurrent'
  BY DEF SerialInv, PartsSerial, AccessSerial, Current, CacheIsCurrent, InFlight
<1>3. /\ Inv /\ (Serial => SerialInv) /\ (Serial => SerialInv)' /\ [MCNext]_MCVars
      => [Serial => SuspensionHolds /\ CacheIsCurrent']_vars
  BY <1>1, <1>2 DEF MCNext, MCVars, Serial
<1>4. MCSpec => []Inv
  <2>1. [MCNext]_MCVars => [Next]_vars BY DEF MCNext, MCVars
  <2>2. MCInit => Init BY DEF MCInit
  <2>3. MCSpec => Spec BY <2>1, <2>2, PTL DEF MCSpec, Spec
  <2> QED BY <2>3, AccountSafe, PTL
<1> QED BY <1>3, <1>4, SerialCallsSafe, PTL DEF MCSpec, SerialSuspensionHolds
=============================================================================
