------------------------ MODULE PolicyApproval_proofs ------------------------
(***************************************************************************)
(* What holds of PolicyApproval for every number of calls, users and       *)
(* steps, for every set of configurations and every degree of concurrency. *)
(*                                                                         *)
(* A call writes what it made of a policy that others may have rewritten   *)
(* since. The invariant says why that skips no approval: signatures only   *)
(* grow, and what a call is about to write leaves out only required        *)
(* approvals that are signed, or that it signs itself.                     *)
(*                                                                         *)
(* Served one at a time, what a call has read of its policy is what it     *)
(* writes over, a posted policy stays ISSUED or becomes CANCELLED, and     *)
(* approvals that a revert voided are pending again or signed anew.        *)
(***************************************************************************)
EXTENDS MCPolicyApproval, FiniteSetTheorems, TLAPS

\* A required step is still on a list, or somebody has signed it.
StepsKept(p, pending) == \A s \in AlwaysSteps : s \in pending \/ Signed(p, s)

GateKept(p) == AlwaysGated => Signed(p, "technical")

AllSigned(p) == \A gate \in Required : Signed(p, gate)

\* A policy that waits for finance, or has posted, lost no required approval, and
\* one that is or was issued has posted.
PolicyKept(p) ==
    /\ policy[p].status \in {"FINANCE_REVIEW", "ISSUED"} =>
           StepsKept(p, policy[p].pending) /\ GateKept(p)
    /\ Posted(p) => AllSigned(p)
    /\ Issued(p) => Posted(p)

\* Nor does what a call c with the local variables l is about to write.
LocalKept(c, l) ==
    /\ l.step \in {"technical", "step", "books", "revert", "cancel"} => l.policy \in Calls
    /\ l.step \in {"issue", "log", "technical", "step", "books"} => l.user \in Users
    /\ l.step = "unaward" => l.status \in {"DRAFT", "QUOTING"}
    /\ l.step = "issue" => l.status \in {"TECHNICAL_REVIEW", "FINANCE_REVIEW"}
    /\ l.step = "issue" /\ l.status = "FINANCE_REVIEW" => ~ AlwaysGated /\ AlwaysSteps \subseteq l.pending
    /\ l.step = "technical" => l.gate = "technical" /\ AlwaysSteps \subseteq l.pending
    /\ l.step = "step" => l.gate \in Steps
    /\ l.step = "step" => \A s \in AlwaysSteps : s \in l.pending \/ s = l.gate \/ Signed(l.policy, s)
    /\ l.step = "books" => l.gate = "finance" /\ AllSigned(l.policy)
    /\ l.step = "cancel" => Posted(l.policy)

Kept == \A p \in Calls : PolicyKept(p) /\ LocalKept(p, call[p])

\* A request that shows as ISSUED has a policy that is, or was, issued.
RequestKept == request = "ISSUED" => \E p \in Calls : Issued(p)

Inv == TypeOK /\ RequestKept /\ Kept

\* The variables whose values the argument needs the type of only.
RestOK ==
    /\ config \in Configs
    /\ request \in RequestStatus
    /\ issuer \in [Calls -> Users \union {None}]
    /\ issuerLog \in [Calls -> Users \union {None}]
    /\ voided \in [Calls -> SUBSET Calls]
    /\ awards \in Nat
    /\ crashes \in 0..MaxCrashes

-----------------------------------------------------------------------------
(* Frames                                                                   *)

\* The steps every configuration has are in each configuration.
LEMMA ConfigHasSteps ==
    ASSUME NEW k \in Configs
    PROVE  AlwaysSteps \subseteq k.steps /\ k.steps \subseteq Steps /\ (AlwaysGated => k.gate)
<1>1. k \in [gate : BOOLEAN, sod : BOOLEAN, techSod : BOOLEAN, steps : SUBSET Steps]
  BY ConfigsAssumption
<1> QED BY <1>1 DEF AlwaysSteps, AlwaysGated

\* Required approvals are the technical gate and steps, never the financial one.
LEMMA RequiredGates ==
    \A gate \in Required : gate \in AlwaysSteps \/ (gate = "technical" /\ AlwaysGated)
BY DEF Required

\* Signatures only grow, so what is kept by the local variables stays kept.
LEMMA LocalStaysKept ==
    ASSUME NEW c \in Calls, NEW l, LocalKept(c, l),
           \A p \in Calls : signed[p] \subseteq signed'[p]
    PROVE  LocalKept(c, l)'
<1>1. \A p \in Calls, gate \in Gates : Signed(p, gate) => Signed(p, gate)'
  BY DEF Signed
<1>2. AlwaysSteps \subseteq Gates /\ Required \subseteq Gates
  BY DEF AlwaysSteps, Required, Gates
<1>3. l.step = "step" => l.policy \in Calls
  BY DEF LocalKept
<1>4. l.step = "books" => l.policy \in Calls
  BY DEF LocalKept
<1>5. l.step = "books" => AllSigned(l.policy)'
  BY <1>1, <1>2, <1>4 DEF LocalKept, AllSigned
<1>6. l.step = "step" => \A s \in AlwaysSteps : s \in l.pending \/ s = l.gate \/ Signed(l.policy, s)'
  BY <1>1, <1>2, <1>3 DEF LocalKept
<1>7. l.step = "cancel" => Posted(l.policy)'
  BY <1>1 DEF LocalKept, Posted, Gates
<1> QED BY <1>5, <1>6, <1>7 DEF LocalKept

\* A call ends, having written nothing, with nothing left to write.
LEMMA OverIsKept == Over \in Locals /\ \A c \in Calls : LocalKept(c, Over)
BY DEF Over, Local, Locals, LocalKept, Gates, PolicyStatus

\* Steps that leave the policies and their signatures alone.
LEMMA OnlyCallMoves ==
    ASSUME Inv, NEW c \in Calls, NEW local \in Locals, LocalKept(c, local),
           call' = [call EXCEPT ![c] = local], UNCHANGED <<policy, signed>>,
           RestOK', request' = "ISSUED" => request = "ISSUED"
    PROVE  Inv'
<1>1. TypeOK'
  BY DEF Inv, TypeOK, RestOK
<1>2. RequestKept'
  BY DEF Inv, RequestKept, Issued
<1>3. ASSUME NEW d \in Calls
      PROVE  PolicyKept(d)'
  BY <1>3 DEF Inv, Kept, PolicyKept, StepsKept, GateKept, AllSigned, Posted, Signed, Issued
<1>4. ASSUME NEW d \in Calls
      PROVE  LocalKept(d, call[d])'
  <2>1. PICK l : l = call'[d]
    OBVIOUS
  <2>2. LocalKept(d, l)
    BY <1>4, <2>1 DEF Inv, Kept, TypeOK
  <2>3. LocalKept(d, l)'
    BY <1>4, <2>2, LocalStaysKept
  <2> QED BY <2>1, <2>3 DEF LocalKept
<1> QED BY <1>1, <1>2, <1>3, <1>4 DEF Inv, Kept

\* Steps that write one policy and sign, or do not, for it.
LEMMA OnePolicyMoves ==
    ASSUME Inv, NEW c \in Calls, NEW local \in Locals, LocalKept(c, local),
           NEW p \in Calls,
           NEW row \in [status : PolicyStatus, pending : SUBSET Steps],
           NEW new \in SUBSET Signatures,
           call' = [call EXCEPT ![c] = local],
           policy' = [policy EXCEPT ![p] = row],
           signed' = [signed EXCEPT ![p] = @ \union new],
           PolicyKept(p)',
           RestOK', RequestKept'
    PROVE  Inv'
<1>1. TypeOK'
  <2>1. policy' \in [Calls -> [status : PolicyStatus, pending : SUBSET Steps]]
    BY DEF Inv, TypeOK
  <2>2. signed' \in [Calls -> SUBSET Signatures]
    BY DEF Inv, TypeOK
  <2>3. call' \in [Calls -> Locals]
    BY DEF Inv, TypeOK
  <2> QED BY <2>1, <2>2, <2>3 DEF TypeOK, RestOK
<1>2. \A d \in Calls : signed[d] \subseteq signed'[d]
  BY DEF Inv, TypeOK
<1>3. ASSUME NEW d \in Calls
      PROVE  PolicyKept(d)'
  <2>1. CASE d = p
    BY <2>1
  <2>2. CASE d # p
    <3>1. policy'[d] = policy[d] /\ signed'[d] = signed[d]
      BY <2>2 DEF Inv, TypeOK
    <3> QED BY <3>1 DEF Inv, Kept, PolicyKept, StepsKept, GateKept, AllSigned, Posted, Signed, Issued
  <2> QED BY <2>1, <2>2
<1>4. ASSUME NEW d \in Calls
      PROVE  LocalKept(d, call[d])'
  <2>1. PICK l : l = call'[d]
    OBVIOUS
  <2>2. LocalKept(d, l)
    BY <1>4, <2>1 DEF Inv, Kept, TypeOK
  <2>3. LocalKept(d, l)'
    BY <1>2, <1>4, <2>2, LocalStaysKept
  <2> QED BY <2>1, <2>3 DEF LocalKept
<1> QED BY <1>1, <1>3, <1>4 DEF Inv, Kept

\* A call ends as it writes one policy and signs for it.
LEMMA OnePolicySigned ==
    ASSUME Inv, NEW c \in Calls, NEW p \in Calls,
           NEW row \in [status : PolicyStatus, pending : SUBSET Steps],
           NEW x \in Signatures,
           policy' = [policy EXCEPT ![p] = row],
           signed' = [signed EXCEPT ![p] = @ \union {x}],
           call' = [call EXCEPT ![c] = Over],
           PolicyKept(p)', RestOK', RequestKept'
    PROVE  Inv'
<1> DEFINE new == {x}
<1>1. new \in SUBSET Signatures
  OBVIOUS
<1>2. signed' = [signed EXCEPT ![p] = @ \union new]
  OBVIOUS
<1>3. Over \in Locals /\ LocalKept(c, Over)
  BY OverIsKept
<1> HIDE DEF new
<1> QED BY <1>1, <1>2, <1>3, OnePolicyMoves, ZenonT(60)

-----------------------------------------------------------------------------
(* The steps                                                                *)

LEMMA InitInv == Init => Inv
<1> SUFFICES ASSUME Init PROVE Inv
  OBVIOUS
<1>1. Idle \in Locals /\ \A c \in Calls : LocalKept(c, Idle)
  BY DEF Idle, Local, Locals, LocalKept, Gates, PolicyStatus
<1>2. TypeOK
  BY <1>1, CrashesAssumption DEF Init, TypeOK, Row, RequestStatus, PolicyStatus
<1>3. \A p \in Calls : PolicyKept(p)
  BY DEF Init, PolicyKept, Row, Posted, Signed, Issued
<1> QED BY <1>1, <1>2, <1>3 DEF Init, Inv, Kept, RequestKept

\* Awards, slips, reverts of the request and changes of the configuration.
LEMMA RequestSteps ==
    ASSUME Inv, NEW c \in Calls,
           SelectQuotation(c) \/ CreateSlip(c) \/ RevertRequest(c)
               \/ (\E new \in Configs : Configure(c, new)) \/ (\E u \in Users : IssuePolicy(c, u))
    PROVE  Inv'
<1>0. TypeOK
  BY DEF Inv
<1>1. CASE SelectQuotation(c)
  <2>1. RestOK'
    BY <1>0, <1>1 DEF RestOK, SelectQuotation, TypeOK, RequestStatus
  <2> QED BY <1>1, <2>1, OverIsKept, OnlyCallMoves DEF SelectQuotation, Begin
<1>2. CASE CreateSlip(c)
  <2>1. RestOK'
    BY <1>0, <1>2 DEF RestOK, CreateSlip, TypeOK, RequestStatus
  <2> QED BY <1>2, <2>1, OverIsKept, OnlyCallMoves DEF CreateSlip, Begin
<1>3. CASE RevertRequest(c)
  <2> DEFINE l == Local("unaward", None, None, None, FALSE, Previous[request], {})
  <2>1. l \in Locals /\ LocalKept(c, l)
    BY <1>3 DEF RevertRequest, Previous, Local, Locals, LocalKept
  <2>2. RestOK'
    BY <1>0, <1>3 DEF RestOK, RevertRequest, TypeOK
  <2>3. call' = [call EXCEPT ![c] = l] /\ UNCHANGED <<policy, signed, request>>
    BY <1>3 DEF RevertRequest, Begin
  <2> HIDE DEF l
  <2> QED BY <2>1, <2>2, <2>3, OnlyCallMoves
<1>4. CASE \E new \in Configs : Configure(c, new)
  <2>1. PICK new \in Configs : Configure(c, new)
    BY <1>4
  <2>2. RestOK'
    BY <1>0, <2>1 DEF RestOK, Configure, TypeOK
  <2> QED BY <2>1, <2>2, OverIsKept, OnlyCallMoves DEF Configure, Begin
<1>5. CASE \E u \in Users : IssuePolicy(c, u)
  <2>1. PICK u \in Users : IssuePolicy(c, u)
    BY <1>5
  <2> DEFINE l == IF config.gate
                  THEN Local("issue", u, c, None, FALSE, "TECHNICAL_REVIEW", {})
                  ELSE Local("issue", u, c, None, FALSE, "FINANCE_REVIEW", config.steps)
  <2>2. config \in Configs
    BY <1>0 DEF TypeOK
  <2>3. AlwaysSteps \subseteq config.steps /\ config.steps \subseteq Steps /\ (AlwaysGated => config.gate)
    BY <2>2, ConfigHasSteps
  <2>4. l \in Locals
    BY <2>3 DEF Local, Locals, PolicyStatus
  <2>5. LocalKept(c, l)
    BY <2>3 DEF Local, LocalKept
  <2>6. RestOK'
    BY <1>0, <2>1 DEF RestOK, IssuePolicy, TypeOK
  <2>7. call' = [call EXCEPT ![c] = l] /\ UNCHANGED <<policy, signed, request>>
    BY <2>1 DEF IssuePolicy, Begin
  <2> HIDE DEF l
  <2> QED BY <2>4, <2>5, <2>6, <2>7, OnlyCallMoves
<1> QED BY <1>1, <1>2, <1>3, <1>4, <1>5

\* The checks of the approvals, of a revert and of a cancellation of the policy.
LEMMA PolicyReads ==
    ASSUME Inv, NEW c \in Calls, NEW p \in Calls, OnPolicy(c, p)
    PROVE  Inv'
<1>0. TypeOK /\ PolicyKept(p)
  BY DEF Inv, Kept
<1>1. config \in Configs /\ config.techSod \in BOOLEAN /\ config.sod \in BOOLEAN
  BY <1>0, ConfigsAssumption DEF TypeOK
<1>2. AlwaysSteps \subseteq config.steps /\ config.steps \subseteq Steps
  BY <1>1, ConfigHasSteps
<1>3. ASSUME NEW u \in Users, ApproveTechnical(c, u, p)
      PROVE  Inv'
  <2> DEFINE l == Local("technical", u, p, "technical", config.techSod, "FINANCE_REVIEW", config.steps)
  <2>1. l \in Locals /\ LocalKept(c, l)
    BY <1>1, <1>2 DEF Local, Locals, LocalKept, Gates, PolicyStatus
  <2>2. RestOK'
    BY <1>0, <1>3 DEF RestOK, ApproveTechnical, TypeOK
  <2>3. call' = [call EXCEPT ![c] = l] /\ UNCHANGED <<policy, signed, request>>
    BY <1>3 DEF ApproveTechnical, Begin
  <2> HIDE DEF l
  <2> QED BY <2>1, <2>2, <2>3, OnlyCallMoves
<1>4. ASSUME NEW u \in Users, NEW s \in Steps, ApproveStep(c, u, p, s)
      PROVE  Inv'
  <2> DEFINE l == Local("step", u, p, s, config.techSod, "none", policy[p].pending \ {s})
  <2>1. policy[p].pending \subseteq Steps
    BY <1>0 DEF TypeOK
  <2>2. l \in Locals
    BY <1>1, <2>1 DEF Local, Locals, Gates, PolicyStatus
  <2>3. StepsKept(p, policy[p].pending)
    BY <1>0, <1>4 DEF ApproveStep, PolicyKept
  <2>4. LocalKept(c, l)
    BY <2>3 DEF Local, LocalKept, StepsKept
  <2>5. RestOK'
    BY <1>0, <1>4 DEF RestOK, ApproveStep, TypeOK
  <2>6. call' = [call EXCEPT ![c] = l] /\ UNCHANGED <<policy, signed, request>>
    BY <1>4 DEF ApproveStep, Begin
  <2> HIDE DEF l
  <2> QED BY <2>2, <2>4, <2>5, <2>6, OnlyCallMoves
<1>5. ASSUME NEW u \in Users, ApprovePolicy(c, u, p)
      PROVE  Inv'
  <2> DEFINE l == Local("books", u, p, "finance", config.sod, "ISSUED", {})
  <2>1. l \in Locals
    BY <1>1 DEF Local, Locals, Gates, PolicyStatus
  <2>2. StepsKept(p, {}) /\ GateKept(p)
    BY <1>0, <1>5 DEF ApprovePolicy, PolicyKept
  <2>3. AllSigned(p)
    BY <2>2, RequiredGates DEF AllSigned, StepsKept, GateKept
  <2>4. LocalKept(c, l)
    BY <2>3 DEF Local, LocalKept
  <2>5. RestOK'
    BY <1>0, <1>5 DEF RestOK, ApprovePolicy, TypeOK
  <2>6. call' = [call EXCEPT ![c] = l] /\ UNCHANGED <<policy, signed, request>>
    BY <1>5 DEF ApprovePolicy, Begin
  <2> HIDE DEF l
  <2> QED BY <2>1, <2>4, <2>5, <2>6, OnlyCallMoves
<1>6. CASE RevertPolicy(c, p)
  <2> DEFINE l == Local("revert", None, p, None, FALSE, "TECHNICAL_REVIEW", {})
  <2>1. l \in Locals /\ LocalKept(c, l)
    BY DEF Local, Locals, LocalKept, PolicyStatus
  <2>2. RestOK'
    BY <1>0, <1>6 DEF RestOK, RevertPolicy, TypeOK
  <2>3. call' = [call EXCEPT ![c] = l] /\ UNCHANGED <<policy, signed, request>>
    BY <1>6 DEF RevertPolicy, Begin
  <2> HIDE DEF l
  <2> QED BY <2>1, <2>2, <2>3, OnlyCallMoves
<1>7. CASE CancelPolicy(c, p)
  <2> DEFINE l == Local("cancel", None, p, None, FALSE, "CANCELLED", {})
  <2>1. Posted(p)
    BY <1>0, <1>7 DEF CancelPolicy, PolicyKept, Issued
  <2>2. l \in Locals /\ LocalKept(c, l)
    BY <2>1 DEF Local, Locals, LocalKept, PolicyStatus
  <2>3. RestOK'
    BY <1>0, <1>7 DEF RestOK, CancelPolicy, TypeOK
  <2>4. call' = [call EXCEPT ![c] = l] /\ UNCHANGED <<policy, signed, request>>
    BY <1>7 DEF CancelPolicy, Begin
  <2> HIDE DEF l
  <2> QED BY <2>2, <2>3, <2>4, OnlyCallMoves
<1> QED BY <1>3, <1>4, <1>5, <1>6, <1>7 DEF OnPolicy

\* The policy a call is about to write, and what it signs.
LEMMA CallsPolicy ==
    ASSUME Inv, NEW c \in Calls, call[c].step \in {"technical", "step", "books", "revert", "cancel"}
    PROVE  call[c].policy \in Calls
BY DEF Inv, Kept, LocalKept

LEMMA CallSigns ==
    ASSUME Inv, NEW c \in Calls, call[c].step \in {"technical", "step", "books"}
    PROVE  Signature(call[c].gate, call[c].user, call[c].guarded, c) \in Signatures
<1>1. LocalKept(c, call[c]) /\ call[c] \in Locals
  BY DEF Inv, Kept, TypeOK
<1>2. call[c].gate \in Gates /\ call[c].user \in Users /\ call[c].guarded \in BOOLEAN
  BY <1>1 DEF LocalKept, Locals, Gates
<1> QED BY <1>2 DEF Signature, Signatures

\* A new policy.
LEMMA IssueCommits ==
    ASSUME Inv, NEW c \in Calls, CommitIssue(c)
    PROVE  Inv'
<1>1. TypeOK /\ LocalKept(c, call[c]) /\ PolicyKept(c) /\ At(c, "issue")
  BY DEF Inv, Kept, CommitIssue
<1> DEFINE row == Row(call[c].status, call[c].pending)
           l == Local("log", call[c].user, c, None, FALSE, "none", {})
<1>2. call[c].status \in {"TECHNICAL_REVIEW", "FINANCE_REVIEW"} /\ call[c].user \in Users
  BY <1>1 DEF LocalKept, At
<1>3. row \in [status : PolicyStatus, pending : SUBSET Steps]
  BY <1>1, <1>2 DEF Row, TypeOK, Locals, PolicyStatus
<1>4. l \in Locals /\ LocalKept(c, l)
  BY <1>2 DEF Local, Locals, LocalKept, PolicyStatus
<1>5. policy' = [policy EXCEPT ![c] = row] /\ call' = [call EXCEPT ![c] = l]
  BY DEF CommitIssue
<1>6. signed' = [signed EXCEPT ![c] = @ \union {}]
  BY <1>1 DEF CommitIssue, TypeOK
<1>6a. {} \in SUBSET Signatures
  OBVIOUS
<1>7. PolicyKept(c)'
  <2>1. policy'[c] = row /\ signed' = signed
    BY <1>1, <1>5 DEF CommitIssue, TypeOK
  <2>2. row.status = "FINANCE_REVIEW" => ~ AlwaysGated /\ AlwaysSteps \subseteq row.pending
    BY <1>1 DEF LocalKept, At, Row
  <2>3. row.status \in {"TECHNICAL_REVIEW", "FINANCE_REVIEW"}
    BY <1>2 DEF Row
  <2> HIDE DEF row
  <2>4. Posted(c)' => AllSigned(c)'
    BY <1>1, <2>1 DEF PolicyKept, Posted, AllSigned, Signed
  <2> QED BY <2>1, <2>2, <2>3, <2>4 DEF PolicyKept, StepsKept, GateKept, Issued
<1>8. RestOK'
  BY <1>1, <1>2 DEF RestOK, CommitIssue, TypeOK, RequestStatus
<1>9. RequestKept'
  BY DEF CommitIssue, RequestKept
<1> HIDE DEF row, l
<1> QED BY <1>3, <1>4, <1>5, <1>6, <1>7, <1>8, <1>9, <1>6a, OnePolicyMoves

\* The technical gate and one step back send a policy on without posting it.
LEMMA TechnicalCommits ==
    ASSUME Inv, NEW c \in Calls, CommitTechnical(c)
    PROVE  Inv'
<1>1. TypeOK /\ LocalKept(c, call[c]) /\ At(c, "technical")
  BY DEF Inv, Kept, CommitTechnical
<1>2. PICK p \in Calls : p = call[c].policy
  BY <1>1, CallsPolicy DEF At
<1>3. PICK x \in Signatures : x = Signature(call[c].gate, call[c].user, call[c].guarded, c)
  BY <1>1, CallSigns DEF At
<1>4. PICK row \in [status : PolicyStatus, pending : SUBSET Steps] :
          row = Row("FINANCE_REVIEW", call[c].pending)
  BY <1>1 DEF Row, TypeOK, Locals, PolicyStatus
<1>5. /\ policy' = [policy EXCEPT ![p] = row]
      /\ signed' = [signed EXCEPT ![p] = @ \union {x}]
      /\ call' = [call EXCEPT ![c] = Over]
  BY <1>2, <1>3, <1>4 DEF CommitTechnical, Sign, Finish
<1>6. PolicyKept(p)'
  <2>1. policy'[p] = row /\ signed'[p] = signed[p] \union {x}
    BY <1>1, <1>5 DEF TypeOK
  <2>2. AlwaysSteps \subseteq row.pending /\ x.gate = "technical"
    BY <1>1, <1>3, <1>4 DEF LocalKept, At, Row, Signature
  <2>3. \A gate : Signed(p, gate) => Signed(p, gate)'
    BY <2>1 DEF Signed
  <2>4. Posted(p)' => Posted(p)
    BY <2>1, <2>2 DEF Posted, Signed
  <2>5. Posted(p) => AllSigned(p)
    BY DEF Inv, Kept, PolicyKept
  <2>6. Signed(p, "technical")'
    BY <2>1, <2>2 DEF Signed
  <2>7. ~ Issued(p)'
    BY <1>4, <2>1 DEF Issued, Row
  <2> QED BY <2>1, <2>2, <2>3, <2>4, <2>5, <2>6, <2>7 DEF PolicyKept, StepsKept, GateKept, AllSigned
<1>7. RestOK' /\ RequestKept'
  BY <1>1 DEF RestOK, CommitTechnical, TypeOK, RequestStatus, RequestKept
<1> QED BY <1>5, <1>6, <1>7, OnePolicySigned, ZenonT(60)

LEMMA RevertCommits ==
    ASSUME Inv, NEW c \in Calls, CommitRevert(c)
    PROVE  Inv'
<1>1. TypeOK /\ At(c, "revert")
  BY DEF Inv, CommitRevert
<1>2. PICK p \in Calls : p = call[c].policy
  BY <1>1, CallsPolicy DEF At
<1>3. PICK row \in [status : PolicyStatus, pending : SUBSET Steps] : row = Row("TECHNICAL_REVIEW", {})
  BY DEF Row, PolicyStatus
<1>4. /\ policy' = [policy EXCEPT ![p] = row]
      /\ signed' = [signed EXCEPT ![p] = @ \union {}]
      /\ call' = [call EXCEPT ![c] = Over]
  BY <1>1, <1>2, <1>3 DEF CommitRevert, Finish, TypeOK
<1>5. PolicyKept(p)'
  <2>1. policy'[p] = row /\ signed'[p] = signed[p]
    BY <1>1, <1>4 DEF TypeOK
  <2>2. Posted(p) => AllSigned(p)
    BY DEF Inv, Kept, PolicyKept
  <2> QED BY <1>3, <2>1, <2>2 DEF PolicyKept, Row, Posted, AllSigned, Signed, Issued
<1>6. voided' \in [Calls -> SUBSET Calls]
  <2>1. {x.call : x \in signed[p]} \subseteq Calls
    BY <1>1 DEF TypeOK, Signatures
  <2> QED BY <1>1, <1>2, <2>1 DEF CommitRevert, Void, TypeOK
<1>7. RestOK' /\ RequestKept'
  BY <1>1, <1>6 DEF RestOK, CommitRevert, TypeOK, RequestStatus, RequestKept
<1>8. {} \in SUBSET Signatures
  OBVIOUS
<1> QED BY <1>4, <1>5, <1>7, <1>8, OverIsKept, OnePolicyMoves

\* A step signs for what it leaves off the list, whatever the list is by now.
LEMMA StepCommits ==
    ASSUME Inv, NEW c \in Calls, CommitStep(c)
    PROVE  Inv'
<1>1. TypeOK /\ LocalKept(c, call[c]) /\ At(c, "step")
  BY DEF Inv, Kept, CommitStep
<1>2. PICK p \in Calls : p = call[c].policy
  BY <1>1, CallsPolicy DEF At
<1>3. PICK x \in Signatures : x = Signature(call[c].gate, call[c].user, call[c].guarded, c)
  BY <1>1, CallSigns DEF At
<1>4. PICK row \in [status : PolicyStatus, pending : SUBSET Steps] :
          row = Row(policy[p].status, call[c].pending)
  BY <1>1 DEF Row, TypeOK, Locals
<1>5. /\ policy' = [policy EXCEPT ![p] = row]
      /\ signed' = [signed EXCEPT ![p] = @ \union {x}]
      /\ call' = [call EXCEPT ![c] = Over]
  BY <1>1, <1>2, <1>3, <1>4 DEF CommitStep, Sign, Finish, TypeOK
<1>6. policy'[p] = row /\ signed'[p] = signed[p] \union {x} /\ row.status = policy[p].status
  BY <1>1, <1>4, <1>5 DEF TypeOK, Row
<1>7. PolicyKept(p)'
  <2>1. x.gate = call[c].gate /\ x.gate \in Steps
    BY <1>1, <1>3 DEF LocalKept, At, Signature
  <2>2. \A gate : Signed(p, gate) => Signed(p, gate)'
    BY <1>6 DEF Signed
  <2>3. Signed(p, x.gate)'
    BY <1>6 DEF Signed
  <2>4. \A s \in AlwaysSteps : s \in row.pending \/ s = x.gate \/ Signed(p, s)
    BY <1>1, <1>2, <1>4, <2>1 DEF LocalKept, At, Row
  <2>5. StepsKept(p, row.pending)'
    BY <2>2, <2>3, <2>4 DEF StepsKept
  <2>6. Posted(p)' => Posted(p)
    BY <1>6, <2>1, StepsAssumption DEF Posted, Signed
  <2>7. PolicyKept(p)
    BY DEF Inv, Kept
  <2>8. Issued(p)' => Posted(p)'
    BY <1>6, <2>2, <2>7 DEF Issued, PolicyKept, Posted
  <2> QED BY <1>6, <2>2, <2>5, <2>6, <2>7, <2>8 DEF PolicyKept, StepsKept, GateKept, AllSigned
<1>8. RestOK'
  BY <1>1 DEF RestOK, CommitStep, TypeOK
<1>9. RequestKept'
  <2>1. \A q \in Calls : policy'[q].status = policy[q].status
    BY <1>1, <1>5, <1>6 DEF TypeOK
  <2> QED BY <2>1 DEF Inv, CommitStep, RequestKept, Issued
<1> QED BY <1>5, <1>7, <1>8, <1>9, OnePolicySigned, ZenonT(60)

\* The books are posted for a policy whose required approvals are all signed.
LEMMA BooksCommit ==
    ASSUME Inv, NEW c \in Calls, CommitBooks(c)
    PROVE  Inv'
<1>1. TypeOK /\ LocalKept(c, call[c]) /\ At(c, "books")
  BY DEF Inv, Kept, CommitBooks
<1>2. PICK p \in Calls : p = call[c].policy
  BY <1>1, CallsPolicy DEF At
<1>3. PICK x \in Signatures : x = Signature(call[c].gate, call[c].user, call[c].guarded, c)
  BY <1>1, CallSigns DEF At
<1>4. PICK row \in [status : PolicyStatus, pending : SUBSET Steps] :
          row = Row("ISSUED", policy[p].pending)
  BY <1>1 DEF Row, TypeOK, PolicyStatus
<1>5. /\ policy' = [policy EXCEPT ![p] = row]
      /\ signed' = [signed EXCEPT ![p] = @ \union {x}]
      /\ call' = [call EXCEPT ![c] = Over]
  BY <1>1, <1>2, <1>3, <1>4 DEF CommitBooks, Sign, Finish, TypeOK
<1>6. policy'[p] = row /\ signed'[p] = signed[p] \union {x} /\ row.status = "ISSUED"
  BY <1>1, <1>4, <1>5 DEF TypeOK, Row
<1>7. AllSigned(p)'
  <2>1. AllSigned(p)
    BY <1>1, <1>2 DEF LocalKept, At
  <2>2. \A gate : Signed(p, gate) => Signed(p, gate)'
    BY <1>6 DEF Signed
  <2> QED BY <2>1, <2>2 DEF AllSigned
<1>8. PolicyKept(p)'
  <2>1. \A s \in AlwaysSteps : Signed(p, s)'
    BY <1>7 DEF AllSigned, Required
  <2>2. AlwaysGated => Signed(p, "technical")'
    BY <1>7 DEF AllSigned, Required
  <2>3. Posted(p)'
    BY <1>1, <1>3, <1>6 DEF LocalKept, At, Signature, Posted, Signed
  <2> QED BY <1>7, <2>1, <2>2, <2>3 DEF PolicyKept, StepsKept, GateKept
<1>9. RestOK'
  BY <1>1 DEF RestOK, CommitBooks, TypeOK, RequestStatus
<1>10. RequestKept'
  BY <1>6 DEF RequestKept, Issued
<1> QED BY <1>5, <1>8, <1>9, <1>10, OnePolicySigned, ZenonT(60)

\* A cancellation was read off a posted policy, and signs nothing.
LEMMA CancelCommits ==
    ASSUME Inv, NEW c \in Calls, CommitCancel(c)
    PROVE  Inv'
<1>1. TypeOK /\ LocalKept(c, call[c]) /\ At(c, "cancel")
  BY DEF Inv, Kept, CommitCancel
<1>2. PICK p \in Calls : p = call[c].policy
  BY <1>1, CallsPolicy DEF At
<1>3. PICK row \in [status : PolicyStatus, pending : SUBSET Steps] :
          row = Row("CANCELLED", policy[p].pending)
  BY <1>1 DEF Row, TypeOK, PolicyStatus
<1>4. /\ policy' = [policy EXCEPT ![p] = row]
      /\ signed' = [signed EXCEPT ![p] = @ \union {}]
      /\ call' = [call EXCEPT ![c] = Over]
  BY <1>1, <1>2, <1>3 DEF CommitCancel, Finish, TypeOK
<1>5. policy'[p] = row /\ signed' = signed /\ row.status = "CANCELLED"
  BY <1>1, <1>3, <1>4 DEF CommitCancel, TypeOK, Row
<1>6. PolicyKept(p)'
  <2>1. Posted(p) /\ (Posted(p) => AllSigned(p))
    BY <1>1, <1>2 DEF At, LocalKept, Inv, Kept, PolicyKept
  <2>2. Posted(p)' /\ AllSigned(p)'
    BY <1>5, <2>1 DEF Posted, AllSigned, Signed
  <2> QED BY <1>5, <2>2 DEF PolicyKept
<1>7. RestOK'
  BY <1>1 DEF RestOK, CommitCancel, TypeOK
<1>8. RequestKept'
  <2>1. Issued(p)' BY <1>5 DEF Issued
  <2> QED BY <2>1 DEF RequestKept
<1>9. {} \in SUBSET Signatures
  OBVIOUS
<1> QED BY <1>3, <1>4, <1>6, <1>7, <1>8, <1>9, OverIsKept, OnePolicyMoves

\* Calls that write something else, or die.
LEMMA OtherCommits ==
    ASSUME Inv, NEW c \in Calls, CommitRevertRequest(c) \/ LogIssue(c) \/ Crash(c)
    PROVE  Inv'
<1>1. TypeOK /\ LocalKept(c, call[c])
  BY DEF Inv, Kept
<1>2. CASE CommitRevertRequest(c)
  <2>1. call[c].status \in {"DRAFT", "QUOTING"}
    BY <1>1, <1>2 DEF CommitRevertRequest, At, LocalKept
  <2>2. RestOK' /\ request' # "ISSUED"
    BY <1>1, <1>2, <2>1 DEF RestOK, CommitRevertRequest, TypeOK, RequestStatus
  <2> QED BY <1>2, <2>2, OverIsKept, OnlyCallMoves DEF CommitRevertRequest, Finish
<1>3. CASE LogIssue(c)
  <2>1. call[c].user \in Users
    BY <1>1, <1>3 DEF LogIssue, At, LocalKept
  <2>2. RestOK'
    BY <1>1, <1>3, <2>1 DEF RestOK, LogIssue, TypeOK
  <2> QED BY <1>3, <2>2, OverIsKept, OnlyCallMoves DEF LogIssue, Finish
<1>4. CASE Crash(c)
  <2>1. RestOK'
    BY <1>1, <1>4, CrashesAssumption DEF RestOK, Crash, TypeOK
  <2> QED BY <1>4, <2>1, OverIsKept, OnlyCallMoves DEF Crash, Finish
<1> QED BY <1>2, <1>3, <1>4

-----------------------------------------------------------------------------
(* The invariant and what follows from it                                   *)

\* The inductive invariant: rows, local variables and signatures fit together,
\* however the calls of production, finance and revert interleave and die.
THEOREM ApprovalsSafe == Spec => []Inv
<1>1. ASSUME Inv, [Next]_vars
      PROVE  Inv'
  <2>1. CASE Next
    <3>1. PICK c \in Calls : \/ OnRequest(c)
                             \/ \E p \in Calls : OnPolicy(c, p)
                             \/ Continue(c)
                             \/ Crash(c)
      BY <2>1 DEF Next
    <3>2. CASE OnRequest(c)
      BY <1>1, <3>2, RequestSteps DEF OnRequest
    <3>3. CASE \E p \in Calls : OnPolicy(c, p)
      BY <1>1, <3>3, PolicyReads
    <3>4. CASE Continue(c)
      BY <1>1, <3>4, IssueCommits, TechnicalCommits, RevertCommits, StepCommits, BooksCommit,
         CancelCommits, OtherCommits DEF Continue
    <3>5. CASE Crash(c)
      BY <1>1, <3>5, OtherCommits
    <3> QED BY <3>1, <3>2, <3>3, <3>4, <3>5
  <2>2. CASE UNCHANGED vars
    BY <1>1, <2>2 DEF vars, Inv, TypeOK, RequestKept, Kept, PolicyKept, LocalKept,
       StepsKept, GateKept, AllSigned, Posted, Signed, Issued
  <2> QED BY <1>1, <2>1, <2>2
<1> QED BY <1>1, InitInv, PTL DEF Spec

\* Every column and local variable keeps its type, whatever interleaves.
THEOREM ApprovalsTyped == Spec => []TypeOK
<1>1. Inv => TypeOK
  BY DEF Inv
<1> QED BY <1>1, ApprovalsSafe, PTL

\* No interleaving of approvals, reverts and changes of the configuration posts
\* the books of a policy without the approvals that were always required.
THEOREM GatesNeverSkipped == Spec => []NoGateSkipped
<1>1. Inv => NoGateSkipped
  BY DEF Inv, Kept, PolicyKept, AllSigned, NoGateSkipped
<1> QED BY <1>1, ApprovalsSafe, PTL

\* What shows as issued, or was until it was cancelled, has been posted, and a
\* request shows as ISSUED only with such a policy, whatever interleaves.
THEOREM IssuedAlwaysPosted == Spec => []IssuedWasPosted
<1>1. Inv => IssuedWasPosted
  BY DEF Inv, Kept, PolicyKept, RequestKept, IssuedWasPosted
<1> QED BY <1>1, ApprovalsSafe, PTL
-----------------------------------------------------------------------------
(* Calls served one at a time                                               *)
(*                                                                          *)
(* While no two calls are between their read and their write, what a call   *)
(* has read of its policy is what it writes over: a second financial        *)
(* approval meets an ISSUED row, and approvals that a revert has taken back *)
(* are asked for again. Calls of one statement may still come in between.   *)

OneInFlight == \A a, b \in InFlight : a = b

Approving(c) == call[c].step \in {"technical", "step", "books"}

Existing == {p \in Calls : policy[p].status # "none"}

\* What the approvals of a policy add up to, by its status.
ApprovalsOf(p) ==
    /\ policy[p].status = "none" => signed[p] = {} /\ voided[p] = {}
    /\ \A x \in signed[p] : call[x.call].step = "done"
    /\ voided[p] \subseteq {x.call : x \in signed[p]}
    /\ Posted(p) => Issued(p)
    /\ \A x, y \in signed[p] : x.gate = "finance" /\ y.gate = "finance" => x = y

RenewedAt(p) ==
    /\ voided[p] # {} /\ policy[p].status \in {"FINANCE_REVIEW", "ISSUED", "CANCELLED"} =>
           /\ SignedAnew(p, "technical")
           /\ \A s \in AlwaysSteps : s \in policy[p].pending \/ SignedAnew(p, s)
    /\ voided[p] # {} /\ Issued(p) => policy[p].pending = {}

DutiesOf(p) ==
    crashes = 0 =>
        /\ policy[p].status # "none" => issuerLog[p] = issuer[p] \/ call[p].step = "log"
        /\ \A x \in signed[p] : x.guarded => x.user # issuer[p]

PolicySerial(p) ==
    /\ call[p].step \in {"idle", "issue"} => policy[p].status = "none"
    /\ ApprovalsOf(p) /\ RenewedAt(p) /\ DutiesOf(p)

\* What a call has read is still so when it writes.
LocalSerial(c) ==
    LET l == call[c]
        row == policy[l.policy]
    IN
    /\ l.step = "issue" => Cardinality(Existing) < awards
    /\ l.step = "log" => l.user = issuer[c]
    /\ l.step = "technical" => row.status = "TECHNICAL_REVIEW" /\ l.gate = "technical"
    /\ l.step = "step" => /\ row.status = "FINANCE_REVIEW" /\ l.gate \in Steps
                          /\ l.pending = row.pending \ {l.gate}
    /\ l.step = "books" => row.status = "FINANCE_REVIEW" /\ l.gate = "finance" /\ row.pending = {}
    /\ l.step = "revert" => row.status = "FINANCE_REVIEW"
    /\ l.step = "cancel" => row.status = "ISSUED"
    /\ crashes = 0 /\ Approving(c) /\ l.guarded => l.user # issuer[l.policy]

AwardsOK ==
    /\ awards \in Nat
    /\ IsFiniteSet(Existing) /\ Cardinality(Existing) <= awards
    /\ request = "AWARDED" => Cardinality(Existing) < awards

SerialInv ==
    /\ OneInFlight
    /\ AwardsOK
    /\ \A c \in Calls : PolicySerial(c) /\ LocalSerial(c)

\* A set with one element at most that grows by one, and is still that small.
LEMMA AtMostOneMore ==
    ASSUME NEW S, \A a, b \in S : a = b, NEW x, NEW T \in SUBSET (S \union {x}), Cardinality(T) <= 1
    PROVE  \A a, b \in T : a = b
<1> SUFFICES ASSUME NEW a \in T, NEW b \in T, a # b
             PROVE  FALSE
  OBVIOUS
<1>1. T = {a} \union {b}
  OBVIOUS
<1>2. IsFiniteSet({a}) /\ Cardinality({a}) = 1
  BY FS_Singleton
<1>3. Cardinality(T) = 1 + 1
  BY <1>1, <1>2, FS_AddElement
<1> QED BY <1>3

\* Calls that have nothing to write are out of the argument.
LEMMA RestingIsSerial ==
    ASSUME NEW d \in Calls, call[d].step \in {"idle", "done"}
    PROVE  LocalSerial(d)
BY DEF LocalSerial, Approving

\* Steps that leave the policies and their approvals alone.
LEMMA OnlyCallIsSerial ==
    ASSUME Inv, SerialInv, OneInFlight', AwardsOK', NEW c \in Calls, NEW local,
           call' = [call EXCEPT ![c] = local], call[c].step # "done",
           local.step \in {"idle", "issue"} => call[c].step \in {"idle", "issue"},
           UNCHANGED <<policy, signed, voided, issuer>>, awards' >= awards,
           crashes' = 0 => crashes = 0, LocalSerial(c)',
           \A p \in Calls : p # c => issuerLog'[p] = issuerLog[p],
           crashes' = 0 /\ policy[c].status # "none" => issuerLog'[c] = issuer[c] \/ local.step = "log"
    PROVE  SerialInv'
<1>1. call'[c] = local /\ \A d \in Calls : d # c => call'[d] = call[d]
  BY DEF Inv, TypeOK
<1>2. Existing' = Existing
  BY DEF Existing
<1>3. ASSUME NEW d \in Calls, d # c PROVE LocalSerial(d)'
  <2>1. LocalSerial(d) BY DEF SerialInv
  <2>2. Cardinality(Existing) < awards => Cardinality(Existing) < awards'
    <3>1. Cardinality(Existing) \in Nat /\ awards \in Nat /\ awards' \in Nat
      BY FS_CardinalityType DEF SerialInv, AwardsOK
    <3> QED BY <3>1
  <2> QED BY <1>1, <1>2, <1>3, <2>1, <2>2 DEF LocalSerial, Approving
<1>4. ASSUME NEW p \in Calls PROVE PolicySerial(p)'
  <2>1. PolicySerial(p) BY DEF SerialInv
  <2>2. \A x \in signed[p] : x.call \in Calls BY DEF Inv, TypeOK, Signatures
  <2>3. ApprovalsOf(p)'
    BY <1>1, <2>1, <2>2 DEF PolicySerial, ApprovalsOf, Posted, Signed, Issued
  <2>4. RenewedAt(p)'
    BY <2>1 DEF PolicySerial, RenewedAt, SignedAnew, Issued
  <2>5. DutiesOf(p)'
    <3>1. CASE p = c BY <3>1, <1>1, <2>1 DEF PolicySerial, DutiesOf
    <3>2. CASE p # c BY <3>2, <1>1, <2>1 DEF PolicySerial, DutiesOf
    <3> QED BY <3>1, <3>2
  <2>6. call'[p].step \in {"idle", "issue"} => policy'[p].status = "none"
    BY <1>1, <2>1 DEF PolicySerial
  <2> QED BY <2>3, <2>4, <2>5, <2>6 DEF PolicySerial
<1> QED BY <1>3, <1>4 DEF SerialInv

\* A call that starts or is over at once has written no policy.
LEMMA BeginIsSerial ==
    ASSUME Inv, SerialInv, OneInFlight', AwardsOK', NEW c \in Calls, NEW local,
           Begin(c, local), local.step # "idle", awards' >= awards, LocalSerial(c)',
           UNCHANGED <<policy, signed, voided, issuer, issuerLog, crashes>>
    PROVE  SerialInv'
<1>1. call[c].step = "idle" /\ call' = [call EXCEPT ![c] = local]
  BY DEF Begin, CanStart
<1>2. policy[c].status = "none"
  BY <1>1 DEF SerialInv, PolicySerial
<1> QED BY <1>1, <1>2, OnlyCallIsSerial

\* No call is between its read and its write when another one starts.
LEMMA StartsAlone ==
    ASSUME Inv, OneInFlight', NEW c \in Calls, NEW local, Begin(c, local),
           local.step \notin {"idle", "done"}, NEW d \in Calls
    PROVE  call[d].step \in {"idle", "done"}
<1>1. call' = [call EXCEPT ![c] = local] /\ call[c].step = "idle"
  BY DEF Begin, CanStart
<1>2. CASE d = c BY <1>1, <1>2
<1>3. CASE d # c
  <2>1. call'[d] = call[d] /\ call'[c] = local BY <1>1, <1>3 DEF Inv, TypeOK
  <2> QED BY <1>3, <2>1 DEF OneInFlight, InFlight
<1> QED BY <1>2, <1>3

LEMMA RequestIsSerial ==
    ASSUME Inv, SerialInv, OneInFlight', NEW c \in Calls, OnRequest(c)
    PROVE  SerialInv'
<1>1. /\ Cardinality(Existing) \in Nat /\ awards \in Nat /\ Cardinality(Existing) <= awards
      /\ request = "AWARDED" => Cardinality(Existing) < awards
  BY FS_CardinalityType DEF SerialInv, AwardsOK
<1>2. UNCHANGED <<policy, signed, voided, issuer, issuerLog, crashes>>
  BY DEF OnRequest, SelectQuotation, CreateSlip, RevertRequest, Configure, IssuePolicy
<1>3. Existing' = Existing BY <1>2 DEF Existing
<1>4. CASE SelectQuotation(c)
  <2>1. Begin(c, Over) /\ awards' = awards + 1 BY <1>4 DEF SelectQuotation
  <2>2. AwardsOK' BY <1>1, <1>3, <2>1 DEF SerialInv, AwardsOK
  <2>3. call'[c].step = "done" BY <2>1 DEF Begin, Over, Local, Inv, TypeOK
  <2>4. LocalSerial(c)' BY <2>3 DEF LocalSerial, Approving
  <2> QED BY <1>1, <1>2, <2>1, <2>2, <2>4, BeginIsSerial DEF Over, Local
<1>5. CASE CreateSlip(c) \/ \E new \in Configs : Configure(c, new)
  <2>1. Begin(c, Over) /\ awards' = awards /\ request' \in {"QUOTING", request}
    BY <1>5 DEF CreateSlip, Configure
  <2>2. AwardsOK' BY <1>1, <1>3, <2>1 DEF SerialInv, AwardsOK
  <2>3. call'[c].step = "done" BY <2>1 DEF Begin, Over, Local, Inv, TypeOK
  <2>4. LocalSerial(c)' BY <2>3 DEF LocalSerial, Approving
  <2> QED BY <1>1, <1>2, <2>1, <2>2, <2>4, BeginIsSerial DEF Over, Local
<1>6. CASE RevertRequest(c)
  <2>1. PICK local : Begin(c, local) /\ local.step = "unaward" /\ awards' = awards /\ request' = request
    BY <1>6 DEF RevertRequest, Local
  <2>2. AwardsOK' BY <1>1, <1>3, <2>1 DEF SerialInv, AwardsOK
  <2>3. call'[c].step = "unaward" BY <2>1 DEF Begin, Inv, TypeOK
  <2>4. LocalSerial(c)' BY <2>3 DEF LocalSerial, Approving
  <2> QED BY <1>1, <1>2, <2>1, <2>2, <2>4, BeginIsSerial
<1>7. CASE \E u \in Users : IssuePolicy(c, u)
  <2>1. PICK local : /\ Begin(c, local) /\ local.step = "issue" /\ awards' = awards
                     /\ request' = request /\ request = "AWARDED"
    BY <1>7 DEF IssuePolicy, Local
  <2>2. AwardsOK' BY <1>1, <1>3, <2>1 DEF SerialInv, AwardsOK
  <2>3. call'[c].step = "issue" BY <2>1 DEF Begin, Inv, TypeOK
  <2>4. LocalSerial(c)' BY <1>1, <1>3, <2>1, <2>3 DEF LocalSerial, Approving
  <2> QED BY <1>1, <1>2, <2>1, <2>2, <2>4, BeginIsSerial
<1> QED BY <1>4, <1>5, <1>6, <1>7 DEF OnRequest

\* An approval, a revert or a cancellation starts from the row as it is.
LEMMA ApprovalStartsSerial ==
    ASSUME Inv, SerialInv, OneInFlight', NEW c \in Calls, NEW p \in Calls, OnPolicy(c, p)
    PROVE  SerialInv'
<1>1. PICK local :
          /\ Begin(c, local) /\ local.policy = p
          /\ local.step \in {"technical", "step", "books", "revert", "cancel"}
          /\ local.step = "technical" => policy[p].status = "TECHNICAL_REVIEW" /\ local.gate = "technical"
          /\ local.step = "step" => /\ policy[p].status = "FINANCE_REVIEW" /\ local.gate \in Steps
                                    /\ local.pending = policy[p].pending \ {local.gate}
          /\ local.step = "books" => /\ policy[p].status = "FINANCE_REVIEW" /\ local.gate = "finance"
                                     /\ policy[p].pending = {}
          /\ local.step = "revert" => policy[p].status = "FINANCE_REVIEW"
          /\ local.step = "cancel" => policy[p].status = "ISSUED"
          /\ local.step \notin {"revert", "cancel"} /\ local.guarded => local.user # issuerLog[p]
          /\ UNCHANGED <<policy, signed, voided, issuer, issuerLog, crashes, awards, request>>
  <2>1. CASE \E u \in Users : ApproveTechnical(c, u, p)
    BY <2>1 DEF ApproveTechnical, MayApprove, Local
  <2>2. CASE \E u \in Users, s \in Steps : ApproveStep(c, u, p, s)
    BY <2>2 DEF ApproveStep, MayApprove, Local
  <2>3. CASE \E u \in Users : ApprovePolicy(c, u, p)
    BY <2>3 DEF ApprovePolicy, MayApprove, Local
  <2>4. CASE RevertPolicy(c, p)
    BY <2>4 DEF RevertPolicy, Local
  <2>5. CASE CancelPolicy(c, p)
    BY <2>5 DEF CancelPolicy, Local
  <2> QED BY <2>1, <2>2, <2>3, <2>4, <2>5 DEF OnPolicy
<1>2. call'[c] = local BY <1>1 DEF Begin, Inv, TypeOK
<1>3. AwardsOK'
  <2>1. Existing' = Existing BY <1>1 DEF Existing
  <2> QED BY <1>1, <2>1 DEF SerialInv, AwardsOK
<1>4. call[p].step # "log" BY <1>1, StartsAlone
<1>5. policy[p].status # "none" BY <1>1
<1>6. crashes = 0 => issuerLog[p] = issuer[p]
  BY <1>4, <1>5 DEF SerialInv, PolicySerial, DutiesOf
<1>7. LocalSerial(c)' BY <1>1, <1>2, <1>6 DEF LocalSerial, Approving
<1>8. awards' >= awards BY <1>1 DEF SerialInv, AwardsOK
<1> QED BY <1>1, <1>3, <1>7, <1>8, BeginIsSerial

\* The call in flight writes one policy and its approvals, and is over.
LEMMA OneRowIsSerial ==
    ASSUME Inv, SerialInv, OneInFlight', NEW c \in Calls, Approving(c) \/ call[c].step \in {"revert", "cancel"},
           call' = [call EXCEPT ![c] = Over], NEW p \in Calls, NEW row, NEW new, NEW old,
           policy' = [policy EXCEPT ![p] = row], signed' = [signed EXCEPT ![p] = new],
           voided' = [voided EXCEPT ![p] = old], row.status # "none", policy[p].status # "none",
           UNCHANGED <<issuer, issuerLog, awards, crashes>>,
           request' = "AWARDED" => request = "AWARDED",
           ApprovalsOf(p)', RenewedAt(p)', crashes = 0 => \A x \in new : x.guarded => x.user # issuer[p]
    PROVE  SerialInv'
<1>1. \A d \in Calls : d # c => call[d].step \in {"idle", "done"} /\ call'[d] = call[d]
  BY DEF SerialInv, OneInFlight, InFlight, Inv, TypeOK, Approving
<1>2. call'[c].step = "done" BY DEF Over, Local, Inv, TypeOK
<1>3. \A d \in Calls : LocalSerial(d)'
  BY <1>1, <1>2 DEF LocalSerial, Approving
<1>4. \A q \in Calls : q # p => policy'[q] = policy[q] /\ signed'[q] = signed[q] /\ voided'[q] = voided[q]
  BY DEF Inv, TypeOK
<1>5. policy'[p] = row /\ signed'[p] = new
  BY DEF Inv, TypeOK
<1>6. Existing' = Existing BY <1>4, <1>5 DEF Existing
<1>7. AwardsOK' BY <1>6 DEF SerialInv, AwardsOK
<1>8. \A q \in Calls : call[q].step # "log"
  BY <1>1 DEF Approving
<1>9. ASSUME NEW q \in Calls PROVE PolicySerial(q)'
  <2>1. PolicySerial(q) BY DEF SerialInv
  <2>2. call'[q].step \in {"idle", "issue"} => policy'[q].status = "none"
    <3>1. call'[q].step \in {"idle", "issue"} => call[q].step \in {"idle", "issue"}
      BY <1>1, <1>2
    <3> QED BY <3>1, <2>1, <1>4 DEF PolicySerial
  <2>3. CASE q = p
    <3>1. DutiesOf(p)' BY <1>5, <1>8, <2>1, <2>3 DEF PolicySerial, DutiesOf
    <3> QED BY <2>2, <2>3, <3>1 DEF PolicySerial
  <2>4. CASE q # p
    <3>1. \A x \in signed[q] : x.call \in Calls BY DEF Inv, TypeOK, Signatures
    <3>2. \A x \in signed[q] : call'[x.call].step = "done"
      BY <1>1, <1>2, <2>1, <3>1 DEF PolicySerial, ApprovalsOf
    <3>3. ApprovalsOf(q)' BY <1>4, <2>1, <2>4, <3>2 DEF PolicySerial, ApprovalsOf, Posted, Signed, Issued
    <3>4. RenewedAt(q)' BY <1>4, <2>1, <2>4 DEF PolicySerial, RenewedAt, SignedAnew, Issued
    <3>5. DutiesOf(q)' BY <1>4, <1>8, <2>1, <2>4 DEF PolicySerial, DutiesOf
    <3> QED BY <2>2, <3>3, <3>4, <3>5 DEF PolicySerial
  <2> QED BY <2>3, <2>4
<1> QED BY <1>3, <1>7, <1>9 DEF SerialInv

\* What a call adds to the approvals of a policy is no approval taken back.
LEMMA SigningIsSerial ==
    ASSUME Inv, SerialInv, NEW c \in Calls, Approving(c), call' = [call EXCEPT ![c] = Over],
           NEW p \in Calls, p = call[c].policy, NEW x, x = Signature(call[c].gate, call[c].user, call[c].guarded, c),
           NEW row, row.status # "none", policy' = [policy EXCEPT ![p] = row],
           signed' = [signed EXCEPT ![p] = @ \union {x}], voided' = voided,
           policy[p].status \in {"TECHNICAL_REVIEW", "FINANCE_REVIEW"},
           x.gate = "finance" => row.status = "ISSUED", UNCHANGED <<issuer, crashes>>
    PROVE  /\ ApprovalsOf(p)'
           /\ \A gate : SignedAnew(p, gate) \/ gate = x.gate => SignedAnew(p, gate)'
           /\ crashes = 0 => \A y \in signed[p] \union {x} : y.guarded => y.user # issuer[p]
<1>1. x.call = c /\ x.gate = call[c].gate /\ x.guarded = call[c].guarded /\ x.user = call[c].user
  BY DEF Signature
<1>2. /\ signed'[p] = signed[p] \union {x} /\ policy'[p] = row /\ voided'[p] = voided[p]
      /\ call'[c].step = "done" /\ \A d \in Calls : d # c => call'[d] = call[d]
  BY DEF Over, Local, Inv, TypeOK
<1>3. /\ ApprovalsOf(p) /\ DutiesOf(p) /\ LocalSerial(c)
      /\ \A y \in signed[p] : y.call \in Calls
  BY DEF SerialInv, PolicySerial, Inv, TypeOK, Signatures
<1>4. c \notin voided[p] BY <1>3 DEF ApprovalsOf, Approving
<1>5. ~ Posted(p) BY <1>3 DEF ApprovalsOf, Issued
<1>6. \A y \in signed'[p] : call'[y.call].step = "done"
  BY <1>1, <1>2, <1>3 DEF ApprovalsOf
<1>7. \A y \in signed[p] : y.gate # "finance" BY <1>5 DEF Posted, Signed
<1>8. ApprovalsOf(p)'
  <2>1. Posted(p)' => Issued(p)' BY <1>2, <1>7 DEF Posted, Signed, Issued
  <2>2. \A y, z \in signed'[p] : y.gate = "finance" /\ z.gate = "finance" => y = z BY <1>2, <1>7
  <2>3. voided'[p] \subseteq {y.call : y \in signed'[p]} BY <1>2, <1>3 DEF ApprovalsOf
  <2> QED BY <1>2, <1>6, <2>1, <2>2, <2>3 DEF ApprovalsOf
<1>9. \A gate : SignedAnew(p, gate) \/ gate = x.gate => SignedAnew(p, gate)'
  BY <1>1, <1>2, <1>4 DEF SignedAnew
<1>10. crashes = 0 => \A y \in signed[p] \union {x} : y.guarded => y.user # issuer[p]
  BY <1>1, <1>3 DEF DutiesOf, LocalSerial
<1> QED BY <1>8, <1>9, <1>10

LEMMA TechnicalIsSerial ==
    ASSUME Inv, SerialInv, OneInFlight', NEW c \in Calls, CommitTechnical(c)
    PROVE  SerialInv'
<1>1. At(c, "technical") /\ LocalKept(c, call[c]) /\ LocalSerial(c)
  BY DEF CommitTechnical, Inv, Kept, SerialInv
<1>2. PICK p \in Calls : p = call[c].policy BY <1>1 DEF At, LocalKept
<1>3. PICK x : x = Signature(call[c].gate, call[c].user, call[c].guarded, c) OBVIOUS
<1>4. PICK row : row = Row("FINANCE_REVIEW", call[c].pending) OBVIOUS
<1>5. /\ policy' = [policy EXCEPT ![p] = row] /\ signed' = [signed EXCEPT ![p] = @ \union {x}]
      /\ call' = [call EXCEPT ![c] = Over] /\ request' = "FINANCE_REVIEW"
      /\ UNCHANGED <<issuer, issuerLog, voided, awards, crashes>>
  BY <1>2, <1>3, <1>4 DEF CommitTechnical, Sign, Finish
<1>6. /\ policy[p].status = "TECHNICAL_REVIEW" /\ x.gate = "technical" /\ Approving(c)
      /\ row.status = "FINANCE_REVIEW" /\ AlwaysSteps \subseteq row.pending
  BY <1>1, <1>2, <1>3, <1>4 DEF At, LocalSerial, LocalKept, Approving, Signature, Row
<1>7. /\ ApprovalsOf(p)' /\ \A gate : SignedAnew(p, gate) \/ gate = x.gate => SignedAnew(p, gate)'
      /\ crashes = 0 => \A y \in signed[p] \union {x} : y.guarded => y.user # issuer[p]
  BY <1>2, <1>3, <1>5, <1>6, SigningIsSerial
<1>8. policy'[p] = row BY <1>5 DEF Inv, TypeOK
<1>9. RenewedAt(p)' BY <1>6, <1>7, <1>8 DEF RenewedAt, Issued
<1>10. signed' = [signed EXCEPT ![p] = signed[p] \union {x}] /\ voided' = [voided EXCEPT ![p] = voided[p]]
  BY <1>5 DEF Inv, TypeOK
<1> QED BY <1>5, <1>6, <1>7, <1>9, <1>10, OneRowIsSerial

LEMMA StepIsSerial ==
    ASSUME Inv, SerialInv, OneInFlight', NEW c \in Calls, CommitStep(c)
    PROVE  SerialInv'
<1>1. At(c, "step") /\ LocalKept(c, call[c]) /\ LocalSerial(c)
  BY DEF CommitStep, Inv, Kept, SerialInv
<1>2. PICK p \in Calls : p = call[c].policy BY <1>1 DEF At, LocalKept
<1>3. PICK x : x = Signature(call[c].gate, call[c].user, call[c].guarded, c) OBVIOUS
<1>4. PICK row : row = Row(policy[p].status, call[c].pending) OBVIOUS
<1>5. /\ policy' = [policy EXCEPT ![p] = row] /\ signed' = [signed EXCEPT ![p] = @ \union {x}]
      /\ call' = [call EXCEPT ![c] = Over] /\ request' = request
      /\ UNCHANGED <<issuer, issuerLog, voided, awards, crashes>>
  BY <1>2, <1>3, <1>4 DEF CommitStep, Sign, Finish, Inv, TypeOK
<1>6. /\ policy[p].status = "FINANCE_REVIEW" /\ x.gate \in Steps /\ Approving(c)
      /\ row.status = "FINANCE_REVIEW" /\ row.pending = policy[p].pending \ {x.gate}
  BY <1>1, <1>2, <1>3, <1>4 DEF At, LocalSerial, LocalKept, Approving, Signature, Row
<1>7. /\ ApprovalsOf(p)' /\ \A gate : SignedAnew(p, gate) \/ gate = x.gate => SignedAnew(p, gate)'
      /\ crashes = 0 => \A y \in signed[p] \union {x} : y.guarded => y.user # issuer[p]
  BY <1>2, <1>3, <1>5, <1>6, SigningIsSerial, StepsAssumption
<1>8. policy'[p] = row /\ voided'[p] = voided[p] BY <1>5 DEF Inv, TypeOK
<1>9. RenewedAt(p)'
  <2>1. RenewedAt(p) BY DEF SerialInv, PolicySerial
  <2> QED BY <2>1, <1>6, <1>7, <1>8 DEF RenewedAt, Issued
<1>10. signed' = [signed EXCEPT ![p] = signed[p] \union {x}] /\ voided' = [voided EXCEPT ![p] = voided[p]]
  BY <1>5 DEF Inv, TypeOK
<1> QED BY <1>5, <1>6, <1>7, <1>9, <1>10, OneRowIsSerial

LEMMA BooksIsSerial ==
    ASSUME Inv, SerialInv, OneInFlight', NEW c \in Calls, CommitBooks(c)
    PROVE  SerialInv'
<1>1. At(c, "books") /\ LocalKept(c, call[c]) /\ LocalSerial(c)
  BY DEF CommitBooks, Inv, Kept, SerialInv
<1>2. PICK p \in Calls : p = call[c].policy BY <1>1 DEF At, LocalKept
<1>3. PICK x : x = Signature(call[c].gate, call[c].user, call[c].guarded, c) OBVIOUS
<1>4. PICK row : row = Row("ISSUED", policy[p].pending) OBVIOUS
<1>5. /\ policy' = [policy EXCEPT ![p] = row] /\ signed' = [signed EXCEPT ![p] = @ \union {x}]
      /\ call' = [call EXCEPT ![c] = Over] /\ request' = "ISSUED"
      /\ UNCHANGED <<issuer, issuerLog, voided, awards, crashes>>
  BY <1>2, <1>3, <1>4 DEF CommitBooks, Sign, Finish, Inv, TypeOK
<1>6. /\ policy[p].status = "FINANCE_REVIEW" /\ x.gate = "finance" /\ Approving(c)
      /\ row.status = "ISSUED" /\ row.pending = {} /\ policy[p].pending = {}
  BY <1>1, <1>2, <1>3, <1>4 DEF At, LocalSerial, Approving, Signature, Row
<1>7. /\ ApprovalsOf(p)' /\ \A gate : SignedAnew(p, gate) \/ gate = x.gate => SignedAnew(p, gate)'
      /\ crashes = 0 => \A y \in signed[p] \union {x} : y.guarded => y.user # issuer[p]
  BY <1>2, <1>3, <1>5, <1>6, SigningIsSerial
<1>8. policy'[p] = row /\ voided'[p] = voided[p] BY <1>5 DEF Inv, TypeOK
<1>9. RenewedAt(p)'
  <2>1. RenewedAt(p) BY DEF SerialInv, PolicySerial
  <2> QED BY <2>1, <1>6, <1>7, <1>8 DEF RenewedAt, Issued
<1>10. signed' = [signed EXCEPT ![p] = signed[p] \union {x}] /\ voided' = [voided EXCEPT ![p] = voided[p]]
  BY <1>5 DEF Inv, TypeOK
<1> QED BY <1>5, <1>6, <1>7, <1>9, <1>10, OneRowIsSerial

\* One step back takes every approval back, and the policy was not yet posted.
LEMMA RevertIsSerial ==
    ASSUME Inv, SerialInv, OneInFlight', NEW c \in Calls, CommitRevert(c)
    PROVE  SerialInv'
<1>1. At(c, "revert") /\ LocalKept(c, call[c]) /\ LocalSerial(c)
  BY DEF CommitRevert, Inv, Kept, SerialInv
<1>2. PICK p \in Calls : p = call[c].policy BY <1>1 DEF At, LocalKept
<1>3. PICK row : row = Row("TECHNICAL_REVIEW", {}) OBVIOUS
<1>4. PICK old : old = {x.call : x \in signed[p]} OBVIOUS
<1>5. /\ policy' = [policy EXCEPT ![p] = row] /\ voided' = [voided EXCEPT ![p] = old]
      /\ call' = [call EXCEPT ![c] = Over] /\ request' = "UNDER_REVIEW"
      /\ UNCHANGED <<issuer, issuerLog, signed, awards, crashes>>
  BY <1>2, <1>3, <1>4 DEF CommitRevert, Void, Finish
<1>6. policy[p].status = "FINANCE_REVIEW" /\ row.status = "TECHNICAL_REVIEW" /\ call[c].step = "revert"
  BY <1>1, <1>2, <1>3 DEF At, LocalSerial, Row
<1>7. policy'[p] = row /\ voided'[p] = old /\ signed' = [signed EXCEPT ![p] = signed[p]]
  BY <1>5 DEF Inv, TypeOK
<1>8. ApprovalsOf(p) /\ DutiesOf(p) BY DEF SerialInv, PolicySerial
<1>9. ApprovalsOf(p)'
  <2>1. ~ Posted(p)' BY <1>5, <1>6, <1>8 DEF ApprovalsOf, Posted, Signed, Issued
  <2>2. call'[c].step = "done" /\ \A d \in Calls : d # c => call'[d] = call[d]
    BY <1>5 DEF Over, Local, Inv, TypeOK
  <2>3. \A x \in signed[p] : x.call \in Calls BY DEF Inv, TypeOK, Signatures
  <2>4. \A x \in signed'[p] : call'[x.call].step = "done" BY <1>5, <1>8, <2>2, <2>3 DEF ApprovalsOf
  <2>5. \A x, y \in signed'[p] : x.gate = "finance" /\ y.gate = "finance" => x = y
    BY <1>5, <1>8 DEF ApprovalsOf
  <2>6. voided'[p] = {x.call : x \in signed'[p]} BY <1>4, <1>5, <1>7
  <2> QED BY <1>6, <1>7, <2>1, <2>4, <2>5, <2>6 DEF ApprovalsOf
<1>10. RenewedAt(p)' BY <1>6, <1>7 DEF RenewedAt, Issued
<1>11. crashes = 0 => \A x \in signed[p] : x.guarded => x.user # issuer[p] BY <1>8 DEF DutiesOf
<1> QED BY <1>5, <1>6, <1>7, <1>9, <1>10, <1>11, OneRowIsSerial

\* A cancellation leaves what was signed as it is, and a cancelled policy was ISSUED.
LEMMA CancelIsSerial ==
    ASSUME Inv, SerialInv, OneInFlight', NEW c \in Calls, CommitCancel(c)
    PROVE  SerialInv'
<1>1. At(c, "cancel") /\ LocalKept(c, call[c]) /\ LocalSerial(c)
  BY DEF CommitCancel, Inv, Kept, SerialInv
<1>2. PICK p \in Calls : p = call[c].policy BY <1>1 DEF At, LocalKept
<1>3. PICK row : row = Row("CANCELLED", policy[p].pending) OBVIOUS
<1>4. /\ policy' = [policy EXCEPT ![p] = row] /\ call' = [call EXCEPT ![c] = Over]
      /\ UNCHANGED <<request, issuer, issuerLog, signed, voided, awards, crashes>>
  BY <1>2, <1>3 DEF CommitCancel, Finish, Inv, TypeOK
<1>5. /\ policy[p].status = "ISSUED" /\ row.status = "CANCELLED" /\ call[c].step = "cancel"
      /\ row.pending = policy[p].pending
  BY <1>1, <1>2, <1>3 DEF At, LocalSerial, Row
<1>6. /\ policy'[p] = row /\ signed' = [signed EXCEPT ![p] = signed[p]]
      /\ voided' = [voided EXCEPT ![p] = voided[p]]
  BY <1>4 DEF Inv, TypeOK
<1>7. ApprovalsOf(p) /\ RenewedAt(p) /\ DutiesOf(p) BY DEF SerialInv, PolicySerial
<1>8. ApprovalsOf(p)'
  <2>1. call'[c].step = "done" /\ \A d \in Calls : d # c => call'[d] = call[d]
    BY <1>4 DEF Over, Local, Inv, TypeOK
  <2>2. \A x \in signed[p] : x.call \in Calls BY DEF Inv, TypeOK, Signatures
  <2>3. \A x \in signed'[p] : call'[x.call].step = "done" BY <1>4, <1>7, <2>1, <2>2 DEF ApprovalsOf
  <2>4. Issued(p)' /\ policy'[p].status # "none" BY <1>5, <1>6 DEF Issued
  <2> QED BY <1>4, <1>7, <2>3, <2>4 DEF ApprovalsOf
<1>9. RenewedAt(p)' BY <1>4, <1>5, <1>6, <1>7 DEF RenewedAt, SignedAnew, Issued
<1>10. crashes = 0 => \A x \in signed[p] : x.guarded => x.user # issuer[p] BY <1>7 DEF DutiesOf
<1>11. /\ call[c].step \in {"revert", "cancel"} /\ row.status # "none" /\ policy[p].status # "none"
       /\ request' = "AWARDED" => request = "AWARDED"
       /\ UNCHANGED <<issuer, issuerLog, awards, crashes>>
       /\ policy' = [policy EXCEPT ![p] = row] /\ call' = [call EXCEPT ![c] = Over]
  BY <1>4, <1>5
<1> QED BY <1>6, <1>8, <1>9, <1>10, <1>11, OneRowIsSerial

\* The policy that is created uses up an award, and has no approval yet.
LEMMA IssueIsSerial ==
    ASSUME Inv, SerialInv, OneInFlight', NEW c \in Calls, CommitIssue(c)
    PROVE  SerialInv'
<1> DEFINE row == Row(call[c].status, call[c].pending)
           l == Local("log", call[c].user, c, None, FALSE, "none", {})
<1>1. /\ call[c].step = "issue" /\ LocalSerial(c) /\ PolicySerial(c) /\ LocalKept(c, call[c])
      /\ policy' = [policy EXCEPT ![c] = row] /\ issuer' = [issuer EXCEPT ![c] = call[c].user]
      /\ call' = [call EXCEPT ![c] = l] /\ request' \in {"FINANCE_REVIEW", "UNDER_REVIEW"}
      /\ UNCHANGED <<issuerLog, signed, voided, awards, crashes>>
  BY DEF CommitIssue, At, SerialInv, Inv, Kept
<1>2. /\ policy'[c] = row /\ row.status # "none" /\ issuer'[c] = call[c].user
      /\ call'[c].step = "log" /\ call'[c].user = call[c].user
      /\ \A d \in Calls : d # c => policy'[d] = policy[d] /\ issuer'[d] = issuer[d] /\ call'[d] = call[d]
  BY <1>1 DEF Row, Local, LocalKept, Inv, TypeOK
<1> HIDE DEF row, l
<1>3. policy[c].status = "none" /\ signed[c] = {} /\ voided[c] = {}
  BY <1>1 DEF PolicySerial, ApprovalsOf
<1>4. AwardsOK'
  <2>1. Existing' = Existing \union {c} /\ c \notin Existing BY <1>2, <1>3 DEF Existing
  <2>2. IsFiniteSet(Existing) /\ Cardinality(Existing) \in Nat /\ awards \in Nat
    BY FS_CardinalityType DEF SerialInv, AwardsOK
  <2>3. IsFiniteSet(Existing') /\ Cardinality(Existing') = Cardinality(Existing) + 1
    BY <2>1, <2>2, FS_AddElement
  <2>4. Cardinality(Existing) < awards BY <1>1 DEF LocalSerial
  <2> QED BY <1>1, <2>2, <2>3, <2>4 DEF AwardsOK
<1>5. \A d \in Calls : d # c => call[d].step \in {"idle", "done"}
  BY <1>1 DEF SerialInv, OneInFlight, InFlight
<1>6. \A d \in Calls : LocalSerial(d)'
  BY <1>2, <1>5 DEF LocalSerial, Approving
<1>7. \A d \in Calls : call[d].step = "done" => call'[d].step = "done"
  BY <1>1, <1>2
<1>8. ASSUME NEW p \in Calls PROVE PolicySerial(p)'
  <2>1. PolicySerial(p) BY DEF SerialInv
  <2>2. CASE p = c
    <3>1. ApprovalsOf(c)' BY <1>1, <1>2, <1>3 DEF ApprovalsOf, Posted, Signed, Issued
    <3>2. RenewedAt(c)' BY <1>1, <1>3 DEF RenewedAt, Issued
    <3>3. DutiesOf(c)' BY <1>1, <1>2, <1>3 DEF DutiesOf
    <3> QED BY <2>2, <3>1, <3>2, <3>3, <1>2 DEF PolicySerial
  <2>3. CASE p # c
    <3>1. \A x \in signed[p] : x.call \in Calls BY DEF Inv, TypeOK, Signatures
    <3>2. ApprovalsOf(p)'
      BY <1>1, <1>2, <1>7, <2>1, <2>3, <3>1 DEF PolicySerial, ApprovalsOf, Posted, Signed, Issued
    <3>3. RenewedAt(p)' BY <1>1, <1>2, <2>1, <2>3 DEF PolicySerial, RenewedAt, SignedAnew, Issued
    <3>4. DutiesOf(p)' BY <1>1, <1>2, <2>1, <2>3 DEF PolicySerial, DutiesOf
    <3>5. call'[p].step \in {"idle", "issue"} => policy'[p].status = "none"
      BY <1>2, <2>1, <2>3 DEF PolicySerial
    <3> QED BY <3>2, <3>3, <3>4, <3>5 DEF PolicySerial
  <2> QED BY <2>2, <2>3
<1> QED BY <1>4, <1>6, <1>8 DEF SerialInv

\* Calls that write no policy, or die.
LEMMA OthersAreSerial ==
    ASSUME Inv, SerialInv, OneInFlight', NEW c \in Calls, CommitRevertRequest(c) \/ LogIssue(c) \/ Crash(c)
    PROVE  SerialInv'
<1>1. /\ LocalKept(c, call[c]) /\ LocalSerial(c) /\ call[c].step \notin {"idle", "done"}
      /\ call' = [call EXCEPT ![c] = Over] /\ UNCHANGED <<policy, signed, voided, issuer, awards>>
  BY DEF CommitRevertRequest, LogIssue, Crash, At, Finish, InFlight, Inv, Kept, SerialInv
<1>2. request' = "AWARDED" => request = "AWARDED"
  BY <1>1 DEF CommitRevertRequest, LogIssue, Crash, At, LocalKept
<1>3. AwardsOK'
  <2>1. Existing' = Existing BY <1>1 DEF Existing
  <2> QED BY <1>1, <1>2, <2>1 DEF SerialInv, AwardsOK
<1>4. call'[c].step = "done" BY <1>1 DEF Over, Local, Inv, TypeOK
<1>5. LocalSerial(c)' BY <1>4 DEF LocalSerial, Approving
<1>6. crashes' = 0 => crashes = 0 /\ ~ Crash(c)
  BY CrashesAssumption DEF CommitRevertRequest, LogIssue, Crash, Inv, TypeOK
<1>7. \A p \in Calls : p # c => issuerLog'[p] = issuerLog[p]
  BY DEF CommitRevertRequest, LogIssue, Crash, Inv, TypeOK
<1>8. crashes' = 0 /\ policy[c].status # "none" => issuerLog'[c] = issuer[c]
  <2>1. CASE LogIssue(c) BY <2>1, <1>1 DEF LogIssue, At, LocalSerial, Inv, TypeOK
  <2>2. CASE CommitRevertRequest(c)
    BY <2>2, <1>6 DEF CommitRevertRequest, At, SerialInv, PolicySerial, DutiesOf
  <2> QED BY <1>6, <2>1, <2>2
<1>9. awards' >= awards BY <1>1 DEF SerialInv, AwardsOK
<1> QED BY <1>1, <1>3, <1>5, <1>6, <1>7, <1>8, <1>9, OnlyCallIsSerial DEF Over, Local

LEMMA NextIsSerial == Inv /\ SerialInv /\ OneInFlight' /\ [Next]_vars => SerialInv'
<1> SUFFICES ASSUME Inv, SerialInv, OneInFlight', [Next]_vars PROVE SerialInv' OBVIOUS
<1>1. CASE UNCHANGED vars
  BY <1>1 DEF vars, SerialInv, AwardsOK, Existing, PolicySerial, LocalSerial, Approving, ApprovalsOf,
              RenewedAt, DutiesOf, Posted, Signed, SignedAnew, Issued
<1>2. CASE Next
  <2>1. PICK c \in Calls : \/ OnRequest(c)
                           \/ \E p \in Calls : OnPolicy(c, p)
                           \/ Continue(c)
                           \/ Crash(c)
    BY <1>2 DEF Next
  <2>2. CASE OnRequest(c) BY <2>2, RequestIsSerial
  <2>3. CASE \E p \in Calls : OnPolicy(c, p) BY <2>3, ApprovalStartsSerial
  <2>4. CASE Continue(c)
    BY <2>4, IssueIsSerial, TechnicalIsSerial, RevertIsSerial, StepIsSerial, BooksIsSerial,
       CancelIsSerial, OthersAreSerial DEF Continue
  <2>5. CASE Crash(c) BY <2>5, OthersAreSerial
  <2> QED BY <2>1, <2>2, <2>3, <2>4, <2>5
<1> QED BY <1>1, <1>2

\* A step moves one call, so the instances that serve one at a time keep to it.
LEMMA OneInFlightStays ==
    ASSUME Inv, OneInFlight, [Next]_vars, Cardinality(InFlight') <= 1
    PROVE  OneInFlight'
<1>1. PICK c : InFlight' \subseteq InFlight \union {c}
  <2>1. CASE UNCHANGED vars BY <2>1 DEF vars, InFlight
  <2>2. CASE Next
    <3>1. PICK c \in Calls : \/ OnRequest(c)
                             \/ \E p \in Calls : OnPolicy(c, p)
                             \/ Continue(c)
                             \/ Crash(c)
      BY <2>2 DEF Next
    <3>2. \E local : call' = [call EXCEPT ![c] = local]
      <4>1. CASE OnRequest(c)
        BY <4>1 DEF OnRequest, SelectQuotation, CreateSlip, RevertRequest, Configure, IssuePolicy, Begin
      <4>2. CASE \E p \in Calls : OnPolicy(c, p)
        BY <4>2 DEF OnPolicy, ApproveTechnical, ApproveStep, ApprovePolicy, RevertPolicy, CancelPolicy, Begin
      <4>3. CASE Continue(c) \/ Crash(c)
        BY <4>3 DEF Continue, CommitRevertRequest, CommitIssue, LogIssue, CommitTechnical, CommitStep,
           CommitBooks, CommitRevert, CommitCancel, Crash, Finish
      <4> QED BY <3>1, <4>1, <4>2, <4>3
    <3> QED BY <3>2 DEF InFlight, Inv, TypeOK
  <2> QED BY <2>1, <2>2
<1> QED BY <1>1, AtMostOneMore DEF OneInFlight

\* Under any load that serves one call at a time, whatever the numbers of calls,
\* users and steps and the chains: what a call has read holds when it writes.
THEOREM SerialApprovalsSafe == MCSpec => [](Serial => SerialInv)
<1>1. MCInit => (Serial => SerialInv)
  <2> SUFFICES ASSUME Init PROVE SerialInv BY DEF MCInit
  <2>1. InFlight = {} /\ Existing = {} BY DEF Init, Idle, Local, InFlight, Row, Existing
  <2>2. AwardsOK BY <2>1, FS_EmptySet DEF Init, AwardsOK
  <2>3. \A c \in Calls : call[c].step = "idle" /\ policy[c].status = "none" /\ signed[c] = {} /\ voided[c] = {}
    BY DEF Init, Idle, Local, Row
  <2>4. \A c \in Calls : PolicySerial(c) /\ LocalSerial(c)
    BY <2>3 DEF PolicySerial, ApprovalsOf, RenewedAt, DutiesOf, LocalSerial, Approving, Posted, Signed, Issued
  <2> QED BY <2>1, <2>2, <2>4 DEF SerialInv, OneInFlight
<1>2. MCSpec => Spec
  <2>1. MCInit => Init BY DEF MCInit
  <2>2. [MCNext]_MCVars => [Next]_vars BY DEF MCNext, MCVars, vars
  <2> QED BY <2>1, <2>2, PTL DEF MCSpec, Spec
<1>3. Inv /\ (Serial => SerialInv) /\ [MCNext]_MCVars => (Serial => SerialInv)'
  <2> SUFFICES ASSUME Inv, Serial => SerialInv, [MCNext]_MCVars, Serial' PROVE SerialInv' OBVIOUS
  <2>1. [Next]_vars /\ SerialInv BY DEF MCNext, MCVars, vars, Serial
  <2>2. OneInFlight'
    <3>1. CASE MCNext
      <4>1. Cardinality(InFlight') <= 1 BY <3>1 DEF MCNext, Within, Serial
      <4> QED BY <2>1, <4>1, OneInFlightStays DEF SerialInv
    <3>2. CASE UNCHANGED MCVars
      BY <3>2, <2>1 DEF MCVars, vars, SerialInv, OneInFlight, InFlight
    <3> QED BY <3>1, <3>2
  <2> QED BY <2>1, <2>2, NextIsSerial
<1> QED BY <1>1, <1>2, <1>3, ApprovalsSafe, PTL DEF MCSpec

\* The books of a policy are posted once and an award is used for one policy,
\* when approvals, awards and reverts are served one at a time.
THEOREM SerialAlwaysPostedOnce == MCSpec => []SerialPostedOnce
<1>1. (Serial => SerialInv) => SerialPostedOnce
  BY DEF SerialInv, PolicySerial, ApprovalsOf, AwardsOK, Existing, SerialPostedOnce,
         BooksPostedOnce, OnePolicyPerAward
<1> QED BY <1>1, SerialApprovalsSafe, PTL

\* A policy that was taken back is not posted on approvals given before, when
\* calls are served one at a time: every step always required is signed anew.
THEOREM SerialAlwaysReapproved == MCSpec => []SerialReapprovedAfterRevert
<1>1. (Serial => SerialInv) => SerialReapprovedAfterRevert
  <2> SUFFICES ASSUME Serial, SerialInv, NEW p \in Calls, Posted(p), voided[p] # {},
                      NEW gate \in AlwaysSteps \union {"technical"}
               PROVE  SignedAnew(p, gate)
    BY DEF SerialReapprovedAfterRevert, ReapprovedAfterRevert
  <2>1. ApprovalsOf(p) /\ RenewedAt(p) BY DEF SerialInv, PolicySerial
  <2> QED BY <2>1 DEF ApprovalsOf, RenewedAt, Issued
<1> QED BY <1>1, SerialApprovalsSafe, PTL

\* Where duties are segregated nobody approves the policy he issued, when calls
\* are served one at a time and none has died before its audit entry.
THEOREM SerialAlwaysSegregated == MCSpec => []SerialSegregationOfDuties
<1>1. (Serial => SerialInv) => SerialSegregationOfDuties
  BY DEF SerialInv, PolicySerial, DutiesOf, SerialSegregationOfDuties, SegregationOfDuties
<1> QED BY <1>1, SerialApprovalsSafe, PTL
=============================================================================
