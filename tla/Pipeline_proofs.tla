---------------------------- MODULE Pipeline_proofs ----------------------------
(***************************************************************************)
(* What holds of Pipeline for any number of calls, deals and insurers,     *)
(* however calls interleave and die.                                       *)
(*                                                                         *)
(* A call decides on rows it has read and writes some other time. The      *)
(* invariant says what of them is still so then: a row that exists stays,  *)
(* a quotation stays with its slip and a request with its deal, and        *)
(* nobody else writes the row that a call is going to create.              *)
(*                                                                         *)
(* Served one at a time, what a call has read is current, so what its      *)
(* checks found missing is still missing when it writes, and what it found *)
(* agreed is still agreed.                                                 *)
(***************************************************************************)
EXTENDS MCPipeline, FiniteSetTheorems, TLAPS

Steps == {"idle", "done", "deal", "convert", "renew", "copy", "request", "update", "revert", "slip", "mail",
          "mailed", "quote", "select", "present", "accept", "decline", "cover", "uncover", "issue", "review"}

Live(table, x) == x \in Rows /\ table[x] # None

\* What a call c with the local variables l may count on: the row it is going to
\* create is not there, the rows it is about are, and its values are sound.
OwnOK(c, l) ==
    /\ l.step \in {"idle", "convert", "renew", "request"} => requests[c] = None
    /\ l.step \in {"idle", "slip"} => slips[c] = None
    /\ l.step \in {"idle", "quote"} => quotations[c] = None
    /\ l.step = "copy" => requests[c] # None

OtherOK(l) ==
    /\ l.step \in {"update", "revert", "slip", "issue"} => Live(requests, l.of)
    /\ l.step \in {"mail", "mailed", "quote", "select", "present", "accept", "decline"} => Live(slips, l.of)
    /\ l.step \in {"select", "accept"} => l.value \in QuotationsOf(l.of)
    /\ l.step = "present" => l.set \subseteq QuotationsOf(l.of)
    /\ l.step = "uncover" => Live(covers, l.of)
    /\ l.step \in {"renew", "review"} => Live(policies, l.of)

ValuesOK(l) ==
    /\ l.step \in Steps
    /\ l.step \in {"deal", "convert"} => l.of \in Deals
    /\ l.step = "deal" => l.value \in {"open", "won", "lost"}
    /\ l.step = "revert" => l.value \in {"DRAFT", "QUOTING"}
    /\ l.step \in {"mail", "mailed"} => l.set \subseteq Insurers
    /\ l.step = "cover" => l.of \in Rows
    /\ l.step = "issue" => l.value \in Rows
    /\ l.step = "review" => l.value \in PolicyStatus

LocalOK(c, l) == OwnOK(c, l) /\ OtherOK(l) /\ ValuesOK(l)

\* Rows name rows that exist, and what is put before a client is of its slip.
LinksOK ==
    /\ \A s \in Existing(slips) : /\ Live(requests, slips[s].request)
                                  /\ slips[s].presented \subseteq QuotationsOf(s)
    /\ \A q \in Existing(quotations) : quotations[q].slip \in Existing(slips)

PolicyLinks == \A p \in Existing(policies) : policies[p].request \in {None} \union Existing(requests)

Inv ==
    /\ TypeOK
    /\ call = [c \in Calls |-> call[c]]
    /\ \A c \in Calls : LocalOK(c, call[c])
    /\ LinksOK
    /\ PolicyLinks
    /\ OneFirmOrder
    /\ DealShowsItsRequest

USE CallsAssumption, NoneAssumption, BoundsAssumption

-----------------------------------------------------------------------------
(* What a step of the call c does to a table: rows stay, keep what names    *)
(* them, and only the call's own row may appear.                            *)

Keeps(table, moved, c) ==
    /\ \A x \in Rows : table[x] # None => moved[x] # None
    /\ \A x \in Rows \ {c} : table[x] = None => moved[x] = None

RequestsMove(c) ==
    /\ requests' \in [Rows -> RequestRow \union {None}]
    /\ Keeps(requests, requests', c)
    /\ \A x \in Existing(requests) : requests'[x].deal = requests[x].deal

SlipsMove(c) ==
    /\ slips' \in [Rows -> SlipRow \union {None}]
    /\ Keeps(slips, slips', c)

QuotationsMove(c) ==
    /\ quotations' \in [Rows -> QuotationRow \union {None}]
    /\ Keeps(quotations, quotations', c)
    /\ \A x \in Existing(quotations) : quotations'[x].slip = quotations[x].slip

OthersMove(c) ==
    /\ covers' \in [Rows -> CoverRow \union {None}] /\ Keeps(covers, covers', c)
    /\ policies' \in [Rows -> PolicyRow \union {None}] /\ Keeps(policies, policies', c)
    /\ \A p \in Rows : policies'[p] # None => policies'[p].request \in {None} \union Existing(requests)
    /\ mailed' \in [Rows -> SUBSET Insurers]

LEMMA Untouched ==
    ASSUME TypeOK, PolicyLinks, NEW c \in Calls
    PROVE  /\ UNCHANGED requests => RequestsMove(c)
           /\ UNCHANGED slips => SlipsMove(c)
           /\ UNCHANGED quotations => QuotationsMove(c)
           /\ UNCHANGED <<covers, policies, mailed>> => OthersMove(c)
BY DEF TypeOK, PolicyLinks, RequestsMove, SlipsMove, QuotationsMove, OthersMove, Keeps, Existing

LEMMA QuotationsStay ==
    ASSUME NEW c \in Calls, QuotationsMove(c), NEW s
    PROVE  QuotationsOf(s) \subseteq QuotationsOf(s)'
BY DEF QuotationsMove, Keeps, QuotationsOf, Existing

\* What another call counts on stays.
LEMMA LocalStays ==
    ASSUME NEW c \in Calls, NEW d \in Calls, d # c, NEW l, LocalOK(d, l),
           RequestsMove(c), SlipsMove(c), QuotationsMove(c), OthersMove(c)
    PROVE  LocalOK(d, l)'
<1>1. d \in Rows \ {c}
  BY DEF Rows
<1>2. OwnOK(d, l)'
  BY <1>1 DEF LocalOK, OwnOK, RequestsMove, SlipsMove, QuotationsMove, Keeps
<1>3. QuotationsOf(l.of) \subseteq QuotationsOf(l.of)'
  BY QuotationsStay
<1>4. \A x : /\ Live(requests, x) => Live(requests, x)'
             /\ Live(slips, x) => Live(slips, x)'
             /\ Live(covers, x) => Live(covers, x)'
             /\ Live(policies, x) => Live(policies, x)'
  BY DEF Live, RequestsMove, SlipsMove, OthersMove, Keeps
<1>5. OtherOK(l)'
  BY <1>3, <1>4 DEF LocalOK, OtherOK
<1>6. ValuesOK(l)'
  BY DEF LocalOK, ValuesOK
<1> QED BY <1>2, <1>5, <1>6 DEF LocalOK

\* One call moves.
LEMMA StepKeeps ==
    ASSUME Inv, NEW c \in Calls, NEW l, call' = [call EXCEPT ![c] = l], LocalOK(c, l)',
           RequestsMove(c), SlipsMove(c), QuotationsMove(c), OthersMove(c),
           deals' \in [Deals -> DealRow], crashes' \in 0..MaxCrashes,
           LinksOK', OneFirmOrder', DealShowsItsRequest'
    PROVE  Inv'
<1>1. /\ call' = [d \in Calls |-> call'[d]]
      /\ call'[c] = l
      /\ \A d \in Calls : d # c => call'[d] = call[d]
  BY DEF Inv
<1>2. ASSUME NEW d \in Calls PROVE LocalOK(d, call[d])'
  <2>1. CASE d = c
    BY <1>1, <2>1
  <2>2. CASE d # c
    <3>1. PICK k : k = call[d] /\ k = call'[d] /\ LocalOK(d, k)
      BY <1>1, <2>2 DEF Inv
    <3>2. LocalOK(d, k)'
      BY <2>2, <3>1, LocalStays
    <3> QED BY <3>1, <3>2
  <2> QED BY <2>1, <2>2
<1>3. TypeOK'
  BY DEF TypeOK, RequestsMove, SlipsMove, QuotationsMove, OthersMove
<1>4. PolicyLinks'
  <2>1. \A r \in Existing(requests) : r \in Existing(requests)'
    BY DEF RequestsMove, Keeps, Existing
  <2>2. \A p \in Existing(policies)' : policies'[p].request \in {None} \union Existing(requests)
    BY DEF OthersMove, Existing
  <2> QED BY <2>1, <2>2 DEF PolicyLinks
<1> QED BY <1>1, <1>2, <1>3, <1>4 DEF Inv

\* A request that is made or changed leaves deals, links and orders as they are.
LEMMA RequestsKeep ==
    ASSUME Inv, NEW c \in Calls, RequestsMove(c)
    PROVE  /\ UNCHANGED deals => DealShowsItsRequest'
           /\ UNCHANGED <<slips, quotations>> => LinksOK' /\ OneFirmOrder'
<1>1. \A x : Live(requests, x) => Live(requests, x)'
  BY DEF Live, RequestsMove, Keeps
<1>2. UNCHANGED deals => DealShowsItsRequest'
  <2> SUFFICES ASSUME UNCHANGED deals, NEW d \in Deals, deals[d].request # None
               PROVE  /\ requests'[deals[d].request] # None
                      /\ requests'[deals[d].request].deal = d
    BY DEF DealShowsItsRequest
  <2>1. deals[d].request \in Rows
    BY DEF Inv, TypeOK, DealRow
  <2>2. requests[deals[d].request] # None /\ requests[deals[d].request].deal = d
    BY DEF Inv, DealShowsItsRequest
  <2> QED BY <2>1, <2>2 DEF RequestsMove, Keeps, Existing
<1>3. ASSUME UNCHANGED <<slips, quotations>> PROVE LinksOK' /\ OneFirmOrder'
  <2>1. \A s : QuotationsOf(s)' = QuotationsOf(s)
    BY <1>3 DEF QuotationsOf, Existing
  <2> QED BY <1>1, <1>3, <2>1 DEF Inv, LinksOK, OneFirmOrder, Existing
<1> QED BY <1>2, <1>3

\* Slips that change, or the call's own that is made, leave the orders of the
\* quotations as they are, when they keep their order.
LEMMA SlipsKeep ==
    ASSUME Inv, NEW c \in Calls, SlipsMove(c), RequestsMove(c), UNCHANGED quotations,
           \A s \in Existing(slips) : /\ slips'[s].request = slips[s].request
                                      /\ slips'[s].selected = slips[s].selected
                                      /\ slips'[s].presented \subseteq QuotationsOf(s),
           slips[c] = None /\ slips'[c] # None =>
               Live(requests, slips'[c].request) /\ slips'[c].selected = None /\ slips'[c].presented = {}
    PROVE  LinksOK' /\ OneFirmOrder'
<1>1. \A s : QuotationsOf(s)' = QuotationsOf(s)
  BY DEF QuotationsOf, Existing
<1>2. \A x : Live(requests, x) => Live(requests, x)'
  BY DEF Live, RequestsMove, Keeps
<1>3. ASSUME NEW s \in Rows, slips'[s] # None, slips[s] = None
      PROVE  /\ slips'[s].request \in Rows /\ requests'[slips'[s].request] # None
             /\ slips'[s].selected = None /\ slips'[s].presented = {} /\ QuotationsOf(s) = {}
  <2>1. s = c
    BY <1>3 DEF SlipsMove, Keeps
  <2>2. QuotationsOf(s) = {}
    BY <1>3 DEF Inv, LinksOK, QuotationsOf, Existing
  <2>3. Live(requests, slips'[s].request)
    BY <1>3, <2>1
  <2>4. PICK x : x = slips'[s].request /\ Live(requests, x)'
    BY <1>2, <2>3
  <2> QED BY <1>3, <2>1, <2>2, <2>4 DEF Live
<1>4. ASSUME NEW s \in Rows, slips[s] # None
      PROVE  slips'[s].request \in Rows /\ requests'[slips'[s].request] # None
  <2>1. Live(requests, slips[s].request) /\ slips'[s].request = slips[s].request
    BY <1>4 DEF Inv, LinksOK, Existing
  <2>2. PICK x : x = slips'[s].request /\ Live(requests, x)'
    BY <1>2, <2>1
  <2> QED BY <2>2 DEF Live
<1>5. LinksOK'
  <2>1. \A q \in Existing(quotations) : quotations[q].slip \in Existing(slips)'
    BY DEF Inv, LinksOK, Existing, SlipsMove, Keeps
  <2>2. ASSUME NEW s \in Rows, slips'[s] # None
        PROVE  Live(requests, slips[s].request)' /\ slips'[s].presented \subseteq QuotationsOf(s)
    BY <1>3, <1>4, <2>2 DEF Live, Existing
  <2> QED BY <1>1, <2>1, <2>2 DEF LinksOK, Existing
<1>6. OneFirmOrder'
  BY <1>1, <1>3 DEF Inv, OneFirmOrder, Existing
<1> QED BY <1>5, <1>6

\* A call changes nothing but itself: it is let in, it has read, or it dies.
LEMMA QuietStepKeeps ==
    ASSUME Inv, NEW c \in Calls, NEW l, call' = [call EXCEPT ![c] = l], LocalOK(c, l),
           UNCHANGED rows, crashes' \in 0..MaxCrashes
    PROVE  Inv'
<1>1. UNCHANGED <<deals, requests, slips, quotations, covers, policies, mailed>>
  BY DEF rows
<1>2. RequestsMove(c) /\ SlipsMove(c) /\ QuotationsMove(c) /\ OthersMove(c)
  BY <1>1, Untouched DEF Inv
<1>3. LinksOK' /\ OneFirmOrder' /\ DealShowsItsRequest'
  BY <1>1, <1>2, RequestsKeep
<1>4. LocalOK(c, l)'
  <2>1. \A s : QuotationsOf(s)' = QuotationsOf(s)
    BY <1>1 DEF QuotationsOf, Existing
  <2> QED BY <1>1, <2>1 DEF LocalOK, OwnOK, OtherOK, ValuesOK, Live
<1>5. deals' \in [Deals -> DealRow]
  BY <1>1 DEF Inv, TypeOK
<1> QED BY <1>2, <1>3, <1>4, <1>5, StepKeeps

LEMMA OverIsOver == Over.step = "done" /\ \A c : LocalOK(c, Over)
BY DEF Over, Local, LocalOK, OwnOK, OtherOK, ValuesOK, Steps

-----------------------------------------------------------------------------
(* The steps                                                                *)

LEMMA InitHolds == Init => Inv
<1> SUFFICES ASSUME Init PROVE Inv
  OBVIOUS
<1>1. 0 \in Rows /\ Calls \subseteq Rows /\ 0 \notin Calls
  BY DEF Rows
<1>2. PICK shown \in BOOLEAN :
          slips = [x \in Rows |->
              IF x # 0 THEN None
              ELSE [Slip(0, "QUOTED", {}) EXCEPT !.presented = IF shown THEN {0} ELSE {},
                                                !.decision = IF shown THEN "pending" ELSE None]]
  BY DEF Init
<1> DEFINE slip == slips[0]
<1>3. /\ slip.request = 0 /\ slip.status = "QUOTED" /\ slip.insurers = {} /\ slip.selected = None
      /\ slip.presented = (IF shown THEN {0} ELSE {}) /\ slip.decision = (IF shown THEN "pending" ELSE None)
      /\ slip.accepted = None
      /\ slip = [request |-> slip.request, status |-> slip.status, insurers |-> slip.insurers,
                 selected |-> slip.selected, presented |-> slip.presented, decision |-> slip.decision,
                 accepted |-> slip.accepted]
  BY <1>1, <1>2 DEF Slip
<1>4. slip \in SlipRow
  BY <1>1, <1>3 DEF SlipRow
<1>5. Request("QUOTING", None, None, {"entered"}) \in RequestRow
  <2>1. {"entered"} \in SUBSET {"entered", "copied"}
    OBVIOUS
  <2> QED BY <2>1 DEF Request, RequestRow, RequestStatus
<1>6. Quotation(0, "RECEIVED") \in QuotationRow /\ Policy(None, None, "ISSUED") \in PolicyRow
  BY <1>1 DEF Quotation, QuotationRow, Policy, PolicyRow, PolicyStatus
<1>7. \A x \in Rows : x # 0 => slips[x] = None /\ requests[x] = None /\ quotations[x] = None
  BY <1>2 DEF Init
<1>8. slips \in [Rows -> SlipRow \union {None}]
  <2>1. slips = [x \in Rows |-> slips[x]]
    BY <1>2
  <2> QED BY <1>4, <1>7, <2>1
<1>9. requests \in [Rows -> RequestRow \union {None}] /\ quotations \in [Rows -> QuotationRow \union {None}]
  BY <1>5, <1>6 DEF Init
<1>10. /\ policies \in [Rows -> PolicyRow \union {None}] /\ covers \in [Rows -> CoverRow \union {None}]
       /\ mailed \in [Rows -> SUBSET Insurers] /\ crashes \in 0..MaxCrashes
  BY <1>6 DEF Init
<1>11. deals \in [Deals -> DealRow]
  BY DEF Init, DealRow
<1>12. TypeOK
  BY <1>8, <1>9, <1>10, <1>11 DEF TypeOK
<1>13. call = [c \in Calls |-> Idle] /\ Idle.step = "idle"
  BY DEF Init, Idle, Local
<1>14. ASSUME NEW c \in Calls PROVE LocalOK(c, call[c])
  BY <1>1, <1>7, <1>13 DEF LocalOK, OwnOK, OtherOK, ValuesOK, Steps
<1>15. requests[0] # None /\ quotations[0] = Quotation(0, "RECEIVED")
  BY <1>1, <1>5 DEF Init
<1>16. quotations[0] # None /\ quotations[0].slip = 0 /\ quotations[0].status = "RECEIVED" /\ slip # None
  BY <1>4, <1>6, <1>15 DEF Quotation
<1>17. Existing(slips) = {0} /\ QuotationsOf(0) = {0}
  BY <1>1, <1>7, <1>16, ZenonT(60) DEF Existing, QuotationsOf
<1>18. LinksOK
  BY <1>1, <1>3, <1>7, <1>15, <1>16, <1>17 DEF LinksOK, Live, Existing
<1>19. OneFirmOrder
  BY <1>3, <1>16, <1>17 DEF OneFirmOrder
<1>20. DealShowsItsRequest
  BY DEF Init, DealShowsItsRequest
<1>21. PolicyLinks
  BY DEF Init, PolicyLinks, Existing, Policy
<1> QED BY <1>12, <1>13, <1>14, <1>18, <1>19, <1>20, <1>21 DEF Inv

\* A call is let in with sound values about rows that are there.
LEMMA BeginKeeps ==
    ASSUME Inv, NEW c \in Calls, NEW step, NEW of, NEW value, NEW set, Begin(c, Local(step, of, value, set)),
           OtherOK(Local(step, of, value, set)), ValuesOK(Local(step, of, value, set)), step # "copy"
    PROVE  Inv'
<1>1. Local(step, of, value, set).step = step
  BY DEF Local
<1>2. LocalOK(c, call[c]) /\ call[c].step = "idle"
  BY DEF Inv, Begin
<1>3. LocalOK(c, Local(step, of, value, set))
  BY <1>1, <1>2 DEF LocalOK, OwnOK
<1>4. /\ call' = [call EXCEPT ![c] = Local(step, of, value, set)]
      /\ UNCHANGED rows /\ crashes' \in 0..MaxCrashes
  BY DEF Begin, Inv, TypeOK
<1> QED BY <1>3, <1>4, QuietStepKeeps

LEMMA StartKeeps ==
    ASSUME Inv, NEW c \in Calls, Start(c)
    PROVE  Inv'
<1>1. \A step, of, value, set : /\ Local(step, of, value, set).step = step
                                /\ Local(step, of, value, set).of = of
                                /\ Local(step, of, value, set).value = value
                                /\ Local(step, of, value, set).set = set
  BY DEF Local
<1>2. ASSUME NEW d \in Deals, ConvertDeal(c, d) PROVE Inv'
  <2>1. OtherOK(Local("convert", d, None, {})) /\ ValuesOK(Local("convert", d, None, {}))
    BY <1>1 DEF OtherOK, ValuesOK, Steps
  <2> QED BY <1>2, <2>1, BeginKeeps DEF ConvertDeal
<1>3. ASSUME NEW d \in Deals, NEW status \in {"open", "won", "lost"}, UpdateDeal(c, d, status) PROVE Inv'
  <2>1. OtherOK(Local("deal", d, status, {})) /\ ValuesOK(Local("deal", d, status, {}))
    BY <1>1 DEF OtherOK, ValuesOK, Steps
  <2> QED BY <1>3, <2>1, BeginKeeps DEF UpdateDeal
<1>4. ASSUME CreateRequest(c) PROVE Inv'
  <2>1. OtherOK(Local("request", None, None, {})) /\ ValuesOK(Local("request", None, None, {}))
    BY <1>1 DEF OtherOK, ValuesOK, Steps
  <2> QED BY <1>4, <2>1, BeginKeeps DEF CreateRequest
<1>5. ASSUME NEW x \in Rows, InitiateRenewal(c, x) PROVE Inv'
  <2>1. OtherOK(Local("renew", x, None, {})) /\ ValuesOK(Local("renew", x, None, {}))
    BY <1>1, <1>5 DEF InitiateRenewal, OtherOK, ValuesOK, Steps, Live
  <2> QED BY <1>5, <2>1, BeginKeeps DEF InitiateRenewal
<1>6. ASSUME NEW x \in Rows, UpdateRequest(c, x) PROVE Inv'
  <2>1. OtherOK(Local("update", x, None, {})) /\ ValuesOK(Local("update", x, None, {}))
    BY <1>1, <1>6 DEF UpdateRequest, OtherOK, ValuesOK, Steps, Live
  <2> QED BY <1>6, <2>1, BeginKeeps DEF UpdateRequest
<1>7. ASSUME NEW x \in Rows, RevertRequest(c, x) PROVE Inv'
  <2>1. requests[x].status = "QUOTING" \/ requests[x].status = "AWARDED"
    BY <1>7 DEF RevertRequest, Previous
  <2>2. Previous[requests[x].status] \in {"DRAFT", "QUOTING"}
    BY <2>1 DEF Previous
  <2>3. /\ OtherOK(Local("revert", x, Previous[requests[x].status], {}))
        /\ ValuesOK(Local("revert", x, Previous[requests[x].status], {}))
    BY <1>1, <1>7, <2>2 DEF RevertRequest, OtherOK, ValuesOK, Steps, Live
  <2> QED BY <1>7, <2>3, BeginKeeps DEF RevertRequest
<1>8. ASSUME NEW x \in Rows, CreateSlip(c, x) PROVE Inv'
  <2>1. OtherOK(Local("slip", x, None, {})) /\ ValuesOK(Local("slip", x, None, {}))
    BY <1>1, <1>8 DEF CreateSlip, OtherOK, ValuesOK, Steps, Live
  <2> QED BY <1>8, <2>1, BeginKeeps DEF CreateSlip
<1>9. ASSUME NEW x \in Rows, SendRfq(c, x) PROVE Inv'
  <2>1. slips[x].insurers \subseteq Insurers
    BY <1>9 DEF SendRfq, Open, Inv, TypeOK, SlipRow
  <2>2. OtherOK(Local("mail", x, None, slips[x].insurers)) /\ ValuesOK(Local("mail", x, None, slips[x].insurers))
    BY <1>1, <1>9, <2>1 DEF SendRfq, Open, OtherOK, ValuesOK, Steps, Live
  <2> QED BY <1>9, <2>2, BeginKeeps DEF SendRfq
<1>10. ASSUME NEW x \in Rows, AddQuotation(c, x) PROVE Inv'
  <2>1. OtherOK(Local("quote", x, slips[x].status, {})) /\ ValuesOK(Local("quote", x, slips[x].status, {}))
    BY <1>1, <1>10 DEF AddQuotation, Open, OtherOK, ValuesOK, Steps, Live
  <2> QED BY <1>10, <2>1, BeginKeeps DEF AddQuotation
<1>11. ASSUME NEW x \in Rows, DeclineProposal(c, x) PROVE Inv'
  <2>1. OtherOK(Local("decline", x, None, {})) /\ ValuesOK(Local("decline", x, None, {}))
    BY <1>1, <1>11 DEF DeclineProposal, Undecided, OtherOK, ValuesOK, Steps, Live
  <2> QED BY <1>11, <2>1, BeginKeeps DEF DeclineProposal
<1>12. ASSUME NEW x \in Rows, IssueCover(c, x) PROVE Inv'
  <2>1. OtherOK(Local("cover", x, None, {})) /\ ValuesOK(Local("cover", x, None, {}))
    BY <1>1 DEF OtherOK, ValuesOK, Steps
  <2> QED BY <1>12, <2>1, BeginKeeps DEF IssueCover
<1>13. ASSUME NEW x \in Rows, CancelCover(c, x) PROVE Inv'
  <2>1. OtherOK(Local("uncover", x, None, {})) /\ ValuesOK(Local("uncover", x, None, {}))
    BY <1>1, <1>13 DEF CancelCover, OtherOK, ValuesOK, Steps, Live
  <2> QED BY <1>13, <2>1, BeginKeeps DEF CancelCover
<1>14. ASSUME NEW x \in Rows, IssuePolicy(c, x) PROVE Inv'
  <2>1. PICK s \in Orderable(x) : Begin(c, Local("issue", x, slips[s].selected, {}))
    BY <1>14 DEF IssuePolicy
  <2>2. slips[s].selected \in Rows /\ Live(requests, x)
    BY <1>14 DEF IssuePolicy, Orderable, QuotationsOf, Existing, Live
  <2>3. OtherOK(Local("issue", x, slips[s].selected, {})) /\ ValuesOK(Local("issue", x, slips[s].selected, {}))
    BY <1>1, <2>2 DEF OtherOK, ValuesOK, Steps
  <2> QED BY <2>1, <2>3, BeginKeeps
<1>15. ASSUME NEW x \in Rows, NEW q \in Rows, SelectQuotation(c, x, q) PROVE Inv'
  <2>1. OtherOK(Local("select", x, q, {})) /\ ValuesOK(Local("select", x, q, {}))
    BY <1>1, <1>15 DEF SelectQuotation, OtherOK, ValuesOK, Steps, Live
  <2> QED BY <1>15, <2>1, BeginKeeps DEF SelectQuotation
<1>16. ASSUME NEW x \in Rows, NEW q \in Rows, AcceptProposal(c, x, q) PROVE Inv'
  <2>1. Live(slips, x) /\ q \in QuotationsOf(x)
    BY <1>16 DEF AcceptProposal, Undecided, Live, Existing, Inv, LinksOK
  <2>2. OtherOK(Local("accept", x, q, {})) /\ ValuesOK(Local("accept", x, q, {}))
    BY <1>1, <2>1 DEF OtherOK, ValuesOK, Steps
  <2> QED BY <1>16, <2>2, BeginKeeps DEF AcceptProposal
<1>17. ASSUME NEW x \in Rows, NEW ids \in SUBSET Rows, Present(c, x, ids) PROVE Inv'
  <2>1. Live(slips, x) /\ ids \subseteq QuotationsOf(x)
    BY <1>17 DEF Present, Open, Live
  <2>2. OtherOK(Local("present", x, None, ids)) /\ ValuesOK(Local("present", x, None, ids))
    BY <1>1, <2>1 DEF OtherOK, ValuesOK, Steps
  <2> QED BY <1>17, <2>2, BeginKeeps DEF Present
<1>18. ASSUME NEW x \in Rows, NEW from, NEW to \in PolicyStatus, Review(c, x, from, to) PROVE Inv'
  <2>1. OtherOK(Local("review", x, to, {})) /\ ValuesOK(Local("review", x, to, {}))
    BY <1>1, <1>18 DEF Review, OtherOK, ValuesOK, Steps, Live
  <2> QED BY <1>18, <2>1, BeginKeeps DEF Review
<1>19. ASSUME NEW x \in Rows,
              ApproveTechnical(c, x) \/ ApprovePolicy(c, x) \/ RevertPolicy(c, x) \/ CancelPolicy(c, x)
       PROVE  Inv'
  <2>1. {"TECHNICAL_REVIEW", "FINANCE_REVIEW", "ISSUED", "CANCELLED"} \subseteq PolicyStatus
    BY DEF PolicyStatus
  <2> QED BY <1>18, <1>19, <2>1 DEF ApproveTechnical, ApprovePolicy, RevertPolicy, CancelPolicy
<1> QED BY <1>2, <1>3, <1>4, <1>5, <1>6, <1>7, <1>8, <1>9, <1>10, <1>11, <1>12, <1>13, <1>14, <1>15,
          <1>16, <1>17, <1>19 DEF Start

LEMMA CrashKeeps ==
    ASSUME Inv, NEW c \in Calls, Crash(c)
    PROVE  Inv'
<1>1. call' = [call EXCEPT ![c] = Over] /\ UNCHANGED rows /\ crashes' \in 0..MaxCrashes
  BY DEF Crash, Inv, TypeOK
<1> QED BY <1>1, OverIsOver, QuietStepKeeps

\* The last step of a call.
LEMMA FinishKeeps ==
    ASSUME Inv, NEW c \in Calls, Finish(c),
           RequestsMove(c), SlipsMove(c), QuotationsMove(c), OthersMove(c),
           deals' \in [Deals -> DealRow], LinksOK', OneFirmOrder', DealShowsItsRequest'
    PROVE  Inv'
<1>1. call' = [call EXCEPT ![c] = Over] /\ crashes' \in 0..MaxCrashes
  BY DEF Finish, Inv, TypeOK
<1>2. LocalOK(c, Over)'
  BY OverIsOver DEF Over, Local, LocalOK, OwnOK, OtherOK, ValuesOK
<1> QED BY <1>1, <1>2, StepKeeps

\* A step that writes requests only.
LEMMA RequestStepKeeps ==
    ASSUME Inv, NEW c \in Calls, Finish(c), RequestsMove(c),
           UNCHANGED <<deals, slips, quotations, covers, policies, mailed>>
    PROVE  Inv'
<1>1. SlipsMove(c) /\ QuotationsMove(c) /\ OthersMove(c)
  BY Untouched DEF Inv
<1>2. LinksOK' /\ OneFirmOrder' /\ DealShowsItsRequest'
  BY RequestsKeep
<1>3. deals' \in [Deals -> DealRow]
  BY DEF Inv, TypeOK
<1> QED BY <1>1, <1>2, <1>3, FinishKeeps

\* A request that is written anew, or one that keeps its deal.
LEMMA RequestWritten ==
    ASSUME Inv, NEW c \in Calls, NEW x \in Rows, NEW row \in RequestRow,
           requests' = [requests EXCEPT ![x] = row],
           \/ x = c /\ requests[x] = None
           \/ requests[x] # None /\ row.deal = requests[x].deal
    PROVE  RequestsMove(c)
<1>1. requests'[x] = row /\ row # None /\ \A y \in Rows : y # x => requests'[y] = requests[y]
  BY DEF Inv, TypeOK
<1>2. requests' \in [Rows -> RequestRow \union {None}]
  BY DEF Inv, TypeOK
<1> QED BY <1>1, <1>2 DEF RequestsMove, Keeps, Existing

LEMMA StatusWritten ==
    ASSUME Inv, NEW c \in Calls, NEW x, Live(requests, x),
           NEW status \in RequestStatus,
           requests' = [requests EXCEPT ![x].status = status]
    PROVE  RequestsMove(c)
<1> DEFINE row == [requests[x] EXCEPT !.status = status]
<1>1. x \in Rows /\ requests[x] \in RequestRow /\ requests[x] # None
  BY DEF Live, Inv, TypeOK
<1>2. row \in RequestRow /\ row.deal = requests[x].deal
  BY <1>1 DEF RequestRow
<1>3. requests' = [requests EXCEPT ![x] = row]
  OBVIOUS
<1> HIDE DEF row
<1> QED BY <1>1, <1>2, <1>3, RequestWritten

LEMMA CommitDealKeeps ==
    ASSUME Inv, NEW c \in Calls, CommitDeal(c)
    PROVE  Inv'
<1> DEFINE d == call[c].of
           row == [deals[d] EXCEPT !.status = call[c].value]
<1>1. LocalOK(c, call[c]) /\ call[c].step = "deal"
  BY DEF Inv, CommitDeal, At
<1>2. d \in Deals /\ call[c].value \in {"open", "won", "lost"}
  BY <1>1 DEF LocalOK, ValuesOK
<1>3. deals[d] \in DealRow
  BY <1>2 DEF Inv, TypeOK
<1>4. row \in DealRow /\ row.request = deals[d].request
  BY <1>2, <1>3 DEF DealRow
<1>5. /\ deals' = [deals EXCEPT ![d] = row] /\ Finish(c)
      /\ UNCHANGED <<requests, slips, quotations, covers, policies, mailed>>
  BY DEF CommitDeal
<1> HIDE DEF d, row
<1>6. deals' \in [Deals -> DealRow] /\ \A e \in Deals : deals'[e].request = deals[e].request
  BY <1>2, <1>4, <1>5 DEF Inv, TypeOK
<1>7. RequestsMove(c) /\ SlipsMove(c) /\ QuotationsMove(c) /\ OthersMove(c)
  BY <1>5, Untouched DEF Inv
<1>8. DealShowsItsRequest'
  BY <1>5, <1>6 DEF Inv, DealShowsItsRequest
<1>9. LinksOK' /\ OneFirmOrder'
  BY <1>5, <1>7, RequestsKeep
<1> QED BY <1>5, <1>6, <1>7, <1>8, <1>9, FinishKeeps

LEMMA RequestIsARow ==
    ASSUME NEW deal \in Deals \union {None}, NEW renews \in Rows \union {None},
           NEW form, form = {} \/ form = {"entered"}
    PROVE  Request("DRAFT", deal, renews, form) \in RequestRow
<1>1. form \in SUBSET {"entered", "copied"}
  OBVIOUS
<1> QED BY <1>1 DEF Request, RequestRow, RequestStatus

LEMMA CommitConvertKeeps ==
    ASSUME Inv, NEW c \in Calls, CommitConvert(c)
    PROVE  Inv'
<1> DEFINE d == call[c].of
           row == Request("DRAFT", d, None, {})
           deal == [status |-> "won", request |-> c]
<1>1. LocalOK(c, call[c]) /\ call[c].step = "convert"
  BY DEF Inv, CommitConvert, At
<1>2. d \in Deals /\ requests[c] = None /\ c \in Rows
  BY <1>1 DEF LocalOK, OwnOK, ValuesOK, Rows
<1>3. row \in RequestRow /\ row.deal = d
  <2>1. row \in RequestRow
    BY <1>2, RequestIsARow
  <2> QED BY <2>1 DEF Request
<1>4. deal \in DealRow /\ deal.request = c
  BY <1>2 DEF DealRow
<1>5. /\ requests' = [requests EXCEPT ![c] = row] /\ deals' = [deals EXCEPT ![d] = deal] /\ Finish(c)
      /\ UNCHANGED <<slips, quotations, covers, policies, mailed>>
  BY DEF CommitConvert
<1> HIDE DEF d, row, deal
<1>6. RequestsMove(c)
  BY <1>2, <1>3, <1>5, RequestWritten
<1>7. SlipsMove(c) /\ QuotationsMove(c) /\ OthersMove(c)
  BY <1>5, Untouched DEF Inv
<1>8. deals' \in [Deals -> DealRow] /\ deals'[d] = deal /\ \A e \in Deals : e # d => deals'[e] = deals[e]
  BY <1>2, <1>4, <1>5 DEF Inv, TypeOK
<1>9. requests'[c] = row /\ row # None
  BY <1>2, <1>3, <1>5 DEF Inv, TypeOK
<1>10. ASSUME NEW e \in Deals, deals'[e].request # None
       PROVE  requests'[deals'[e].request] # None /\ requests'[deals'[e].request].deal = e
  <2>1. CASE e = d
    BY <1>3, <1>4, <1>8, <1>9, <2>1
  <2>2. CASE e # d
    <3>1. /\ deals[e].request \in Rows /\ deals'[e].request = deals[e].request
          /\ requests[deals[e].request] # None /\ requests[deals[e].request].deal = e
      BY <1>8, <1>10, <2>2 DEF Inv, TypeOK, DealRow, DealShowsItsRequest
    <3> QED BY <1>6, <3>1 DEF RequestsMove, Keeps, Existing
  <2> QED BY <2>1, <2>2
<1>11. DealShowsItsRequest'
  BY <1>10 DEF DealShowsItsRequest
<1>12. LinksOK' /\ OneFirmOrder'
  BY <1>5, <1>6, RequestsKeep
<1> QED BY <1>5, <1>6, <1>7, <1>8, <1>11, <1>12, FinishKeeps

LEMMA CreateRenewalKeeps ==
    ASSUME Inv, NEW c \in Calls, CreateRenewal(c)
    PROVE  Inv'
<1> DEFINE p == call[c].of
           row == Request("DRAFT", None, p, {})
<1>1. LocalOK(c, call[c]) /\ call[c].step = "renew"
  BY DEF Inv, CreateRenewal, At
<1>2. p \in Rows /\ requests[c] = None /\ c \in Rows
  BY <1>1 DEF LocalOK, OwnOK, OtherOK, Live, Rows
<1>3. row \in RequestRow
  BY <1>2, RequestIsARow
<1>4. /\ requests' = [requests EXCEPT ![c] = row]
      /\ UNCHANGED <<deals, slips, quotations, covers, policies, mailed>>
  BY DEF CreateRenewal
<1>5. \/ Finish(c)
      \/ \E l : l.step = "copy" /\ call' = [call EXCEPT ![c] = l] /\ UNCHANGED crashes
  BY DEF CreateRenewal, Local
<1> HIDE DEF p, row
<1>6. RequestsMove(c)
  BY <1>2, <1>3, <1>4, RequestWritten
<1>7. requests'[c] # None
  BY <1>2, <1>3, <1>4 DEF Inv, TypeOK
<1>8. CASE Finish(c)
  BY <1>4, <1>6, <1>8, RequestStepKeeps
<1>9. ASSUME NEW l, l.step = "copy", call' = [call EXCEPT ![c] = l], UNCHANGED crashes
      PROVE  Inv'
  <2>1. LocalOK(c, l)'
    BY <1>2, <1>7, <1>9 DEF LocalOK, OwnOK, OtherOK, ValuesOK, Steps, Live
  <2>2. SlipsMove(c) /\ QuotationsMove(c) /\ OthersMove(c)
    BY <1>4, Untouched DEF Inv
  <2>3. LinksOK' /\ OneFirmOrder' /\ DealShowsItsRequest'
    BY <1>4, <1>6, RequestsKeep
  <2>4. deals' \in [Deals -> DealRow] /\ crashes' \in 0..MaxCrashes
    BY <1>4, <1>9 DEF Inv, TypeOK
  <2> QED BY <1>6, <1>9, <2>1, <2>2, <2>3, <2>4, StepKeeps
<1> QED BY <1>5, <1>8, <1>9

\* The calls that write one request.
LEMMA RequestCallsKeep ==
    ASSUME Inv, NEW c \in Calls, CopyBlocks(c) \/ CommitRequest(c) \/ CommitUpdate(c) \/ CommitRevert(c)
    PROVE  Inv'
<1>1. LocalOK(c, call[c]) /\ c \in Rows
  BY DEF Inv, Rows
<1>2. /\ Finish(c) /\ UNCHANGED <<deals, slips, quotations, covers, policies, mailed>>
  BY DEF CopyBlocks, CommitRequest, CommitUpdate, CommitRevert
<1>3. CASE CommitRequest(c)
  <2>1. requests[c] = None
    BY <1>1, <1>3 DEF CommitRequest, At, LocalOK, OwnOK
  <2>2. Request("DRAFT", None, None, {"entered"}) \in RequestRow
    BY RequestIsARow
  <2>3. RequestsMove(c)
    BY <1>1, <1>3, <2>1, <2>2, RequestWritten DEF CommitRequest
  <2> QED BY <1>2, <2>3, RequestStepKeeps
<1>4. CASE CommitRevert(c)
  <2>1. Live(requests, call[c].of) /\ call[c].value \in {"DRAFT", "QUOTING"}
    BY <1>1, <1>4 DEF CommitRevert, At, LocalOK, OtherOK, ValuesOK
  <2>2. RequestsMove(c)
    BY <1>4, <2>1, StatusWritten DEF CommitRevert, RequestStatus
  <2> QED BY <1>2, <2>2, RequestStepKeeps
<1>5. ASSUME NEW x, Live(requests, x), NEW form, form \subseteq {"entered", "copied"},
             requests' = [requests EXCEPT ![x].form = form]
      PROVE  Inv'
  <2> DEFINE row == [requests[x] EXCEPT !.form = form]
  <2>1. x \in Rows /\ requests[x] \in RequestRow /\ requests[x] # None
    BY <1>5 DEF Live, Inv, TypeOK
  <2>2. form \in SUBSET {"entered", "copied"}
    BY <1>5
  <2>3. row \in RequestRow /\ row.deal = requests[x].deal
    BY <2>1, <2>2 DEF RequestRow
  <2>4. requests' = [requests EXCEPT ![x] = row]
    BY <1>5
  <2> HIDE DEF row
  <2>5. RequestsMove(c)
    BY <2>1, <2>3, <2>4, RequestWritten
  <2> QED BY <1>2, <2>5, RequestStepKeeps
<1>6. CASE CommitUpdate(c)
  <2>1. Live(requests, call[c].of)
    BY <1>1, <1>6 DEF CommitUpdate, At, LocalOK, OtherOK
  <2> QED BY <1>5, <1>6, <2>1 DEF CommitUpdate
<1>7. CASE CopyBlocks(c)
  <2> DEFINE form == requests[c].form \union (IF requests[call[c].value].form = {} THEN {} ELSE {"copied"})
  <2>1. requests[c] # None
    BY <1>1, <1>7 DEF CopyBlocks, At, LocalOK, OwnOK
  <2>2. requests[c].form \subseteq {"entered", "copied"}
    BY <1>1, <2>1 DEF Inv, TypeOK, RequestRow
  <2>3. form \subseteq {"entered", "copied"}
    BY <2>2
  <2>4. requests' = [requests EXCEPT ![c].form = form] /\ Live(requests, c)
    BY <1>1, <1>7, <2>1 DEF CopyBlocks, Live
  <2> HIDE DEF form
  <2> QED BY <1>5, <2>3, <2>4
<1> QED BY <1>3, <1>4, <1>6, <1>7

\* A slip that keeps its order is written.
LEMMA SlipWritten ==
    ASSUME Inv, NEW c \in Calls, RequestsMove(c), UNCHANGED quotations,
           NEW s, Live(slips, s), NEW row \in SlipRow, slips' = [slips EXCEPT ![s] = row],
           row.request = slips[s].request, row.selected = slips[s].selected,
           row.presented \subseteq QuotationsOf(s)
    PROVE  SlipsMove(c) /\ LinksOK' /\ OneFirmOrder'
<1>1. slips'[s] = row /\ row # None /\ s \in Rows /\ \A x \in Rows : x # s => slips'[x] = slips[x]
  BY DEF Inv, TypeOK, Live
<1>2. slips' \in [Rows -> SlipRow \union {None}]
  BY DEF Inv, TypeOK
<1>3. SlipsMove(c)
  BY <1>1, <1>2 DEF SlipsMove, Keeps, Live
<1>4. ASSUME NEW x \in Existing(slips)
      PROVE  /\ slips'[x].request = slips[x].request
             /\ slips'[x].selected = slips[x].selected
             /\ slips'[x].presented \subseteq QuotationsOf(x)
  BY <1>1, <1>4 DEF Inv, LinksOK, Existing
<1>5. slips[c] = None => slips'[c] = None
  BY <1>1 DEF Live, Rows
<1> QED BY <1>3, <1>4, <1>5, SlipsKeep

LEMMA SlipStepKeeps ==
    ASSUME Inv, NEW c \in Calls, Finish(c), UNCHANGED <<deals, requests, quotations, covers, policies, mailed>>,
           NEW s, Live(slips, s), NEW row \in SlipRow, slips' = [slips EXCEPT ![s] = row],
           row.request = slips[s].request, row.selected = slips[s].selected,
           row.presented \subseteq QuotationsOf(s)
    PROVE  Inv'
<1>1. RequestsMove(c) /\ QuotationsMove(c) /\ OthersMove(c)
  BY Untouched DEF Inv
<1>2. SlipsMove(c) /\ LinksOK' /\ OneFirmOrder'
  BY <1>1, SlipWritten
<1>3. DealShowsItsRequest' /\ deals' \in [Deals -> DealRow]
  BY <1>1, RequestsKeep DEF Inv, TypeOK
<1> QED BY <1>1, <1>2, <1>3, FinishKeeps

\* The fields of a slip that is there.
LEMMA SlipFields ==
    ASSUME Inv, NEW s, Live(slips, s)
    PROVE  /\ s \in Rows /\ slips[s] \in SlipRow
           /\ Live(requests, slips[s].request) /\ slips[s].presented \subseteq QuotationsOf(s)
BY DEF Inv, TypeOK, LinksOK, Live, Existing

LEMMA RecordMailKeeps ==
    ASSUME Inv, NEW c \in Calls, RecordMail(c)
    PROVE  Inv'
<1> DEFINE s == call[c].of
           row == [slips[s] EXCEPT !.insurers = call[c].set]
<1>1. LocalOK(c, call[c]) /\ call[c].step = "mailed"
  BY DEF Inv, RecordMail, At
<1>2. Live(slips, s) /\ call[c].set \in SUBSET Insurers
  BY <1>1 DEF LocalOK, OtherOK, ValuesOK
<1>3. slips[s] \in SlipRow /\ slips[s].presented \subseteq QuotationsOf(s)
  BY <1>2, SlipFields
<1>4. /\ row \in SlipRow /\ row.request = slips[s].request /\ row.selected = slips[s].selected
      /\ row.presented = slips[s].presented
  BY <1>2, <1>3 DEF SlipRow
<1>5. /\ slips' = [slips EXCEPT ![s] = row] /\ Finish(c)
      /\ UNCHANGED <<deals, requests, quotations, covers, policies, mailed>>
  BY DEF RecordMail
<1> HIDE DEF s, row
<1> QED BY <1>2, <1>3, <1>4, <1>5, SlipStepKeeps

LEMMA CommitDeclineKeeps ==
    ASSUME Inv, NEW c \in Calls, CommitDecline(c)
    PROVE  Inv'
<1> DEFINE s == call[c].of
           row == [slips[s] EXCEPT !.decision = "declined"]
<1>1. LocalOK(c, call[c]) /\ call[c].step = "decline"
  BY DEF Inv, CommitDecline, At
<1>2. Live(slips, s)
  BY <1>1 DEF LocalOK, OtherOK
<1>3. slips[s] \in SlipRow /\ slips[s].presented \subseteq QuotationsOf(s)
  BY <1>2, SlipFields
<1>4. /\ row \in SlipRow /\ row.request = slips[s].request /\ row.selected = slips[s].selected
      /\ row.presented = slips[s].presented
  BY <1>3 DEF SlipRow
<1>5. /\ slips' = [slips EXCEPT ![s] = row] /\ Finish(c)
      /\ UNCHANGED <<deals, requests, quotations, covers, policies, mailed>>
  BY DEF CommitDecline
<1> HIDE DEF s, row
<1> QED BY <1>2, <1>3, <1>4, <1>5, SlipStepKeeps

\* What is put before the client, and what he or the broker decides, is a slip again.
PresentedRow(old, row, set) ==
    /\ row \in SlipRow /\ row.request = old.request /\ row.selected = old.selected
    /\ row.presented = set /\ row.decision = "pending" /\ row.accepted = None
    /\ row.status = old.status /\ row.insurers = old.insurers

OrderedRow(old, row, q) ==
    /\ row \in SlipRow /\ row.request = old.request /\ row.selected = q /\ row.status = "SELECTED"
    /\ row.presented = old.presented /\ row.insurers = old.insurers

LEMMA Presented ==
    ASSUME NEW old \in SlipRow, NEW set \in SUBSET Rows
    PROVE  PresentedRow(old, [old EXCEPT !.presented = set, !.decision = "pending", !.accepted = None], set)
<1> DEFINE r1 == [old EXCEPT !.presented = set]
           r2 == [r1 EXCEPT !.decision = "pending"]
           r3 == [r2 EXCEPT !.accepted = None]
<1>1. /\ r1 \in SlipRow /\ r1.request = old.request /\ r1.selected = old.selected
      /\ r1.presented = set /\ r1.status = old.status /\ r1.insurers = old.insurers
  BY DEF SlipRow
<1>2. r3 = [old EXCEPT !.presented = set, !.decision = "pending", !.accepted = None]
  OBVIOUS
<1> HIDE DEF r1
<1>3. /\ r2 \in SlipRow /\ r2.request = r1.request /\ r2.selected = r1.selected
      /\ r2.presented = r1.presented /\ r2.status = r1.status /\ r2.insurers = r1.insurers
      /\ r2.decision = "pending"
  BY <1>1 DEF SlipRow
<1> HIDE DEF r2
<1>4. /\ r3 \in SlipRow /\ r3.request = r2.request /\ r3.selected = r2.selected
      /\ r3.presented = r2.presented /\ r3.status = r2.status /\ r3.insurers = r2.insurers
      /\ r3.decision = r2.decision /\ r3.accepted = None
  BY <1>3 DEF SlipRow
<1> HIDE DEF r3
<1>5. PresentedRow(old, r3, set) BY <1>1, <1>3, <1>4 DEF PresentedRow
<1> QED BY <1>2, <1>5

LEMMA Selected ==
    ASSUME NEW old \in SlipRow, NEW q \in Rows
    PROVE  LET row == [old EXCEPT !.status = "SELECTED", !.selected = q]
           IN  OrderedRow(old, row, q) /\ row.decision = old.decision /\ row.accepted = old.accepted
BY DEF SlipRow, OrderedRow

LEMMA Accepted ==
    ASSUME NEW old \in SlipRow, NEW q \in Rows
    PROVE  LET row == [old EXCEPT !.status = "SELECTED", !.selected = q, !.decision = "accepted", !.accepted = q]
           IN  OrderedRow(old, row, q) /\ row.accepted = q
<1> DEFINE r1 == [old EXCEPT !.status = "SELECTED", !.selected = q]
           r2 == [r1 EXCEPT !.decision = "accepted"]
           r3 == [r2 EXCEPT !.accepted = q]
<1>1. OrderedRow(old, r1, q)
  BY Selected, Zenon
<1>2. r3 = [old EXCEPT !.status = "SELECTED", !.selected = q, !.decision = "accepted", !.accepted = q]
  OBVIOUS
<1> HIDE DEF r1
<1>3. OrderedRow(old, r2, q)
  BY <1>1 DEF OrderedRow, SlipRow
<1> HIDE DEF r2
<1>4. OrderedRow(old, r3, q) /\ r3.accepted = q
  BY <1>3 DEF OrderedRow, SlipRow
<1> HIDE DEF r3
<1> QED BY <1>2, <1>4, Zenon

LEMMA CommitPresentKeeps ==
    ASSUME Inv, NEW c \in Calls, CommitPresent(c)
    PROVE  Inv'
<1> DEFINE s == call[c].of
           set == call[c].set
           row == [slips[s] EXCEPT !.presented = set, !.decision = "pending", !.accepted = None]
<1>1. LocalOK(c, call[c]) /\ call[c].step = "present"
  BY DEF Inv, CommitPresent, At
<1>2. Live(slips, s) /\ set \subseteq QuotationsOf(s)
  BY <1>1 DEF LocalOK, OtherOK
<1>3. slips[s] \in SlipRow /\ set \in SUBSET Rows
  BY <1>2, SlipFields DEF QuotationsOf, Existing
<1>4. /\ row \in SlipRow /\ row.request = slips[s].request /\ row.selected = slips[s].selected
      /\ row.presented = set
  <2>1. PresentedRow(slips[s], row, set) BY <1>3, Presented, Zenon
  <2> HIDE DEF row
  <2> QED BY <2>1 DEF PresentedRow
<1>5. /\ slips' = [slips EXCEPT ![s] = row] /\ Finish(c)
      /\ UNCHANGED <<deals, requests, quotations, covers, policies, mailed>>
  BY DEF CommitPresent
<1> HIDE DEF row, set, s
<1> QED BY <1>2, <1>4, <1>5, SlipStepKeeps

LEMMA CommitSlipKeeps ==
    ASSUME Inv, NEW c \in Calls, CommitSlip(c)
    PROVE  Inv'
<1> DEFINE r == call[c].of
           row == Slip(r, "SENT", {})
<1>1. LocalOK(c, call[c]) /\ call[c].step = "slip"
  BY DEF Inv, CommitSlip, At
<1>2. Live(requests, r) /\ slips[c] = None /\ c \in Rows /\ r \in Rows
  BY <1>1 DEF LocalOK, OwnOK, OtherOK, Live, Rows
<1>3. row \in SlipRow /\ row.request = r /\ row.selected = None /\ row.presented = {}
  <2>1. {} \in SUBSET Insurers /\ {} \in SUBSET Rows
    OBVIOUS
  <2> QED BY <1>2, <2>1 DEF Slip, SlipRow
<1>4. /\ slips' = [slips EXCEPT ![c] = row] /\ requests' = [requests EXCEPT ![r].status = "QUOTING"]
      /\ Finish(c) /\ UNCHANGED <<deals, quotations, covers, policies, mailed>>
  BY DEF CommitSlip
<1> HIDE DEF r, row
<1>5. RequestsMove(c)
  BY <1>2, <1>4, StatusWritten DEF RequestStatus
<1>6. slips'[c] = row /\ row # None /\ \A x \in Rows : x # c => slips'[x] = slips[x]
  BY <1>2, <1>3, <1>4 DEF Inv, TypeOK
<1>7. SlipsMove(c)
  <2>1. slips' \in [Rows -> SlipRow \union {None}]
    BY <1>3, <1>4 DEF Inv, TypeOK
  <2> QED BY <1>2, <1>6, <2>1 DEF SlipsMove, Keeps
<1>8. ASSUME NEW s \in Existing(slips)
      PROVE  /\ slips'[s].request = slips[s].request
             /\ slips'[s].selected = slips[s].selected
             /\ slips'[s].presented \subseteq QuotationsOf(s)
  BY <1>2, <1>6, <1>8 DEF Inv, LinksOK, Existing
<1>9. LinksOK' /\ OneFirmOrder'
  BY <1>2, <1>3, <1>4, <1>5, <1>6, <1>7, <1>8, SlipsKeep
<1>10. DealShowsItsRequest' /\ deals' \in [Deals -> DealRow]
  BY <1>4, <1>5, RequestsKeep DEF Inv, TypeOK
<1>11. QuotationsMove(c) /\ OthersMove(c)
  BY <1>4, Untouched DEF Inv
<1> QED BY <1>4, <1>5, <1>7, <1>9, <1>10, <1>11, FinishKeeps

\* A step that writes none of the tables the invariant speaks of.
LEMMA OthersKeep ==
    ASSUME Inv, NEW c \in Calls, OthersMove(c), UNCHANGED <<deals, requests, slips, quotations>>
    PROVE  /\ RequestsMove(c) /\ SlipsMove(c) /\ QuotationsMove(c) /\ deals' \in [Deals -> DealRow]
           /\ LinksOK' /\ OneFirmOrder' /\ DealShowsItsRequest'
<1>1. RequestsMove(c) /\ SlipsMove(c) /\ QuotationsMove(c) /\ deals' \in [Deals -> DealRow]
  BY Untouched DEF Inv, TypeOK
<1> QED BY <1>1, RequestsKeep

LEMMA MailKeeps ==
    ASSUME Inv, NEW c \in Calls, NEW sent \in SUBSET Insurers, Mail(c, sent)
    PROVE  Inv'
<1> DEFINE s == call[c].of
<1>1. LocalOK(c, call[c]) /\ call[c].step = "mail"
  BY DEF Inv, Mail, At
<1>2. Live(slips, s) /\ call[c].set \union sent \subseteq Insurers
  BY <1>1 DEF LocalOK, OtherOK, ValuesOK
<1>3. /\ mailed' = [mailed EXCEPT ![s] = @ \union sent]
      /\ UNCHANGED <<deals, requests, slips, quotations, covers, policies>>
  BY DEF Mail
<1>4. PICK l : /\ call' = [call EXCEPT ![c] = l] /\ UNCHANGED crashes
               /\ \/ l = Over
                  \/ l = Local("mailed", s, None, call[c].set \union sent)
  BY DEF Mail, Finish
<1> HIDE DEF s
<1>5. OthersMove(c)
  BY <1>2, <1>3 DEF Inv, TypeOK, PolicyLinks, OthersMove, Keeps, Live, Existing
<1>6. /\ RequestsMove(c) /\ SlipsMove(c) /\ QuotationsMove(c) /\ deals' \in [Deals -> DealRow]
      /\ LinksOK' /\ OneFirmOrder' /\ DealShowsItsRequest'
  BY <1>3, <1>5, OthersKeep
<1>7. LocalOK(c, l)'
  <2>1. CASE l.step = "done"
    BY <2>1 DEF LocalOK, OwnOK, OtherOK, ValuesOK, Steps
  <2>2. CASE l.step = "mailed" /\ l.of = s /\ l.set \subseteq Insurers
    <3>1. PICK k : k = s /\ Live(slips, k)'
      BY <1>2, <1>3 DEF Live
    <3> QED BY <2>2, <3>1 DEF LocalOK, OwnOK, OtherOK, ValuesOK, Steps
  <2> QED BY <1>2, <1>4, <2>1, <2>2 DEF Over, Local
<1>8. crashes' \in 0..MaxCrashes
  BY <1>4 DEF Inv, TypeOK
<1> QED BY <1>4, <1>5, <1>6, <1>7, <1>8, StepKeeps

\* Cover notes and policies.
LEMMA CommitCoverKeeps ==
    ASSUME Inv, NEW c \in Calls, CommitCover(c) \/ CommitCancelCover(c)
    PROVE  Inv'
<1>1. LocalOK(c, call[c]) /\ c \in Rows
  BY DEF Inv, Rows
<1>2. Finish(c) /\ UNCHANGED <<deals, requests, slips, quotations, policies, mailed>>
  BY DEF CommitCover, CommitCancelCover
<1>3. PICK x \in Rows, row \in CoverRow :
          covers' = [covers EXCEPT ![x] = row] /\ (x = c \/ covers[x] # None)
  <2>1. CASE CommitCover(c)
    <3>1. Cover(call[c].of, "active") \in CoverRow
      BY <1>1, <2>1 DEF CommitCover, At, LocalOK, ValuesOK, Cover, CoverRow
    <3> QED BY <1>1, <2>1, <3>1 DEF CommitCover
  <2>2. CASE CommitCancelCover(c)
    <3> DEFINE x == call[c].of
               row == [covers[x] EXCEPT !.status = "cancelled"]
    <3>1. x \in Rows /\ covers[x] # None
      BY <1>1, <2>2 DEF CommitCancelCover, At, LocalOK, OtherOK, Live
    <3>2. covers[x] \in CoverRow
      BY <3>1 DEF Inv, TypeOK
    <3>3. row \in CoverRow
      BY <3>2 DEF CoverRow
    <3>4. covers' = [covers EXCEPT ![x] = row]
      BY <2>2 DEF CommitCancelCover
    <3> HIDE DEF x, row
    <3> QED BY <3>1, <3>3, <3>4
  <2> QED BY <2>1, <2>2
<1>4. OthersMove(c)
  <2>1. covers' \in [Rows -> CoverRow \union {None}]
    BY <1>3 DEF Inv, TypeOK
  <2>2. Keeps(covers, covers', c)
    BY <1>3 DEF Inv, TypeOK, Keeps
  <2> QED BY <1>2, <2>1, <2>2 DEF Inv, TypeOK, PolicyLinks, OthersMove, Keeps, Existing
<1>5. /\ RequestsMove(c) /\ SlipsMove(c) /\ QuotationsMove(c) /\ deals' \in [Deals -> DealRow]
      /\ LinksOK' /\ OneFirmOrder' /\ DealShowsItsRequest'
  BY <1>2, <1>4, OthersKeep
<1> QED BY <1>2, <1>4, <1>5, FinishKeeps

LEMMA CommitIssueKeeps ==
    ASSUME Inv, NEW c \in Calls, NEW status \in {"TECHNICAL_REVIEW", "FINANCE_REVIEW"}, CommitIssue(c, status)
    PROVE  Inv'
<1> DEFINE r == call[c].of
           policy == Policy(r, call[c].value, status)
<1>1. LocalOK(c, call[c]) /\ call[c].step = "issue" /\ c \in Rows
  BY DEF Inv, CommitIssue, At, Rows
<1>2. Live(requests, r) /\ r \in Rows /\ call[c].value \in Rows
  BY <1>1 DEF LocalOK, OtherOK, ValuesOK, Live
<1>3. /\ policies' = [policies EXCEPT ![c] = policy]
      /\ requests' = [requests EXCEPT ![r].status = Shown[status]]
      /\ covers' = [n \in Rows |-> IF covers[n] = Cover(r, "active") THEN Cover(r, "superseded") ELSE covers[n]]
      /\ Finish(c) /\ UNCHANGED <<deals, slips, quotations, mailed>>
  BY DEF CommitIssue
<1>4. policy \in PolicyRow /\ policy.request = r /\ Cover(r, "superseded") \in CoverRow
  BY <1>2 DEF Policy, PolicyRow, PolicyStatus, Cover, CoverRow
<1> HIDE DEF r, policy
<1>5. RequestsMove(c)
  <2>1. Shown[status] \in RequestStatus
    BY DEF Shown, RequestStatus
  <2> QED BY <1>2, <1>3, <2>1, StatusWritten
<1>6. OthersMove(c)
  <2>1. policies' \in [Rows -> PolicyRow \union {None}] /\ covers' \in [Rows -> CoverRow \union {None}]
    BY <1>3, <1>4 DEF Inv, TypeOK
  <2>2. Keeps(policies, policies', c) /\ mailed' \in [Rows -> SUBSET Insurers]
    BY <1>1, <1>3, <1>4 DEF Inv, TypeOK, Keeps
  <2>3. Keeps(covers, covers', c)
    <3>1. Cover(r, "active") # None
      BY <1>2 DEF Cover, CoverRow
    <3> QED BY <1>3, <1>4, <3>1 DEF Keeps
  <2>4. \A p \in Rows : policies'[p] # None => policies'[p].request \in {None} \union Existing(requests)
    BY <1>1, <1>2, <1>3, <1>4 DEF Inv, TypeOK, PolicyLinks, Live, Existing
  <2> QED BY <2>1, <2>2, <2>3, <2>4 DEF OthersMove
<1>7. SlipsMove(c) /\ QuotationsMove(c) /\ deals' \in [Deals -> DealRow]
  BY <1>3, Untouched DEF Inv, TypeOK
<1>8. LinksOK' /\ OneFirmOrder' /\ DealShowsItsRequest'
  BY <1>3, <1>5, RequestsKeep
<1> QED BY <1>3, <1>5, <1>6, <1>7, <1>8, FinishKeeps

\* A review writes the status of a policy that is there, and of its request if it
\* has one.
LEMMA CommitReviewKeeps ==
    ASSUME Inv, NEW c \in Calls, CommitReview(c)
    PROVE  Inv'
<1> DEFINE p == call[c].of
           to == call[c].value
           r == policies[p].request
           row == [policies[p] EXCEPT !.status = to]
<1>1. LocalOK(c, call[c]) /\ call[c].step = "review"
  BY DEF Inv, CommitReview, At
<1>2. Live(policies, p) /\ to \in PolicyStatus
  BY <1>1 DEF LocalOK, OtherOK, ValuesOK
<1>3. policies[p] \in PolicyRow /\ p \in Rows /\ (r = None \/ Live(requests, r))
  BY <1>2 DEF Inv, TypeOK, PolicyLinks, Live, Existing
<1>4. row \in PolicyRow /\ row.request = r
  BY <1>2, <1>3 DEF PolicyRow
<1>5. /\ policies' = [policies EXCEPT ![p] = row] /\ Finish(c)
      /\ requests' = (IF r = None \/ to = "CANCELLED" THEN requests
                      ELSE [requests EXCEPT ![r].status = Shown[to]])
      /\ UNCHANGED <<deals, slips, quotations, covers, mailed>>
  BY DEF CommitReview
<1> HIDE DEF p, to, r, row
<1>6. RequestsMove(c)
  <2>1. CASE UNCHANGED requests
    BY <2>1, Untouched DEF Inv
  <2>2. CASE r # None /\ to # "CANCELLED"
    <3>1. Shown[to] \in RequestStatus
      BY <1>2, <2>2 DEF PolicyStatus, Shown, RequestStatus
    <3> QED BY <1>3, <1>5, <2>2, <3>1, StatusWritten
  <2> QED BY <1>5, <2>1, <2>2
<1>7. OthersMove(c)
  <2>1. policies' \in [Rows -> PolicyRow \union {None}] /\ Keeps(policies, policies', c)
    BY <1>2, <1>3, <1>4, <1>5 DEF Inv, TypeOK, Keeps, Live
  <2>2. \A x \in Rows : policies'[x] # None => policies'[x].request \in {None} \union Existing(requests)
    BY <1>3, <1>4, <1>5 DEF Inv, TypeOK, PolicyLinks, Live, Existing
  <2>3. /\ covers' \in [Rows -> CoverRow \union {None}] /\ Keeps(covers, covers', c)
        /\ mailed' \in [Rows -> SUBSET Insurers]
    BY <1>5 DEF Inv, TypeOK, Keeps
  <2> QED BY <2>1, <2>2, <2>3 DEF OthersMove
<1>8. SlipsMove(c) /\ QuotationsMove(c) /\ deals' \in [Deals -> DealRow]
  BY <1>5, Untouched DEF Inv, TypeOK
<1>9. LinksOK' /\ OneFirmOrder' /\ DealShowsItsRequest'
  BY <1>5, <1>6, RequestsKeep
<1> QED BY <1>5, <1>6, <1>7, <1>8, <1>9, FinishKeeps

\* A quotation comes in, for a slip that may have been ordered meanwhile.
LEMMA CommitQuotationKeeps ==
    ASSUME Inv, NEW c \in Calls, CommitQuotation(c)
    PROVE  Inv'
<1> DEFINE s == call[c].of
           new == Quotation(s, "RECEIVED")
<1>1. LocalOK(c, call[c]) /\ call[c].step = "quote" /\ c \in Rows
  BY DEF Inv, CommitQuotation, At, Rows
<1>2. Live(slips, s) /\ s \in Rows /\ quotations[c] = None
  BY <1>1 DEF LocalOK, OwnOK, OtherOK, Live
<1>3. new \in QuotationRow /\ new.slip = s /\ new.status = "RECEIVED"
  BY <1>2 DEF Quotation, QuotationRow
<1>4. /\ quotations' = [quotations EXCEPT ![c] = new]
      /\ slips' = slips \/ slips' = [slips EXCEPT ![s].status = "QUOTED"]
      /\ Finish(c) /\ UNCHANGED <<deals, requests, covers, policies, mailed>>
  BY DEF CommitQuotation
<1> HIDE DEF s, new
<1>5. /\ quotations'[c] = new /\ new # None
      /\ \A x \in Rows : x # c => quotations'[x] = quotations[x]
  BY <1>1, <1>3, <1>4 DEF Inv, TypeOK
<1>6. QuotationsMove(c)
  <2>1. quotations' \in [Rows -> QuotationRow \union {None}]
    BY <1>3, <1>4 DEF Inv, TypeOK
  <2> QED BY <1>2, <1>5, <2>1 DEF QuotationsMove, Keeps, Existing
<1>7. SlipsMove(c) /\ \A x \in Existing(slips) : /\ slips'[x].request = slips[x].request
                                                 /\ slips'[x].selected = slips[x].selected
                                                 /\ slips'[x].presented = slips[x].presented
  <2>1. CASE slips' = slips
    BY <2>1, Untouched DEF Inv
  <2>2. CASE slips' = [slips EXCEPT ![s].status = "QUOTED"]
    <3> DEFINE row == [slips[s] EXCEPT !.status = "QUOTED"]
    <3>1. slips[s] \in SlipRow
      BY <1>2, SlipFields
    <3>2. /\ row \in SlipRow /\ row.request = slips[s].request /\ row.selected = slips[s].selected
          /\ row.presented = slips[s].presented
      BY <3>1 DEF SlipRow
    <3>3. slips' = [slips EXCEPT ![s] = row]
      BY <2>2
    <3> HIDE DEF row
    <3>4. slips'[s] = row /\ row # None /\ \A x \in Rows : x # s => slips'[x] = slips[x]
      BY <1>2, <3>2, <3>3 DEF Inv, TypeOK
    <3>5. slips' \in [Rows -> SlipRow \union {None}]
      BY <3>2, <3>3 DEF Inv, TypeOK
    <3> QED BY <1>2, <3>2, <3>4, <3>5 DEF SlipsMove, Keeps, Existing, Live
  <2> QED BY <1>4, <2>1, <2>2
<1>8. c \in Rows \ QuotationsOf(s) /\ \A x : c \notin QuotationsOf(x)
  BY <1>1, <1>2 DEF QuotationsOf, Existing
<1>9. Existing(slips)' = Existing(slips)
  <2>1. slips[c] = None => slips'[c] = None
    BY <1>1, <1>2, <1>4 DEF Inv, TypeOK, Live
  <2> QED BY <1>7, <2>1 DEF Existing, SlipsMove, Keeps
<1>10. \A x : QuotationsOf(x) \subseteq QuotationsOf(x)'
  BY <1>6, QuotationsStay
<1>11. LinksOK'
  <2>1. \A q \in Existing(quotations)' : quotations'[q].slip \in Existing(slips)
    BY <1>2, <1>3, <1>5 DEF Existing, Inv, LinksOK, Live
  <2>2. \A x \in Existing(slips) : requests'[slips'[x].request] # None /\ slips'[x].request \in Rows
    BY <1>4, <1>7 DEF Inv, LinksOK, Live
  <2> QED BY <1>7, <1>9, <1>10, <2>1, <2>2 DEF Inv, LinksOK, Live
<1>12. OneFirmOrder'
  <2> SUFFICES ASSUME NEW x \in Existing(slips)
               PROVE  {q \in QuotationsOf(x)' : quotations'[q].status = "SELECTED"}
                          = {q \in QuotationsOf(x) : quotations[q].status = "SELECTED"}
    BY <1>7, <1>9 DEF Inv, OneFirmOrder
  <2>1. QuotationsOf(x)' \subseteq QuotationsOf(x) \union {c}
    BY <1>5 DEF QuotationsOf, Existing
  <2>2. \A q \in QuotationsOf(x) : quotations'[q] = quotations[q]
    BY <1>5, <1>8 DEF QuotationsOf, Existing
  <2>3. quotations'[c].status # "SELECTED"
    BY <1>3, <1>5
  <2> QED BY <1>10, <2>1, <2>2, <2>3
<1>13. RequestsMove(c) /\ OthersMove(c) /\ deals' \in [Deals -> DealRow] /\ DealShowsItsRequest'
  BY <1>4, Untouched, RequestsKeep DEF Inv, TypeOK
<1> QED BY <1>4, <1>6, <1>7, <1>11, <1>12, <1>13, FinishKeeps

\* The broker orders a quotation of a slip, or the client does.
LEMMA OrderKeeps ==
    ASSUME Inv, NEW c \in Calls, Finish(c), NEW s, Live(slips, s), NEW q \in QuotationsOf(s),
           NEW row \in SlipRow, row.request = slips[s].request, row.selected = q,
           row.presented = slips[s].presented, slips' = [slips EXCEPT ![s] = row],
           quotations' = Order(s, q),
           requests' = [requests EXCEPT ![slips[s].request].status = "AWARDED"],
           UNCHANGED <<deals, covers, policies, mailed>>
    PROVE  Inv'
<1>1. s \in Rows /\ Live(requests, slips[s].request) /\ q \in Rows
  BY SlipFields DEF QuotationsOf, Existing
<1>2. RequestsMove(c)
  BY <1>1, StatusWritten DEF RequestStatus
<1>3. slips'[s] = row /\ row # None /\ \A x \in Rows : x # s => slips'[x] = slips[x]
  BY <1>1 DEF Inv, TypeOK
<1>4. SlipsMove(c) /\ Existing(slips)' = Existing(slips)
  <2>1. slips' \in [Rows -> SlipRow \union {None}]
    BY DEF Inv, TypeOK
  <2> QED BY <1>1, <1>3, <2>1 DEF SlipsMove, Keeps, Existing, Live
<1>5. /\ Quotation(s, "SELECTED") \in QuotationRow /\ Quotation(s, "REJECTED") \in QuotationRow
      /\ \A status : Quotation(s, status).slip = s /\ Quotation(s, status).status = status
  BY <1>1 DEF Quotation, QuotationRow
<1>6. /\ quotations'[q] = Quotation(s, "SELECTED")
      /\ \A x \in QuotationsOf(s) : x # q => quotations'[x] = Quotation(s, "REJECTED")
      /\ \A x \in Rows \ QuotationsOf(s) : quotations'[x] = quotations[x]
  BY <1>1 DEF Order, QuotationsOf, Existing
<1>7. QuotationsMove(c)
  <2>1. quotations' \in [Rows -> QuotationRow \union {None}]
    <3>1. \A x \in Rows : quotations'[x] \in QuotationRow \union {None}
      BY <1>5, <1>6 DEF Inv, TypeOK
    <3>2. quotations' = [x \in Rows |-> quotations'[x]]
      BY DEF Order
    <3> QED BY <3>1, <3>2
  <2>2. \A x \in QuotationsOf(s) : quotations'[x] # None /\ quotations'[x].slip = s
    BY <1>5, <1>6
  <2>3. \A x \in Rows : quotations[x] # None => quotations'[x] # None /\ quotations'[x].slip = quotations[x].slip
    BY <1>6, <2>2 DEF QuotationsOf, Existing
  <2>4. \A x \in Rows : quotations[x] = None => quotations'[x] = None
    BY <1>6 DEF QuotationsOf, Existing
  <2> QED BY <2>1, <2>3, <2>4 DEF QuotationsMove, Keeps, Existing
<1>8. ASSUME NEW x PROVE QuotationsOf(x)' = QuotationsOf(x)
  <2>1. QuotationsOf(x) \subseteq QuotationsOf(x)'
    BY <1>7, QuotationsStay
  <2>2. \A y \in Rows : quotations'[y] # None => quotations[y] # None
    BY <1>6 DEF QuotationsOf, Existing
  <2>3. QuotationsOf(x)' \subseteq QuotationsOf(x)
    BY <1>7, <2>2 DEF QuotationsMove, QuotationsOf, Existing
  <2> QED BY <2>1, <2>3
<1>9. LinksOK'
  <2>1. ASSUME NEW x \in Existing(slips)
        PROVE  /\ slips'[x].request \in Rows /\ requests'[slips'[x].request] # None
               /\ slips'[x].presented \subseteq QuotationsOf(x)
    <3>1. slips'[x].request = slips[x].request /\ slips'[x].presented = slips[x].presented
      BY <1>3, <2>1 DEF Existing
    <3>2. Live(requests, slips[x].request) /\ slips[x].presented \subseteq QuotationsOf(x)
      BY <2>1 DEF Inv, LinksOK
    <3> QED BY <1>2, <3>1, <3>2 DEF RequestsMove, Keeps, Live
  <2>2. \A x \in Existing(quotations)' : quotations'[x].slip \in Existing(slips)
    <3>1. \A x \in Existing(quotations)' : x \in Existing(quotations)
      BY <1>6 DEF QuotationsOf, Existing
    <3> QED BY <1>7, <3>1 DEF QuotationsMove, Inv, LinksOK
  <2> QED BY <1>4, <1>8, <2>1, <2>2 DEF LinksOK, Live
<1>10. OneFirmOrder'
  <2> SUFFICES ASSUME NEW x \in Existing(slips)
               PROVE  {y \in QuotationsOf(x) : quotations'[y].status = "SELECTED"}
                          = (IF slips'[x].selected = None THEN {} ELSE {slips'[x].selected})
    BY <1>4, <1>8 DEF OneFirmOrder
  <2>1. CASE x = s
    <3>1. q # None /\ slips'[x].selected = q
      BY <1>1, <1>3, <2>1 DEF Rows
    <3>2. {y \in QuotationsOf(x) : quotations'[y].status = "SELECTED"} = {q}
      BY <1>5, <1>6, <2>1
    <3> QED BY <3>1, <3>2
  <2>2. CASE x # s
    <3>1. \A y \in QuotationsOf(x) : quotations'[y] = quotations[y]
      BY <1>6, <2>2 DEF QuotationsOf, Existing
    <3>2. slips'[x] = slips[x]
      BY <1>3, <2>2 DEF Existing
    <3> QED BY <3>1, <3>2 DEF Inv, OneFirmOrder
  <2> QED BY <2>1, <2>2
<1>11. OthersMove(c) /\ deals' \in [Deals -> DealRow] /\ DealShowsItsRequest'
  BY <1>2, Untouched, RequestsKeep DEF Inv, TypeOK
<1> QED BY <1>2, <1>4, <1>7, <1>9, <1>10, <1>11, FinishKeeps

LEMMA CommitSelectKeeps ==
    ASSUME Inv, NEW c \in Calls, CommitSelect(c)
    PROVE  Inv'
<1> DEFINE s == call[c].of
           q == call[c].value
           row == [slips[s] EXCEPT !.status = "SELECTED", !.selected = q]
<1>1. LocalOK(c, call[c]) /\ call[c].step = "select"
  BY DEF Inv, CommitSelect, At
<1>2. Live(slips, s) /\ q \in QuotationsOf(s) /\ q \in Rows
  BY <1>1 DEF LocalOK, OtherOK, QuotationsOf, Existing
<1>3. slips[s] \in SlipRow /\ s \in Rows
  BY <1>2, SlipFields
<1>4. /\ row \in SlipRow /\ row.request = slips[s].request /\ row.selected = q
      /\ row.presented = slips[s].presented
  <2>1. OrderedRow(slips[s], row, q) BY <1>2, <1>3, Selected, Zenon
  <2> HIDE DEF row
  <2> QED BY <2>1 DEF OrderedRow
<1>5. /\ slips' = [slips EXCEPT ![s].status = "SELECTED", ![s].selected = q]
      /\ quotations' = Order(s, q)
      /\ requests' = [requests EXCEPT ![slips[s].request].status = "AWARDED"]
      /\ Finish(c) /\ UNCHANGED <<deals, covers, policies, mailed>>
  BY DEF CommitSelect
<1>6. slips' = [slips EXCEPT ![s] = row]
  <2> HIDE DEF s, q
  <2>1. slips \in [Rows -> SlipRow \union {None}]
    BY DEF Inv, TypeOK
  <2> QED BY <1>3, <1>5, <2>1
<1> HIDE DEF s, q, row
<1> QED BY <1>2, <1>4, <1>5, <1>6, OrderKeeps

LEMMA CommitAcceptKeeps ==
    ASSUME Inv, NEW c \in Calls, CommitAccept(c)
    PROVE  Inv'
<1> DEFINE s == call[c].of
           q == call[c].value
           row == [slips[s] EXCEPT !.status = "SELECTED", !.selected = q, !.decision = "accepted", !.accepted = q]
<1>1. LocalOK(c, call[c]) /\ call[c].step = "accept"
  BY DEF Inv, CommitAccept, At
<1>2. Live(slips, s) /\ q \in QuotationsOf(s) /\ q \in Rows
  BY <1>1 DEF LocalOK, OtherOK, QuotationsOf, Existing
<1>3. slips[s] \in SlipRow
  BY <1>2, SlipFields
<1>4. /\ row \in SlipRow /\ row.request = slips[s].request /\ row.selected = q
      /\ row.presented = slips[s].presented
  <2>1. OrderedRow(slips[s], row, q) BY <1>2, <1>3, Accepted, Zenon
  <2> HIDE DEF row
  <2> QED BY <2>1 DEF OrderedRow
<1>5. /\ slips' = [slips EXCEPT ![s] = row] /\ quotations' = Order(s, q)
      /\ requests' = [requests EXCEPT ![slips[s].request].status = "AWARDED"]
      /\ Finish(c) /\ UNCHANGED <<deals, covers, policies, mailed>>
  BY DEF CommitAccept
<1> HIDE DEF s, q, row
<1> QED BY <1>2, <1>4, <1>5, OrderKeeps

LEMMA NextKeeps == Inv /\ [Next]_vars => Inv'
<1> SUFFICES ASSUME Inv, [Next]_vars PROVE Inv'
  OBVIOUS
<1>1. ASSUME NEW c \in Calls, Continue(c) PROVE Inv'
  <2>1. CASE CommitDeal(c) \/ CommitConvert(c) \/ CreateRenewal(c)
    BY <2>1, CommitDealKeeps, CommitConvertKeeps, CreateRenewalKeeps
  <2>2. CASE CopyBlocks(c) \/ CommitRequest(c) \/ CommitUpdate(c) \/ CommitRevert(c)
    BY <2>2, RequestCallsKeep
  <2>3. CASE CommitSlip(c) \/ RecordMail(c) \/ CommitQuotation(c) \/ CommitPresent(c) \/ CommitDecline(c)
    BY <2>3, CommitSlipKeeps, RecordMailKeeps, CommitQuotationKeeps, CommitPresentKeeps, CommitDeclineKeeps
  <2>4. CASE CommitSelect(c) \/ CommitAccept(c)
    BY <2>4, CommitSelectKeeps, CommitAcceptKeeps
  <2>5. CASE CommitCover(c) \/ CommitCancelCover(c) \/ CommitReview(c)
    BY <2>5, CommitCoverKeeps, CommitReviewKeeps
  <2>6. ASSUME NEW sent \in SUBSET Insurers, Mail(c, sent) PROVE Inv'
    BY <2>6, MailKeeps
  <2>7. ASSUME NEW status \in {"TECHNICAL_REVIEW", "FINANCE_REVIEW"}, CommitIssue(c, status) PROVE Inv'
    BY <2>7, CommitIssueKeeps
  <2> QED BY <1>1, <2>1, <2>2, <2>3, <2>4, <2>5, <2>6, <2>7 DEF Continue
<1>2. ASSUME NEW c \in Calls, Start(c) \/ Crash(c) PROVE Inv'
  BY <1>2, StartKeeps, CrashKeeps
<1>3. CASE UNCHANGED vars
  <2>1. UNCHANGED <<deals, requests, slips, quotations, covers, policies, mailed, call, crashes>>
    BY <1>3 DEF vars, rows
  <2>2. \A s : QuotationsOf(s)' = QuotationsOf(s)
    BY <2>1 DEF QuotationsOf, Existing
  <2>3. ASSUME NEW c \in Calls PROVE LocalOK(c, call[c])'
    <3>1. PICK k : k = call[c] /\ k = call'[c] /\ LocalOK(c, k)
      BY <2>1 DEF Inv
    <3>2. LocalOK(c, k)'
      BY <2>1, <2>2, <3>1 DEF LocalOK, OwnOK, OtherOK, ValuesOK, Live
    <3> QED BY <3>1, <3>2
  <2>4. TypeOK' /\ LinksOK' /\ PolicyLinks' /\ OneFirmOrder' /\ DealShowsItsRequest'
    BY <2>1, <2>2 DEF Inv, TypeOK, LinksOK, PolicyLinks, OneFirmOrder, DealShowsItsRequest, Live, Existing
  <2> QED BY <2>1, <2>3, <2>4 DEF Inv
<1> QED BY <1>1, <1>2, <1>3 DEF Next

-----------------------------------------------------------------------------
\* The invariant holds in every behaviour of the API.
THEOREM PipelineSafe == Spec => []Inv
<1> QED BY InitHolds, NextKeeps, PTL DEF Spec

\* Rows hold what their columns may, also those that calls write on one another.
THEOREM PipelineTyped == Spec => []TypeOK
<1>1. Inv => TypeOK
  BY DEF Inv
<1> QED BY <1>1, PipelineSafe, PTL

\* A slip's order is one of its own quotations and the only one that shows as
\* selected, for any number of orders of the broker and the client at a time.
THEOREM AlwaysOneFirmOrder == Spec => []OneFirmOrder
<1>1. Inv => OneFirmOrder
  BY DEF Inv
<1> QED BY <1>1, PipelineSafe, PTL

\* A deal that shows a request shows one that was made of it, whatever dies.
THEOREM DealAlwaysShowsItsRequest == Spec => []DealShowsItsRequest
<1>1. Inv => DealShowsItsRequest
  BY DEF Inv
<1> QED BY <1>1, PipelineSafe, PTL
-----------------------------------------------------------------------------
(* Calls served one at a time                                               *)
(*                                                                          *)
(* While no two calls are between their read and their write, what a call   *)
(* has read is still so when it writes. The invariant says what each call   *)
(* has checked, and what the rows add up to because of it.                  *)

OneInFlight == \A a, b \in InFlight : a = b

\* Calls come in order, and the one in flight is the last.
InOrder ==
    \A c, d \in Calls : d < c /\ call[c].step # "idle" => call[d].step = "done"

\* A deal has the request that was made of it, a policy one renewal, and a request
\* the block rows of one form.
MadeOnce ==
    /\ OneRequestPerDeal
    /\ OneRenewalPerPolicy
    /\ \A r \in Existing(requests) : requests[r].form \in {{}, {"entered"}, {"copied"}}

CoversSerial ==
    /\ OneCoverInForce
    /\ PolicySupersedesCover
    /\ \A d \in Calls : call[d].step \in {"idle", "cover", "issue"} => policies[d] = None

SlipsSerial ==
    \A s \in Existing(slips) :
        /\ slips[s].status = "SELECTED" => slips[s].selected # None
        /\ slips[s].decision = "accepted" => slips[s].status = "SELECTED"
        /\ slips[s].accepted # None => slips[s].accepted \in slips[s].presented

\* A slip that has been ordered keeps no offer open, and takes none.
OrdersSerial ==
    \A q \in Existing(quotations) :
        slips[quotations[q].slip].status = "SELECTED" => quotations[q].status # "RECEIVED"

\* An offer of a slip of the request r that has been ordered, this offer or another.
Ordered(r, q) ==
    /\ Live(quotations, q)
    /\ slips[quotations[q].slip].request = r /\ slips[quotations[q].slip].status = "SELECTED"

AwardsSerial ==
    /\ \A r \in Existing(requests) : requests[r].status = "AWARDED" =>
           \E s \in Existing(slips) : slips[s].request = r /\ slips[s].status = "SELECTED"
    /\ RequestShowsItsPolicy
    /\ \A p \in Existing(policies) :
           policies[p].request # None => Ordered(policies[p].request, policies[p].quotation)

\* An insurer that was written to is on the slip, or among those a call is going
\* to record, unless that call has died.
MailSerial ==
    /\ \A s \in Rows : slips[s] = None => mailed[s] = {}
    /\ crashes = 0 => \A s \in Existing(slips) :
           mailed[s] \subseteq slips[s].insurers \/ \E c \in Calls : call[c].step = "mailed" /\ call[c].of = s

\* What a call has read is still so when it writes.
LocalSerial(l) ==
    /\ l.step = "convert" => deals[l.of].request = None
    /\ l.step = "renew" => \A r \in Existing(requests) : requests[r].renews # l.of
    /\ l.step = "copy" => requests[l.of].form = {}
    /\ l.step = "quote" => l.value = slips[l.of].status /\ l.value # "SELECTED"
    /\ l.step = "mail" => l.set = slips[l.of].insurers /\ (crashes = 0 => mailed[l.of] \subseteq l.set)
    /\ l.step = "mailed" /\ crashes = 0 => mailed[l.of] \subseteq l.set
    /\ l.step = "present" => slips[l.of].status # "SELECTED"
    /\ l.step = "accept" => slips[l.of].decision = "pending" /\ l.value \in slips[l.of].presented
    /\ l.step = "decline" => slips[l.of].decision = "pending"
    /\ l.step = "cover" => ~ Covered(l.of)
    /\ l.step = "issue" => Ordered(l.of, l.value)
    /\ l.step = "review" /\ l.value = "CANCELLED" => policies[l.of].status = "ISSUED"

RowsSerial == MadeOnce /\ CoversSerial /\ SlipsSerial /\ OrdersSerial /\ AwardsSerial /\ MailSerial

SerialInv ==
    /\ InOrder
    /\ RowsSerial
    /\ \A c \in Calls : LocalSerial(call[c]) /\ (call[c].step = "copy" => call[c].of = c)

\* A set with one element at most that grows by one, and is still that small.
LEMMA AtMostOneMore ==
    ASSUME NEW S, \A a, b \in S : a = b, NEW x, NEW T \in SUBSET (S \union {x}), Cardinality(T) <= 1
    PROVE  \A a, b \in T : a = b
<1> SUFFICES ASSUME NEW a \in T, NEW b \in T, a # b
             PROVE  FALSE
  OBVIOUS
<1>1. T = {a} \union {b}
  OBVIOUS
<1>2. IsFiniteSet({a}) /\ Cardinality({a}) = 1
  BY FS_Singleton
<1>3. b \notin {a}
  OBVIOUS
<1>4. Cardinality({a} \union {b}) = Cardinality({a}) + 1
  BY <1>2, <1>3, FS_AddElement, Zenon
<1> QED BY <1>1, <1>2, <1>4

\* The call that is served writes, and ends or goes on to its next statement.
Serves(c, l) ==
    /\ c \in Calls /\ c \in InFlight
    /\ call' = [call EXCEPT ![c] = l]
    /\ l.step \in {"done", "copy", "mailed"}
    /\ l.step = "copy" => l.of = c

LEMMA OthersRest ==
    ASSUME Inv, InOrder, NEW c, NEW l, Serves(c, l)
    PROVE  /\ call'[c] = l
           /\ \A d \in Calls : d # c => call'[d] = call[d] /\ call[d].step \in {"idle", "done"}
<1>1. call'[c] = l /\ \A d \in Calls : d # c => call'[d] = call[d]
  BY DEF Serves, Inv
<1>2. ASSUME NEW d \in Calls, d # c PROVE call[d].step \in {"idle", "done"}
  <2>1. c \in Nat /\ d \in Nat /\ (c < d \/ d < c) BY <1>2 DEF Serves
  <2> QED BY <2>1 DEF InOrder, Serves, InFlight
<1> QED BY <1>1, <1>2

\* Steps of calls that are not going to write have nothing to be still so.
LEMMA RestingIsSerial ==
    ASSUME NEW l, l.step \in {"idle", "done"}
    PROVE  LocalSerial(l)
BY DEF LocalSerial

LEMMA ServedIsSerial ==
    ASSUME Inv, SerialInv, NEW c, NEW l, Serves(c, l), RowsSerial', LocalSerial(l)'
    PROVE  SerialInv'
<1>1. /\ call'[c] = l
      /\ \A d \in Calls : d # c => call'[d] = call[d] /\ call[d].step \in {"idle", "done"}
  BY OthersRest DEF SerialInv
<1>2. InOrder'
  BY <1>1 DEF SerialInv, InOrder, Serves, InFlight
<1>3. ASSUME NEW d \in Calls PROVE LocalSerial(call[d])' /\ (call'[d].step = "copy" => call'[d].of = d)
  <2>1. CASE d = c BY <1>1, <2>1 DEF Serves
  <2>2. CASE d # c
    <3>1. PICK k : k = call'[d] /\ k.step \in {"idle", "done"} BY <1>1, <2>2
    <3>2. LocalSerial(k)' BY <3>1 DEF LocalSerial
    <3> QED BY <3>1, <3>2
  <2> QED BY <2>1, <2>2
<1> QED BY <1>2, <1>3 DEF SerialInv

LEMMA FinishedIsSerial ==
    ASSUME Inv, SerialInv, NEW c \in Calls, c \in InFlight, Finish(c)
    PROVE  /\ Serves(c, Over)
           /\ RowsSerial' => SerialInv'
           /\ UNCHANGED crashes
<1>1. Serves(c, Over) /\ UNCHANGED crashes BY OverIsOver DEF Serves, Finish
<1>2. LocalSerial(Over)' BY OverIsOver DEF LocalSerial
<1> QED BY <1>1, <1>2, ServedIsSerial

-----------------------------------------------------------------------------
(* What a step that does not write them leaves of the rows.                 *)

LEMMA MadeStays ==
    ASSUME MadeOnce, Existing(requests)' = Existing(requests),
           \A r \in Existing(requests) : /\ requests'[r].deal = requests[r].deal
                                         /\ requests'[r].renews = requests[r].renews
                                         /\ requests'[r].form = requests[r].form
                                         /\ requests[r].deal \in Deals \union {None},
           \A d \in Deals : deals'[d].request = deals[d].request
    PROVE  MadeOnce'
<1>1. OneRequestPerDeal' BY DEF MadeOnce, OneRequestPerDeal
<1>2. OneRenewalPerPolicy' BY DEF MadeOnce, OneRenewalPerPolicy
<1> QED BY <1>1, <1>2 DEF MadeOnce

LEMMA CoversStay ==
    ASSUME Inv, SerialInv, NEW c, NEW l, Serves(c, l), UNCHANGED covers,
           \A p \in Rows : \/ policies'[p] = policies[p]
                           \/ policies[p] # None /\ policies'[p] # None /\ policies'[p].request = policies[p].request
    PROVE  CoversSerial'
<1>1. /\ call'[c] = l
      /\ \A d \in Calls : d # c => call'[d] = call[d] /\ call[d].step \in {"idle", "done"}
  BY OthersRest DEF SerialInv
<1>2. CoversSerial BY DEF SerialInv, RowsSerial
<1>3. Existing(covers)' = Existing(covers) /\ Existing(policies)' = Existing(policies) BY DEF Existing
<1>4. \A p \in Existing(policies) : policies'[p].request = policies[p].request BY DEF Existing
<1>5. OneCoverInForce' /\ PolicySupersedesCover'
  BY <1>2, <1>3, <1>4 DEF CoversSerial, OneCoverInForce, PolicySupersedesCover
<1>6. ASSUME NEW d \in Calls, call'[d].step \in {"idle", "cover", "issue"} PROVE policies'[d] = None
  <2>1. d \in Rows BY DEF Rows
  <2>2. call[d].step \in {"idle", "cover", "issue"} BY <1>1, <1>6 DEF Serves
  <2>3. policies[d] = None BY <1>2, <2>2 DEF CoversSerial
  <2> QED BY <2>1, <2>3
<1> QED BY <1>5, <1>6 DEF CoversSerial

LEMMA SlipsStay ==
    ASSUME SerialInv, UNCHANGED slips
    PROVE  SlipsSerial'
BY DEF SerialInv, RowsSerial, SlipsSerial, Existing

\* No offer comes in, and no slip is ordered.
LEMMA OrdersStay ==
    ASSUME Inv, SerialInv,
           \A q \in Existing(quotations)' : q \in Existing(quotations) /\ quotations'[q] = quotations[q],
           \A s \in Existing(slips) : slips'[s].status = "SELECTED" => slips[s].status = "SELECTED"
    PROVE  OrdersSerial'
<1>1. \A q \in Existing(quotations) : quotations[q].slip \in Existing(slips) BY DEF Inv, LinksOK
<1>2. OrdersSerial BY DEF SerialInv, RowsSerial
<1> QED BY <1>1, <1>2 DEF OrdersSerial

\* An offer that was ordered stays with its slip, and the slip with its order.
LEMMA OrderedStays ==
    ASSUME Inv, NEW r, NEW q, Ordered(r, q),
           \A k \in Existing(quotations) : quotations'[k] # None /\ quotations'[k].slip = quotations[k].slip,
           \A s \in Existing(slips) : /\ slips'[s].request = slips[s].request
                                      /\ slips[s].status = "SELECTED" => slips'[s].status = "SELECTED"
    PROVE  Ordered(r, q)'
<1>1. q \in Rows /\ q \in Existing(quotations) /\ quotations[q].slip \in Existing(slips)
  BY DEF Ordered, Live, Existing, Inv, LinksOK
<1> QED BY <1>1 DEF Ordered, Live

\* Orders stay, and no request is awarded or moves past its award.
LEMMA AwardsStay ==
    ASSUME Inv, SerialInv, NEW c \in Calls, SlipsMove(c), QuotationsMove(c), UNCHANGED policies,
           \A r \in Existing(requests)' :
               requests'[r].status \notin {"DRAFT", "QUOTING"} =>
                   r \in Existing(requests) /\ requests[r].status = requests'[r].status,
           \A s \in Existing(slips) : /\ slips'[s].request = slips[s].request
                                      /\ slips[s].status = "SELECTED" => slips'[s].status = "SELECTED"
    PROVE  AwardsSerial'
<1>1. AwardsSerial BY DEF SerialInv, RowsSerial
<1>2. \A s \in Existing(slips) : s \in Existing(slips)'
  BY DEF SlipsMove, Keeps, Existing
<1>3. ASSUME NEW r, NEW q, Ordered(r, q) PROVE Ordered(r, q)'
  <2>1. \A k \in Existing(quotations) : quotations'[k] # None /\ quotations'[k].slip = quotations[k].slip
    BY DEF QuotationsMove, Keeps, Existing
  <2> QED BY <1>3, <2>1, OrderedStays
<1>4. Existing(policies)' = Existing(policies) BY DEF Existing
<1>5. ASSUME NEW r \in Existing(requests)', requests'[r].status = "AWARDED"
      PROVE  \E s \in Existing(slips)' : slips'[s].request = r /\ slips'[s].status = "SELECTED"
  BY <1>1, <1>2, <1>5 DEF AwardsSerial
<1>6. RequestShowsItsPolicy'
  <2> SUFFICES ASSUME NEW r \in Existing(requests)',
                      requests'[r].status \in {"UNDER_REVIEW", "FINANCE_REVIEW", "ISSUED"}
               PROVE  \E p \in Existing(policies) : policies[p].request = r /\ Stage(p)' = requests'[r].status
    BY <1>4 DEF RequestShowsItsPolicy
  <2>1. r \in Existing(requests) /\ requests[r].status = requests'[r].status OBVIOUS
  <2>2. PICK p \in Existing(policies) : policies[p].request = r /\ Stage(p) = requests[r].status
    BY <1>1, <2>1 DEF AwardsSerial, RequestShowsItsPolicy
  <2>3. Stage(p)' = Stage(p) BY DEF Stage
  <2> QED BY <2>1, <2>2, <2>3
<1>7. ASSUME NEW p \in Existing(policies)', policies'[p].request # None
      PROVE  Ordered(policies[p].request, policies[p].quotation)'
  <2>1. PICK r, q : /\ r = policies[p].request /\ q = policies[p].quotation
                    /\ r = policies'[p].request /\ q = policies'[p].quotation
    OBVIOUS
  <2>2. Ordered(r, q) BY <1>1, <1>4, <1>7, <2>1 DEF AwardsSerial
  <2>3. Ordered(r, q)' BY <1>3, <2>2
  <2> QED BY <2>1, <2>3
<1> QED BY <1>5, <1>6, <1>7 DEF AwardsSerial

LEMMA MailStays ==
    ASSUME Inv, SerialInv, NEW c, NEW l, Serves(c, l), call[c].step # "mailed",
           UNCHANGED <<mailed, crashes>>,
           \A s \in Rows : slips'[s] = None => slips[s] = None,
           \A s \in Existing(slips) : slips[s].insurers \subseteq slips'[s].insurers
    PROVE  MailSerial'
<1>1. \A d \in Calls : d # c => call[d].step \in {"idle", "done"}
  BY OthersRest DEF SerialInv
<1>2. MailSerial BY DEF SerialInv, RowsSerial
<1>3. \A s \in Rows : slips'[s] = None => mailed'[s] = {}
  BY <1>2 DEF MailSerial
<1>4. ASSUME crashes' = 0, NEW s \in Rows, slips'[s] # None PROVE mailed'[s] \subseteq slips'[s].insurers
  <2>1. CASE slips[s] = None BY <1>2, <2>1 DEF MailSerial
  <2>2. CASE slips[s] # None
    <3>1. mailed[s] \subseteq slips[s].insurers
      BY <1>1, <1>2, <1>4, <2>2 DEF MailSerial, Existing
    <3> QED BY <2>2, <3>1 DEF Existing
  <2> QED BY <2>1, <2>2
<1> QED BY <1>3, <1>4 DEF MailSerial, Existing
-----------------------------------------------------------------------------
(* Calls start on rows as they are, and die without writing.                *)

LEMMA StartsAlone ==
    ASSUME Inv, OneInFlight', NEW c \in Calls, NEW l, Begin(c, l), l.step \notin {"idle", "done"}
    PROVE  /\ call[c].step = "idle" /\ call'[c] = l
           /\ \A d \in Calls : d # c => call'[d] = call[d] /\ call[d].step \in {"idle", "done"}
<1>1. /\ call[c].step = "idle" /\ call'[c] = l
      /\ \A d \in Calls : d # c => call'[d] = call[d]
  BY DEF Begin, Inv
<1>2. ASSUME NEW d \in Calls, d # c PROVE call[d].step \in {"idle", "done"}
  <2>1. c \in InFlight' BY <1>1 DEF InFlight
  <2>2. d \notin InFlight' BY <1>2, <2>1 DEF OneInFlight
  <2> QED BY <1>1, <1>2, <2>2 DEF InFlight
<1> QED BY <1>1, <1>2

LEMMA RowsStay ==
    ASSUME RowsSerial, UNCHANGED rows, UNCHANGED crashes,
           \A d \in Calls : call'[d].step \in {"idle", "cover", "issue"} => call[d].step \in {"idle", "cover", "issue"},
           \A d \in Calls : call[d].step = "mailed" => call'[d] = call[d]
    PROVE  RowsSerial'
<1>1. UNCHANGED <<deals, requests, slips, quotations, covers, policies, mailed>>
  BY DEF rows
<1>2. MadeOnce'
  BY <1>1 DEF RowsSerial, MadeOnce, OneRequestPerDeal, OneRenewalPerPolicy, Existing
<1>3. CoversSerial'
  BY <1>1 DEF RowsSerial, CoversSerial, OneCoverInForce, PolicySupersedesCover, Existing
<1>4. SlipsSerial' /\ OrdersSerial' /\ AwardsSerial'
  BY <1>1 DEF RowsSerial, SlipsSerial, OrdersSerial, AwardsSerial, RequestShowsItsPolicy, Stage, Ordered, Live,
              Existing
<1>5. MailSerial'
  BY <1>1 DEF RowsSerial, MailSerial, Existing
<1> QED BY <1>2, <1>3, <1>4, <1>5 DEF RowsSerial

LEMMA LocalIsStillSerial ==
    ASSUME NEW l, LocalSerial(l), UNCHANGED rows, UNCHANGED crashes
    PROVE  LocalSerial(l)'
<1>1. UNCHANGED <<deals, requests, slips, quotations, covers, policies, mailed>>
  BY DEF rows
<1> QED BY <1>1 DEF LocalSerial, Covered, Ordered, Live, Existing

LEMMA BeginIsSerial ==
    ASSUME Inv, SerialInv, OneInFlight', NEW c \in Calls, NEW l, Begin(c, l),
           l.step \notin {"idle", "done", "copy"}, LocalSerial(l)
    PROVE  SerialInv'
<1>1. /\ call[c].step = "idle" /\ call'[c] = l
      /\ \A d \in Calls : d # c => call'[d] = call[d] /\ call[d].step \in {"idle", "done"}
  BY StartsAlone
<1>2. UNCHANGED rows /\ UNCHANGED crashes /\ \A d \in Calls : d < c => call[d].step # "idle"
  BY DEF Begin
<1>3. RowsSerial'
  BY <1>1, <1>2, RowsStay DEF SerialInv
<1>4. InOrder'
  <2> SUFFICES ASSUME NEW a \in Calls, NEW b \in Calls, b < a, call'[a].step # "idle"
               PROVE  call'[b].step = "done"
    BY DEF InOrder
  <2>1. a \in Nat /\ b \in Nat OBVIOUS
  <2>2. InOrder BY DEF SerialInv
  <2>3. CASE b = c BY <1>1, <2>1, <2>2, <2>3 DEF InOrder
  <2>4. CASE b # c /\ a = c BY <1>1, <1>2, <2>1, <2>4
  <2>5. CASE b # c /\ a # c BY <1>1, <2>2, <2>5 DEF InOrder
  <2> QED BY <2>3, <2>4, <2>5
<1>5. ASSUME NEW d \in Calls PROVE LocalSerial(call[d])' /\ (call'[d].step = "copy" => call'[d].of = d)
  <2>1. PICK k : k = call'[d] /\ LocalSerial(k) /\ (k.step = "copy" => k.of = d)
    <3>1. CASE d = c BY <1>1, <3>1
    <3>2. CASE d # c BY <1>1, <3>2 DEF SerialInv
    <3> QED BY <3>1, <3>2
  <2>2. LocalSerial(k)' BY <1>2, <2>1, LocalIsStillSerial
  <2> QED BY <2>1, <2>2
<1> QED BY <1>3, <1>4, <1>5 DEF SerialInv

LEMMA CrashIsSerial ==
    ASSUME Inv, SerialInv, NEW c \in Calls, Crash(c)
    PROVE  SerialInv'
<1>1. /\ Serves(c, Over) /\ crashes' # 0
      /\ UNCHANGED <<deals, requests, slips, quotations, covers, policies, mailed>>
  BY OverIsOver DEF Crash, Serves, rows, Inv, TypeOK
<1>2. MadeOnce' /\ SlipsSerial' /\ OrdersSerial' /\ AwardsSerial'
  BY <1>1 DEF SerialInv, RowsSerial, MadeOnce, OneRequestPerDeal, OneRenewalPerPolicy, SlipsSerial,
              OrdersSerial, AwardsSerial, RequestShowsItsPolicy, Stage, Ordered, Live, Existing
<1>3. CoversSerial' BY <1>1, CoversStay
<1>4. MailSerial' BY <1>1 DEF SerialInv, RowsSerial, MailSerial
<1>5. LocalSerial(Over)' BY OverIsOver DEF LocalSerial
<1> QED BY <1>1, <1>2, <1>3, <1>4, <1>5, ServedIsSerial DEF RowsSerial

LEMMA StartIsSerial ==
    ASSUME Inv, SerialInv, OneInFlight', NEW c \in Calls, Start(c)
    PROVE  SerialInv'
<1>1. \A step, of, value, set : /\ Local(step, of, value, set).step = step
                                /\ Local(step, of, value, set).of = of
                                /\ Local(step, of, value, set).value = value
                                /\ Local(step, of, value, set).set = set
  BY DEF Local
<1>2. ASSUME NEW d \in Deals, ConvertDeal(c, d) PROVE SerialInv'
  <2>1. LocalSerial(Local("convert", d, None, {})) BY <1>1, <1>2 DEF LocalSerial, ConvertDeal
  <2> QED BY <1>1, <1>2, <2>1, BeginIsSerial DEF ConvertDeal
<1>3. ASSUME NEW d \in Deals, NEW status, UpdateDeal(c, d, status) PROVE SerialInv'
  <2>1. LocalSerial(Local("deal", d, status, {})) BY <1>1 DEF LocalSerial
  <2> QED BY <1>1, <1>3, <2>1, BeginIsSerial DEF UpdateDeal
<1>4. CASE CreateRequest(c)
  <2>1. PICK l : l.step = "request" /\ Begin(c, l) BY <1>1, <1>4 DEF CreateRequest
  <2>2. LocalSerial(l) BY <2>1 DEF LocalSerial
  <2> QED BY <2>1, <2>2, BeginIsSerial
<1>5. ASSUME NEW x \in Rows, InitiateRenewal(c, x) PROVE SerialInv'
  <2>1. LocalSerial(Local("renew", x, None, {})) BY <1>1, <1>5 DEF LocalSerial, InitiateRenewal
  <2> QED BY <1>1, <1>5, <2>1, BeginIsSerial DEF InitiateRenewal
<1>6. ASSUME NEW x \in Rows, UpdateRequest(c, x) \/ RevertRequest(c, x) \/ CreateSlip(c, x) \/ CancelCover(c, x)
      PROVE  SerialInv'
  <2>1. PICK l : l.step \in {"update", "revert", "slip", "uncover"} /\ Begin(c, l)
    BY <1>1, <1>6 DEF UpdateRequest, RevertRequest, CreateSlip, CancelCover
  <2>2. LocalSerial(l) BY <2>1 DEF LocalSerial
  <2> QED BY <2>1, <2>2, BeginIsSerial
<1>7. ASSUME NEW x \in Rows, SendRfq(c, x) PROVE SerialInv'
  <2>1. PICK l : l = Local("mail", x, None, slips[x].insurers) OBVIOUS
  <2>2. Begin(c, l) /\ slips[x] # None BY <1>7, <2>1 DEF SendRfq, Open
  <2>3. \A d \in Calls : call[d].step # "mailed"
    <3>1. l.step \notin {"idle", "done"} BY <1>1, <2>1
    <3> QED BY <2>2, <3>1, StartsAlone
  <2>4. crashes = 0 => mailed[x] \subseteq slips[x].insurers
    BY <2>2, <2>3 DEF SerialInv, RowsSerial, MailSerial, Existing
  <2>5. LocalSerial(l) BY <1>1, <2>1, <2>4 DEF LocalSerial
  <2> QED BY <1>1, <2>1, <2>2, <2>5, BeginIsSerial
<1>8. ASSUME NEW x \in Rows, AddQuotation(c, x) PROVE SerialInv'
  <2>1. PICK l : l = Local("quote", x, slips[x].status, {}) OBVIOUS
  <2>2. slips[x].status # "SELECTED" BY <1>8 DEF AddQuotation, Open
  <2>3. LocalSerial(l) BY <1>1, <2>1, <2>2 DEF LocalSerial
  <2> QED BY <1>1, <1>8, <2>1, <2>3, BeginIsSerial DEF AddQuotation
<1>9. ASSUME NEW x \in Rows, DeclineProposal(c, x) PROVE SerialInv'
  <2>1. LocalSerial(Local("decline", x, None, {}))
    BY <1>1, <1>9 DEF LocalSerial, DeclineProposal, Undecided
  <2> QED BY <1>1, <1>9, <2>1, BeginIsSerial DEF DeclineProposal
<1>10. ASSUME NEW x \in Rows, IssueCover(c, x) PROVE SerialInv'
  <2>1. LocalSerial(Local("cover", x, None, {})) BY <1>1, <1>10 DEF LocalSerial, IssueCover
  <2> QED BY <1>1, <1>10, <2>1, BeginIsSerial DEF IssueCover
<1>11. ASSUME NEW x \in Rows, IssuePolicy(c, x) PROVE SerialInv'
  <2>1. PICK s \in Orderable(x) : Begin(c, Local("issue", x, slips[s].selected, {}))
    BY <1>11 DEF IssuePolicy
  <2>2. PICK q : q = slips[s].selected OBVIOUS
  <2>3. slips[s].request = x /\ slips[s].status = "SELECTED" /\ q \in QuotationsOf(s)
    BY <2>1, <2>2 DEF Orderable
  <2>4. Ordered(x, q) BY <2>3 DEF Ordered, Live, QuotationsOf, Existing
  <2>5. LocalSerial(Local("issue", x, q, {})) BY <1>1, <2>4 DEF LocalSerial
  <2> QED BY <1>1, <2>1, <2>2, <2>5, BeginIsSerial
<1>12. ASSUME NEW x \in Rows, NEW q \in Rows, SelectQuotation(c, x, q) PROVE SerialInv'
  <2>1. LocalSerial(Local("select", x, q, {})) BY <1>1 DEF LocalSerial
  <2> QED BY <1>1, <1>12, <2>1, BeginIsSerial DEF SelectQuotation
<1>13. ASSUME NEW x \in Rows, NEW q \in Rows, AcceptProposal(c, x, q) PROVE SerialInv'
  <2>1. LocalSerial(Local("accept", x, q, {}))
    BY <1>1, <1>13 DEF LocalSerial, AcceptProposal, Undecided
  <2> QED BY <1>1, <1>13, <2>1, BeginIsSerial DEF AcceptProposal
<1>14. ASSUME NEW x \in Rows, NEW ids \in SUBSET Rows, Present(c, x, ids) PROVE SerialInv'
  <2>1. PICK l : l.step = "present" /\ l.of = x /\ Begin(c, l) /\ slips[x].status # "SELECTED"
    BY <1>1, <1>14 DEF Present, Open
  <2>2. LocalSerial(l) BY <2>1 DEF LocalSerial
  <2> QED BY <2>1, <2>2, BeginIsSerial
<1>15. ASSUME NEW x \in Rows,
              ApproveTechnical(c, x) \/ ApprovePolicy(c, x) \/ RevertPolicy(c, x) \/ CancelPolicy(c, x)
       PROVE  SerialInv'
  <2>1. PICK l : /\ l.step = "review" /\ l.of = x /\ Begin(c, l)
                 /\ l.value = "CANCELLED" => policies[x].status = "ISSUED"
    BY <1>1, <1>15 DEF ApproveTechnical, ApprovePolicy, RevertPolicy, CancelPolicy, Review
  <2>2. LocalSerial(l) BY <2>1 DEF LocalSerial
  <2> QED BY <2>1, <2>2, BeginIsSerial
<1> QED BY <1>2, <1>3, <1>4, <1>5, <1>6, <1>7, <1>8, <1>9, <1>10, <1>11, <1>12, <1>13, <1>14, <1>15 DEF Start
-----------------------------------------------------------------------------
(* The steps of the call that is served                                     *)

\* A step that writes deals and requests only.
LEMMA RequestsServed ==
    ASSUME Inv, SerialInv, NEW c \in Calls, NEW l, Serves(c, l), LocalSerial(l)', call[c].step # "mailed",
           UNCHANGED <<slips, quotations, covers, policies, mailed, crashes>>, MadeOnce',
           \A r \in Existing(requests)' :
               requests'[r].status \notin {"DRAFT", "QUOTING"} =>
                   r \in Existing(requests) /\ requests[r].status = requests'[r].status
    PROVE  SerialInv'
<1>1. SlipsMove(c) /\ QuotationsMove(c) BY Untouched DEF Inv
<1>2. CoversSerial' BY CoversStay
<1>3. SlipsSerial' BY SlipsStay
<1>4. AwardsSerial' BY <1>1, AwardsStay
<1>5. MailSerial' BY MailStays
<1>6. OrdersSerial' BY OrdersStay DEF Existing
<1> QED BY <1>2, <1>3, <1>4, <1>5, <1>6, ServedIsSerial DEF RowsSerial

\* A request is made, of a deal or for a policy that has none.
LEMMA MadeNew ==
    ASSUME Inv, MadeOnce, NEW c \in Rows, requests[c] = None, NEW row \in RequestRow,
           requests' = [requests EXCEPT ![c] = row], row.form = {} \/ row.form = {"entered"},
           row.deal # None => deals'[row.deal].request = c,
           \A r \in Existing(requests) : requests[r].deal # None =>
               deals'[requests[r].deal].request = deals[requests[r].deal].request,
           row.renews # None => \A r \in Existing(requests) : requests[r].renews # row.renews,
           row.status = "DRAFT"
    PROVE  /\ MadeOnce'
           /\ \A r \in Existing(requests)' :
                  requests'[r].status \notin {"DRAFT", "QUOTING"} =>
                      r \in Existing(requests) /\ requests[r].status = requests'[r].status
<1>1. requests'[c] = row /\ \A r \in Rows : r # c => requests'[r] = requests[r]
  BY DEF Inv, TypeOK
<1>2. \A r \in Existing(requests)' : r # c => r \in Existing(requests) /\ requests'[r] = requests[r]
  BY <1>1 DEF Existing
<1>3. OneRequestPerDeal'
  <2> SUFFICES ASSUME NEW r \in Existing(requests)', requests'[r].deal # None
               PROVE  deals'[requests'[r].deal].request = r
    BY DEF OneRequestPerDeal
  <2>1. CASE r = c BY <1>1, <2>1
  <2>2. CASE r # c
    <3>1. r \in Existing(requests) /\ requests'[r] = requests[r] BY <1>2, <2>2
    <3>2. deals[requests[r].deal].request = r BY <3>1 DEF MadeOnce, OneRequestPerDeal
    <3> QED BY <3>1, <3>2
  <2> QED BY <2>1, <2>2
<1>4. OneRenewalPerPolicy'
  <2> SUFFICES ASSUME NEW r \in Existing(requests)', NEW x \in Existing(requests)',
                      requests'[r].renews # None, requests'[r].renews = requests'[x].renews, r # x
               PROVE  FALSE
    BY DEF OneRenewalPerPolicy
  <2>1. CASE r = c BY <1>1, <1>2, <2>1
  <2>2. CASE x = c BY <1>1, <1>2, <2>2
  <2>3. CASE r # c /\ x # c BY <1>2, <2>3 DEF MadeOnce, OneRenewalPerPolicy
  <2> QED BY <2>1, <2>2, <2>3
<1>5. \A r \in Existing(requests)' : requests'[r].form \in {{}, {"entered"}, {"copied"}}
  BY <1>1, <1>2 DEF MadeOnce
<1>6. \A r \in Existing(requests)' :
          requests'[r].status \notin {"DRAFT", "QUOTING"} =>
              r \in Existing(requests) /\ requests[r].status = requests'[r].status
  BY <1>1, <1>2
<1> QED BY <1>3, <1>4, <1>5, <1>6 DEF MadeOnce

\* A request that is there is written again.
Rewrites(old, row) ==
    /\ row.deal = old.deal /\ row.renews = old.renews
    /\ row.form = old.form \/ row.form \in {{}, {"entered"}, {"copied"}}

Remade(x, row) ==
    /\ MadeOnce'
    /\ Existing(requests)' = Existing(requests) /\ x \in Existing(requests)
    /\ requests'[x] = row /\ \A r \in Existing(requests) : r # x => requests'[r] = requests[r]

LEMMA MadeAgain ==
    ASSUME Inv, MadeOnce, NEW x, Live(requests, x), NEW row \in RequestRow,
           requests' = [requests EXCEPT ![x] = row], Rewrites(requests[x], row),
           \A d \in Deals : deals'[d].request = deals[d].request
    PROVE  Remade(x, row)
<1>1. x \in Rows /\ requests[x] # None /\ row # None
  BY DEF Live
<1>2. requests'[x] = row /\ \A r \in Rows : r # x => requests'[r] = requests[r]
  BY <1>1 DEF Inv, TypeOK
<1>3. Existing(requests)' = Existing(requests) /\ x \in Existing(requests)
  BY <1>1, <1>2 DEF Existing
<1>4. \A r \in Existing(requests) : /\ requests'[r].deal = requests[r].deal
                                    /\ requests'[r].renews = requests[r].renews
                                    /\ requests[r].deal \in Deals \union {None}
                                    /\ r \in Rows
  <2>1. \A r \in Existing(requests) : requests[r] \in RequestRow /\ r \in Rows BY DEF Existing, Inv, TypeOK
  <2> QED BY <1>2, <2>1 DEF RequestRow, Rewrites
<1>5. OneRequestPerDeal'
  BY <1>3, <1>4 DEF MadeOnce, OneRequestPerDeal
<1>6. OneRenewalPerPolicy'
  BY <1>3, <1>4 DEF MadeOnce, OneRenewalPerPolicy
<1>7. \A r \in Existing(requests) : requests'[r].form \in {{}, {"entered"}, {"copied"}}
  BY <1>2, <1>3, <1>4 DEF MadeOnce, Rewrites
<1> QED BY <1>2, <1>3, <1>4, <1>5, <1>6, <1>7 DEF MadeOnce, Remade

RestatedRow(old, row, status) ==
    /\ row \in RequestRow /\ row.status = status
    /\ row.deal = old.deal /\ row.renews = old.renews /\ row.form = old.form

LEMMA StatusRow ==
    ASSUME Inv, NEW x, Live(requests, x), NEW status \in RequestStatus
    PROVE  RestatedRow(requests[x], [requests[x] EXCEPT !.status = status], status)
<1>1. requests[x] \in RequestRow
  BY DEF Live, Inv, TypeOK
<1> QED BY <1>1 DEF RequestRow, RestatedRow

LEMMA DealServed ==
    ASSUME Inv, SerialInv, NEW c \in Calls, CommitDeal(c) \/ CommitConvert(c)
    PROVE  SerialInv'
<1> DEFINE d == call[c].of
<1>1. /\ LocalOK(c, call[c]) /\ LocalSerial(call[c]) /\ call[c].step \in {"deal", "convert"}
      /\ c \in InFlight /\ Finish(c) /\ UNCHANGED <<slips, quotations, covers, policies, mailed>>
  BY DEF Inv, SerialInv, CommitDeal, CommitConvert, At, InFlight
<1>2. Serves(c, Over) /\ UNCHANGED crashes /\ LocalSerial(Over)'
  <2>1. LocalSerial(Over)' BY OverIsOver DEF LocalSerial
  <2> QED BY <1>1, <2>1, FinishedIsSerial
<1>3. MadeOnce /\ d \in Deals /\ deals[d] \in DealRow
  BY <1>1 DEF SerialInv, RowsSerial, LocalOK, ValuesOK, Inv, TypeOK
<1>4. CASE CommitDeal(c)
  <2>1. deals' = [deals EXCEPT ![d].status = call[c].value] /\ UNCHANGED requests
    BY <1>4 DEF CommitDeal
  <2>2. \A e \in Deals : deals'[e].request = deals[e].request
    BY <1>3, <2>1 DEF Inv, TypeOK, DealRow
  <2>3. Existing(requests)' = Existing(requests) BY <2>1 DEF Existing
  <2>4. \A r \in Existing(requests) : requests[r].deal \in Deals \union {None}
    BY DEF Existing, Inv, TypeOK, RequestRow
  <2>5. MadeOnce' BY <1>3, <2>1, <2>2, <2>3, <2>4, MadeStays
  <2> QED BY <1>1, <1>2, <2>1, <2>3, <2>5, RequestsServed
<1>5. CASE CommitConvert(c)
  <2>1. PICK row : row = Request("DRAFT", d, None, {}) OBVIOUS
  <2>2. requests' = [requests EXCEPT ![c] = row] /\ deals' = [deals EXCEPT ![d] = [status |-> "won", request |-> c]]
    BY <1>5, <2>1 DEF CommitConvert
  <2>3. requests[c] = None /\ c \in Rows /\ deals[d].request = None
    BY <1>1, <1>5 DEF CommitConvert, At, LocalOK, OwnOK, LocalSerial, Rows
  <2>4. /\ row \in RequestRow /\ row.deal = d /\ row.renews = None /\ row.form = {} /\ row.status = "DRAFT"
    <3>1. row \in RequestRow BY <1>3, <2>1, RequestIsARow
    <3> QED BY <2>1, <3>1 DEF Request
  <2>5. deals'[d].request = c /\ \A e \in Deals : e # d => deals'[e] = deals[e]
    BY <1>3, <2>2 DEF Inv, TypeOK
  <2>6. \A r \in Existing(requests) : requests[r].deal # None =>
            deals'[requests[r].deal].request = deals[requests[r].deal].request
    <3> SUFFICES ASSUME NEW r \in Existing(requests), requests[r].deal # None
                 PROVE  deals'[requests[r].deal].request = deals[requests[r].deal].request
      OBVIOUS
    <3>1. deals[requests[r].deal].request = r BY <1>3 DEF MadeOnce, OneRequestPerDeal
    <3>2. r # None /\ requests[r].deal \in Deals BY DEF Existing, Rows, Inv, TypeOK, RequestRow
    <3> QED BY <2>3, <2>5, <3>1, <3>2
  <2>7. /\ MadeOnce'
        /\ \A r \in Existing(requests)' :
               requests'[r].status \notin {"DRAFT", "QUOTING"} =>
                   r \in Existing(requests) /\ requests[r].status = requests'[r].status
    BY <1>3, <2>2, <2>3, <2>4, <2>5, <2>6, MadeNew
  <2> QED BY <1>1, <1>2, <2>7, RequestsServed
<1> QED BY <1>4, <1>5

LEMMA RenewalServed ==
    ASSUME Inv, SerialInv, NEW c \in Calls, CreateRenewal(c)
    PROVE  SerialInv'
<1>1. LocalOK(c, call[c]) /\ LocalSerial(call[c]) /\ call[c].step = "renew" /\ c \in InFlight
  BY DEF Inv, SerialInv, CreateRenewal, At, InFlight
<1>2. PICK p \in Rows : p = call[c].of
  BY <1>1 DEF LocalOK, OtherOK, Live
<1>3. PICK row : row = Request("DRAFT", None, p, {}) OBVIOUS
<1>4. requests' = [requests EXCEPT ![c] = row] /\ UNCHANGED <<deals, slips, quotations, covers, policies, mailed>>
  BY <1>2, <1>3 DEF CreateRenewal
<1>5. requests[c] = None /\ c \in Rows /\ \A r \in Existing(requests) : requests[r].renews # p
  BY <1>1, <1>2 DEF LocalOK, OwnOK, LocalSerial, Rows
<1>6. row \in RequestRow /\ row.deal = None /\ row.renews = p /\ row.form = {} /\ row.status = "DRAFT"
  <2>1. row \in RequestRow BY <1>3, RequestIsARow
  <2> QED BY <1>3, <2>1 DEF Request
<1>7. MadeOnce BY DEF SerialInv, RowsSerial
<1>8. /\ MadeOnce'
      /\ \A r \in Existing(requests)' :
             requests'[r].status \notin {"DRAFT", "QUOTING"} =>
                 r \in Existing(requests) /\ requests[r].status = requests'[r].status
  BY <1>4, <1>5, <1>6, <1>7, MadeNew
<1>9. PICK l : /\ call' = [call EXCEPT ![c] = l] /\ UNCHANGED crashes
               /\ l.step = "done" \/ (l.step = "copy" /\ l.of = c)
  <2>1. \/ Finish(c)
        \/ \E v : call' = [call EXCEPT ![c] = Local("copy", c, v, {})] /\ UNCHANGED crashes
    BY DEF CreateRenewal
  <2>2. \A v : Local("copy", c, v, {}).step = "copy" /\ Local("copy", c, v, {}).of = c
    BY DEF Local
  <2>3. CASE Finish(c)
    <3>1. PICK l : l = Over OBVIOUS
    <3>2. call' = [call EXCEPT ![c] = l] /\ UNCHANGED crashes BY <2>3, <3>1 DEF Finish
    <3> QED BY <3>1, <3>2, OverIsOver
  <2>4. CASE ~ Finish(c)
    <3>1. PICK v : call' = [call EXCEPT ![c] = Local("copy", c, v, {})] /\ UNCHANGED crashes BY <2>1, <2>4
    <3>2. PICK l : l = Local("copy", c, v, {}) OBVIOUS
    <3> QED BY <2>2, <3>1, <3>2
  <2> QED BY <2>3, <2>4
<1>10. Serves(c, l) BY <1>1, <1>9 DEF Serves
<1>11. LocalSerial(l)'
  <2>1. requests'[c] = row BY <1>4, <1>5 DEF Inv, TypeOK
  <2> QED BY <1>6, <1>9, <2>1 DEF LocalSerial
<1> QED BY <1>1, <1>4, <1>8, <1>9, <1>10, <1>11, RequestsServed

LEMMA RequestCallsServed ==
    ASSUME Inv, SerialInv, NEW c \in Calls,
           CopyBlocks(c) \/ CommitRequest(c) \/ CommitUpdate(c) \/ CommitRevert(c)
    PROVE  SerialInv'
<1>1. /\ LocalOK(c, call[c]) /\ LocalSerial(call[c]) /\ (call[c].step = "copy" => call[c].of = c) /\ c \in Rows
      /\ Finish(c) /\ UNCHANGED <<deals, slips, quotations, covers, policies, mailed>>
      /\ call[c].step \in {"copy", "request", "update", "revert"} /\ c \in InFlight
  BY DEF Inv, SerialInv, CopyBlocks, CommitRequest, CommitUpdate, CommitRevert, At, InFlight, Rows
<1>2. Serves(c, Over) /\ UNCHANGED crashes /\ LocalSerial(Over)'
  <2>1. LocalSerial(Over)' BY OverIsOver DEF LocalSerial
  <2> QED BY <1>1, <2>1, FinishedIsSerial
<1>3. MadeOnce BY DEF SerialInv, RowsSerial
<1>4. CASE CommitRequest(c)
  <2>1. PICK row : row = Request("DRAFT", None, None, {"entered"}) OBVIOUS
  <2>2. requests' = [requests EXCEPT ![c] = row] BY <1>4, <2>1 DEF CommitRequest
  <2>3. requests[c] = None BY <1>1, <1>4 DEF CommitRequest, At, LocalOK, OwnOK
  <2>4. row \in RequestRow /\ row.deal = None /\ row.renews = None /\ row.form = {"entered"} /\ row.status = "DRAFT"
    <3>1. row \in RequestRow BY <2>1, RequestIsARow
    <3> QED BY <2>1, <3>1 DEF Request
  <2>5. /\ MadeOnce'
        /\ \A r \in Existing(requests)' :
               requests'[r].status \notin {"DRAFT", "QUOTING"} =>
                   r \in Existing(requests) /\ requests[r].status = requests'[r].status
    BY <1>1, <1>3, <2>2, <2>3, <2>4, MadeNew
  <2> QED BY <1>1, <1>2, <2>5, RequestsServed
<1>5. ASSUME NEW x, Live(requests, x), NEW row \in RequestRow, requests' = [requests EXCEPT ![x] = row],
             row.deal = requests[x].deal, row.renews = requests[x].renews,
             row.form = requests[x].form \/ row.form \in {{}, {"entered"}, {"copied"}},
             row.status \in {requests[x].status, "DRAFT", "QUOTING"}
      PROVE  SerialInv'
  <2>1. Remade(x, row)
    <3>1. \A d \in Deals : deals'[d].request = deals[d].request BY <1>1
    <3>2. Rewrites(requests[x], row) BY <1>5 DEF Rewrites
    <3> QED BY <1>3, <1>5, <3>1, <3>2, MadeAgain
  <2>2. \A r \in Existing(requests)' :
            requests'[r].status \notin {"DRAFT", "QUOTING"} =>
                r \in Existing(requests) /\ requests[r].status = requests'[r].status
    BY <1>5, <2>1 DEF Remade
  <2> QED BY <1>1, <1>2, <2>1, <2>2, RequestsServed DEF Remade
<1>6. CASE CommitRevert(c)
  <2>1. PICK x : x = call[c].of /\ Live(requests, x)
    BY <1>1, <1>6 DEF CommitRevert, At, LocalOK, OtherOK
  <2>2. PICK status \in {"DRAFT", "QUOTING"} : status = call[c].value
    BY <1>1, <1>6 DEF CommitRevert, At, LocalOK, ValuesOK
  <2>3. requests' = [requests EXCEPT ![x].status = status] BY <1>6, <2>1, <2>2 DEF CommitRevert
  <2> DEFINE row == [requests[x] EXCEPT !.status = status]
  <2>4. RestatedRow(requests[x], row, status)
    <3>1. status \in RequestStatus BY DEF RequestStatus
    <3> QED BY <2>1, <3>1, StatusRow, Zenon
  <2>5. requests' = [requests EXCEPT ![x] = row] BY <2>3
  <2> HIDE DEF row
  <2> QED BY <1>5, <2>1, <2>4, <2>5 DEF RestatedRow
<1>7. ASSUME NEW x, Live(requests, x), NEW form \in {{}, {"entered"}, {"copied"}},
             requests' = [requests EXCEPT ![x].form = form]
      PROVE  SerialInv'
  <2> DEFINE row == [requests[x] EXCEPT !.form = form]
  <2>1. requests[x] \in RequestRow /\ form \in SUBSET {"entered", "copied"}
    BY <1>7 DEF Live, Inv, TypeOK
  <2>2. /\ row \in RequestRow /\ row.deal = requests[x].deal /\ row.renews = requests[x].renews
        /\ row.form = form /\ row.status = requests[x].status
    BY <2>1 DEF RequestRow
  <2>3. requests' = [requests EXCEPT ![x] = row] BY <1>7
  <2> HIDE DEF row
  <2> QED BY <1>5, <1>7, <2>2, <2>3
<1>8. CASE CommitUpdate(c)
  <2>1. Live(requests, call[c].of)
    BY <1>1, <1>8 DEF CommitUpdate, At, LocalOK, OtherOK
  <2> QED BY <1>7, <1>8, <2>1 DEF CommitUpdate
<1>9. CASE CopyBlocks(c)
  <2>1. PICK form : form = requests[c].form \union (IF requests[call[c].value].form = {} THEN {} ELSE {"copied"})
    OBVIOUS
  <2>2. requests[c] # None /\ requests[c].form = {}
    BY <1>1, <1>9 DEF CopyBlocks, At, LocalOK, OwnOK, LocalSerial
  <2>3. form \in {{}, {"entered"}, {"copied"}} BY <2>1, <2>2
  <2>4. requests' = [requests EXCEPT ![c].form = form] /\ Live(requests, c)
    BY <1>1, <1>9, <2>1, <2>2 DEF CopyBlocks, Live
  <2> QED BY <1>7, <2>3, <2>4
<1> QED BY <1>1, <1>4, <1>6, <1>8, <1>9

\* One slip is written that keeps its order and its names, and perhaps a quotation
\* comes in.
LEMMA SlipServed ==
    ASSUME Inv, SerialInv, NEW c \in Calls, c \in InFlight, Finish(c), call[c].step # "mailed",
           UNCHANGED <<deals, requests, covers, policies, mailed>>, QuotationsMove(c),
           \A q \in Existing(quotations)' : \/ slips[quotations'[q].slip].status # "SELECTED"
                                            \/ q \in Existing(quotations) /\ quotations'[q] = quotations[q],
           NEW x, Live(slips, x), NEW row \in SlipRow, slips' = [slips EXCEPT ![x] = row],
           row.request = slips[x].request, slips[x].insurers \subseteq row.insurers,
           slips[x].status = "SELECTED" <=> row.status = "SELECTED",
           row.status = "SELECTED" => row.selected # None,
           row.decision = "accepted" => row.status = "SELECTED",
           row.accepted # None => row.accepted \in row.presented
    PROVE  SerialInv'
<1>1. Serves(c, Over) /\ UNCHANGED crashes BY FinishedIsSerial
<1>2. x \in Rows /\ slips[x] # None /\ row # None BY DEF Live
<1>3. slips'[x] = row /\ \A s \in Rows : s # x => slips'[s] = slips[s]
  BY <1>2 DEF Inv, TypeOK
<1>4. Existing(slips)' = Existing(slips) /\ x \in Existing(slips) BY <1>2, <1>3 DEF Existing
<1>5. \A s \in Existing(slips) : s # x => slips'[s] = slips[s] BY <1>3 DEF Existing
<1>6. SlipsMove(c)
  <2>1. slips' \in [Rows -> SlipRow \union {None}] BY DEF Inv, TypeOK
  <2> QED BY <1>2, <1>3, <2>1 DEF SlipsMove, Keeps
<1>7. MadeOnce'
  BY DEF SerialInv, RowsSerial, MadeOnce, OneRequestPerDeal, OneRenewalPerPolicy, Existing
<1>8. CoversSerial' BY <1>1, CoversStay
<1>9. SlipsSerial' BY <1>3, <1>4, <1>5 DEF SerialInv, RowsSerial, SlipsSerial
<1>10. AwardsSerial'
  <2>1. Existing(requests)' = Existing(requests) BY DEF Existing
  <2> QED BY <1>3, <1>5, <1>6, <2>1, AwardsStay
<1>11. MailSerial'
  <2>1. \A s \in Rows : slips'[s] = None => slips[s] = None BY <1>2, <1>3
  <2>2. \A s \in Existing(slips) : slips[s].insurers \subseteq slips'[s].insurers BY <1>3, <1>5
  <2> QED BY <1>1, <2>1, <2>2, MailStays
<1>12. OrdersSerial'
  <2> SUFFICES ASSUME NEW q \in Existing(quotations)', slips'[quotations'[q].slip].status = "SELECTED"
               PROVE  quotations'[q].status # "RECEIVED"
    BY DEF OrdersSerial
  <2>1. quotations'[q].slip \in Rows BY DEF Existing, QuotationsMove, QuotationRow
  <2>2. slips[quotations'[q].slip].status = "SELECTED" BY <1>3, <2>1
  <2>3. OrdersSerial BY DEF SerialInv, RowsSerial
  <2> QED BY <2>2, <2>3 DEF OrdersSerial
<1> QED BY <1>7, <1>8, <1>9, <1>10, <1>11, <1>12, FinishedIsSerial DEF RowsSerial

LEMMA PresentServed ==
    ASSUME Inv, SerialInv, NEW c \in Calls, CommitPresent(c)
    PROVE  SerialInv'
<1>1. /\ LocalOK(c, call[c]) /\ LocalSerial(call[c]) /\ call[c].step = "present" /\ c \in InFlight
      /\ Finish(c) /\ UNCHANGED <<deals, requests, quotations, covers, policies, mailed>>
  BY DEF Inv, SerialInv, CommitPresent, At, InFlight
<1>2. PICK s : s = call[c].of /\ Live(slips, s) BY <1>1 DEF LocalOK, OtherOK
<1>3. PICK set : set = call[c].set /\ set \subseteq QuotationsOf(s) BY <1>1, <1>2 DEF LocalOK, OtherOK
<1> DEFINE row == [slips[s] EXCEPT !.presented = set, !.decision = "pending", !.accepted = None]
<1>4. slips[s] \in SlipRow /\ set \in SUBSET Rows /\ slips[s].status # "SELECTED"
  BY <1>1, <1>2, <1>3, SlipFields DEF QuotationsOf, Existing, LocalSerial
<1>5. /\ row \in SlipRow /\ row.request = slips[s].request /\ row.decision = "pending" /\ row.accepted = None
      /\ row.status = slips[s].status /\ row.insurers = slips[s].insurers
  <2>1. PresentedRow(slips[s], row, set) BY <1>4, Presented, Zenon
  <2> HIDE DEF row
  <2> QED BY <2>1 DEF PresentedRow
<1>6. slips' = [slips EXCEPT ![s] = row] BY <1>2, <1>3 DEF CommitPresent
<1> HIDE DEF row
<1>7. /\ QuotationsMove(c)
      /\ \A q \in Existing(quotations)' : q \in Existing(quotations) /\ quotations'[q] = quotations[q]
  BY <1>1, Untouched DEF Inv, Existing
<1> QED BY <1>1, <1>2, <1>4, <1>5, <1>6, <1>7, SlipServed

LEMMA DeclineServed ==
    ASSUME Inv, SerialInv, NEW c \in Calls, CommitDecline(c)
    PROVE  SerialInv'
<1>1. /\ LocalOK(c, call[c]) /\ LocalSerial(call[c]) /\ call[c].step = "decline" /\ c \in InFlight
      /\ Finish(c) /\ UNCHANGED <<deals, requests, quotations, covers, policies, mailed>>
  BY DEF Inv, SerialInv, CommitDecline, At, InFlight
<1>2. PICK s : s = call[c].of /\ Live(slips, s) BY <1>1 DEF LocalOK, OtherOK
<1> DEFINE row == [slips[s] EXCEPT !.decision = "declined"]
<1>3. slips[s] \in SlipRow BY <1>2, SlipFields
<1>4. /\ row \in SlipRow /\ row.request = slips[s].request /\ row.decision = "declined"
      /\ row.accepted = slips[s].accepted /\ row.presented = slips[s].presented
      /\ row.selected = slips[s].selected /\ row.status = slips[s].status /\ row.insurers = slips[s].insurers
  BY <1>3 DEF SlipRow
<1>5. slips' = [slips EXCEPT ![s] = row] BY <1>2 DEF CommitDecline
<1> HIDE DEF row
<1>6. /\ QuotationsMove(c)
      /\ \A q \in Existing(quotations)' : q \in Existing(quotations) /\ quotations'[q] = quotations[q]
  BY <1>1, Untouched DEF Inv, Existing
<1>7. /\ slips[s].status = "SELECTED" => slips[s].selected # None
      /\ slips[s].accepted # None => slips[s].accepted \in slips[s].presented
  BY <1>2 DEF SerialInv, RowsSerial, SlipsSerial, Live, Existing
<1> QED BY <1>1, <1>2, <1>4, <1>5, <1>6, <1>7, SlipServed

\* The slip is QUOTED only if it is still SENT.
LEMMA QuotationServed ==
    ASSUME Inv, SerialInv, NEW c \in Calls, CommitQuotation(c)
    PROVE  SerialInv'
<1>1. /\ LocalOK(c, call[c]) /\ LocalSerial(call[c]) /\ call[c].step = "quote" /\ c \in InFlight /\ c \in Rows
      /\ Finish(c) /\ UNCHANGED <<deals, requests, covers, policies, mailed>>
  BY DEF Inv, SerialInv, CommitQuotation, At, InFlight, Rows
<1>2. PICK s : s = call[c].of /\ Live(slips, s) BY <1>1 DEF LocalOK, OtherOK
<1>3. PICK new : new = Quotation(s, "RECEIVED") OBVIOUS
<1>4. new \in QuotationRow /\ new.slip = s
  BY <1>2, <1>3 DEF Quotation, QuotationRow, Live
<1>5. quotations[c] = None /\ quotations' = [quotations EXCEPT ![c] = new]
  BY <1>1, <1>2, <1>3 DEF LocalOK, OwnOK, CommitQuotation
<1>6. quotations'[c] = new /\ new # None /\ \A q \in Rows : q # c => quotations'[q] = quotations[q]
  BY <1>1, <1>4, <1>5 DEF Inv, TypeOK
<1>7. /\ QuotationsMove(c)
      /\ \A q \in Existing(quotations)' : \/ slips[quotations'[q].slip].status # "SELECTED"
                                          \/ q \in Existing(quotations) /\ quotations'[q] = quotations[q]
  <2>1. quotations' \in [Rows -> QuotationRow \union {None}] BY <1>4, <1>5 DEF Inv, TypeOK
  <2>2. QuotationsMove(c) BY <1>5, <1>6, <2>1 DEF QuotationsMove, Keeps, Existing
  <2>3. slips[quotations'[c].slip].status # "SELECTED" BY <1>1, <1>2, <1>4, <1>6 DEF LocalSerial
  <2> QED BY <1>6, <2>2, <2>3 DEF Existing
<1>8. slips[s] \in SlipRow BY <1>2, SlipFields
<1>9. /\ slips[s].status = "SELECTED" => slips[s].selected # None
      /\ slips[s].decision = "accepted" => slips[s].status = "SELECTED"
      /\ slips[s].accepted # None => slips[s].accepted \in slips[s].presented
  BY <1>2 DEF SerialInv, RowsSerial, SlipsSerial, Live, Existing
<1>10. CASE slips[s].status = "SENT"
  <2> DEFINE row == [slips[s] EXCEPT !.status = "QUOTED"]
  <2>1. /\ row \in SlipRow /\ row.request = slips[s].request /\ row.decision = slips[s].decision
        /\ row.accepted = slips[s].accepted /\ row.presented = slips[s].presented
        /\ row.status = "QUOTED" /\ row.insurers = slips[s].insurers
    BY <1>8 DEF SlipRow
  <2>2. slips' = [slips EXCEPT ![s].status = "QUOTED"]
    BY <1>1, <1>2, <1>10 DEF CommitQuotation, LocalSerial
  <2>3. slips' = [slips EXCEPT ![s] = row] BY <2>2
  <2> HIDE DEF row
  <2> QED BY <1>1, <1>2, <1>7, <1>9, <1>10, <2>1, <2>3, SlipServed
<1>11. CASE slips[s].status # "SENT"
  <2>1. slips' = slips BY <1>1, <1>2, <1>11 DEF CommitQuotation, LocalSerial
  <2>2. slips' = [slips EXCEPT ![s] = slips[s]] BY <1>2, <2>1 DEF Inv, TypeOK, Live
  <2>3. PICK row \in SlipRow : row = slips[s] BY <1>8
  <2>4. slips' = [slips EXCEPT ![s] = row] BY <2>2, <2>3
  <2> QED BY <1>1, <1>2, <1>7, <1>9, <2>3, <2>4, SlipServed
<1> QED BY <1>10, <1>11

LEMMA RecordServed ==
    ASSUME Inv, SerialInv, NEW c \in Calls, RecordMail(c)
    PROVE  SerialInv'
<1>1. /\ LocalOK(c, call[c]) /\ LocalSerial(call[c]) /\ call[c].step = "mailed" /\ c \in InFlight
      /\ Finish(c) /\ UNCHANGED <<deals, requests, quotations, covers, policies, mailed>>
  BY DEF Inv, SerialInv, RecordMail, At, InFlight
<1>2. Serves(c, Over) /\ UNCHANGED crashes BY <1>1, FinishedIsSerial
<1>3. PICK x : x = call[c].of /\ Live(slips, x) BY <1>1 DEF LocalOK, OtherOK
<1>4. PICK set : set = call[c].set /\ set \in SUBSET Insurers BY <1>1 DEF LocalOK, ValuesOK
<1> DEFINE row == [slips[x] EXCEPT !.insurers = set]
<1>5. x \in Rows /\ slips[x] # None /\ slips[x] \in SlipRow BY <1>3, SlipFields DEF Live
<1>6. /\ row \in SlipRow /\ row.request = slips[x].request /\ row.decision = slips[x].decision
      /\ row.accepted = slips[x].accepted /\ row.presented = slips[x].presented
      /\ row.selected = slips[x].selected /\ row.status = slips[x].status /\ row.insurers = set
  BY <1>4, <1>5 DEF SlipRow
<1>7. slips' = [slips EXCEPT ![x] = row] BY <1>3, <1>4 DEF RecordMail
<1> HIDE DEF row
<1>8. slips'[x] = row /\ row # None /\ \A s \in Rows : s # x => slips'[s] = slips[s]
  BY <1>5, <1>6, <1>7 DEF Inv, TypeOK
<1>9. Existing(slips)' = Existing(slips) /\ x \in Existing(slips) BY <1>5, <1>8 DEF Existing
<1>10. \A s \in Existing(slips) : s # x => slips'[s] = slips[s] BY <1>8 DEF Existing
<1>11. MadeOnce'
  BY <1>1 DEF SerialInv, RowsSerial, MadeOnce, OneRequestPerDeal, OneRenewalPerPolicy, Existing
<1>12. CoversSerial' BY <1>1, <1>2, CoversStay
<1>13. SlipsSerial' BY <1>6, <1>8, <1>9, <1>10 DEF SerialInv, RowsSerial, SlipsSerial
<1>14. AwardsSerial'
  <2>1. SlipsMove(c)
    <3>1. slips' \in [Rows -> SlipRow \union {None}] BY <1>6, <1>7 DEF Inv, TypeOK
    <3> QED BY <1>5, <1>8, <3>1 DEF SlipsMove, Keeps
  <2>2. QuotationsMove(c) /\ \A q \in Existing(quotations) : quotations'[q] = quotations[q]
    BY <1>1, Untouched DEF Inv
  <2>3. Existing(requests)' = Existing(requests) BY <1>1 DEF Existing
  <2> QED BY <1>1, <1>6, <1>8, <1>10, <2>1, <2>2, <2>3, AwardsStay
<1>15. MailSerial'
  <2>1. MailSerial BY DEF SerialInv, RowsSerial
  <2>2. \A d \in Calls : d # c => call[d].step \in {"idle", "done"} BY <1>2, OthersRest DEF SerialInv
  <2>3. \A s \in Rows : slips'[s] = None => mailed'[s] = {}
    BY <1>1, <1>5, <1>8, <2>1 DEF MailSerial
  <2>4. ASSUME crashes' = 0, NEW s \in Existing(slips) PROVE mailed'[s] \subseteq slips'[s].insurers
    <3>1. CASE s = x BY <1>1, <1>2, <1>3, <1>4, <1>6, <1>8, <2>4, <3>1 DEF LocalSerial
    <3>2. CASE s # x
      <4>1. mailed[s] \subseteq slips[s].insurers
        BY <1>1, <1>2, <1>3, <2>1, <2>2, <2>4, <3>2 DEF MailSerial
      <4> QED BY <1>1, <1>10, <3>2, <4>1
    <3> QED BY <3>1, <3>2
  <2> QED BY <1>9, <2>3, <2>4 DEF MailSerial
<1>16. OrdersSerial' BY <1>1, <1>6, <1>8, <1>10, OrdersStay DEF Existing
<1> QED BY <1>1, <1>11, <1>12, <1>13, <1>14, <1>15, <1>16, FinishedIsSerial DEF RowsSerial

LEMMA MailServed ==
    ASSUME Inv, SerialInv, NEW c \in Calls, NEW sent \in SUBSET Insurers, Mail(c, sent)
    PROVE  SerialInv'
<1>1. /\ LocalOK(c, call[c]) /\ LocalSerial(call[c]) /\ call[c].step = "mail" /\ c \in InFlight
      /\ UNCHANGED <<deals, requests, slips, quotations, covers, policies>>
  BY DEF Inv, SerialInv, Mail, At, InFlight
<1>2. PICK x : x = call[c].of /\ Live(slips, x) BY <1>1 DEF LocalOK, OtherOK
<1>3. PICK set : set = call[c].set \union sent OBVIOUS
<1>4. mailed' = [mailed EXCEPT ![x] = @ \union sent] BY <1>2 DEF Mail
<1>5. /\ mailed'[x] = mailed[x] \union sent /\ \A s \in Rows : s # x => mailed'[s] = mailed[s]
      /\ x \in Rows /\ slips[x] # None
  BY <1>2, <1>4 DEF Inv, TypeOK, Live
<1>6. PICK l : /\ call' = [call EXCEPT ![c] = l] /\ UNCHANGED crashes
               /\ (sent = {} /\ l.step = "done") \/ (l.step = "mailed" /\ l.of = x /\ l.set = set)
  <2>1. CASE sent # {}
    <3>1. PICK l : l = Local("mailed", x, None, set) OBVIOUS
    <3>2. call' = [call EXCEPT ![c] = l] /\ UNCHANGED crashes BY <1>2, <1>3, <2>1, <3>1 DEF Mail
    <3>3. l.step = "mailed" /\ l.of = x /\ l.set = set BY <3>1 DEF Local
    <3> QED BY <3>2, <3>3
  <2>2. CASE sent = {}
    <3>1. PICK l : l = Over OBVIOUS
    <3>2. call' = [call EXCEPT ![c] = l] /\ UNCHANGED crashes BY <2>2, <3>1 DEF Mail, Finish
    <3> QED BY <2>2, <3>1, <3>2, OverIsOver
  <2> QED BY <2>1, <2>2
<1>7. Serves(c, l) BY <1>1, <1>6 DEF Serves
<1>8. crashes = 0 => mailed'[x] \subseteq set
  BY <1>1, <1>2, <1>3, <1>5 DEF LocalSerial
<1>9. LocalSerial(l)' BY <1>6, <1>8 DEF LocalSerial
<1>10. MadeOnce' /\ SlipsSerial' /\ OrdersSerial' /\ AwardsSerial'
  BY <1>1 DEF SerialInv, RowsSerial, MadeOnce, OneRequestPerDeal, OneRenewalPerPolicy, SlipsSerial,
              OrdersSerial, AwardsSerial, RequestShowsItsPolicy, Stage, Ordered, Live, Existing
<1>11. CoversSerial' BY <1>1, <1>7, CoversStay
<1>12. MailSerial'
  <2>1. MailSerial BY DEF SerialInv, RowsSerial
  <2>2. /\ call'[c] = l /\ \A d \in Calls : d # c => call[d].step \in {"idle", "done"}
    BY <1>7, OthersRest DEF SerialInv
  <2>3. \A s \in Rows : slips'[s] = None => mailed'[s] = {}
    BY <1>1, <1>5, <2>1 DEF MailSerial
  <2>4. ASSUME crashes' = 0, NEW s \in Existing(slips)
        PROVE  mailed'[s] \subseteq slips'[s].insurers \/ (l.step = "mailed" /\ l.of = s)
    <3>1. CASE s = x
      <4>1. CASE sent = {}
        <5>1. mailed[x] \subseteq slips[x].insurers BY <1>1, <1>2, <1>6, <2>4 DEF LocalSerial
        <5> QED BY <1>1, <1>5, <3>1, <4>1, <5>1
      <4>2. CASE sent # {} BY <1>6, <3>1, <4>2
      <4> QED BY <4>1, <4>2
    <3>2. CASE s # x
      <4>1. mailed[s] \subseteq slips[s].insurers
        BY <1>1, <1>6, <2>1, <2>2, <2>4 DEF MailSerial
      <4>2. s \in Rows BY DEF Existing
      <4> QED BY <1>1, <1>5, <3>2, <4>1, <4>2
    <3> QED BY <3>1, <3>2
  <2>5. Existing(slips)' = Existing(slips) BY <1>1 DEF Existing
  <2> QED BY <2>2, <2>3, <2>4, <2>5 DEF MailSerial
<1> QED BY <1>7, <1>9, <1>10, <1>11, <1>12, ServedIsSerial DEF RowsSerial

LEMMA SlipMadeServed ==
    ASSUME Inv, SerialInv, NEW c \in Calls, CommitSlip(c)
    PROVE  SerialInv'
<1>1. /\ LocalOK(c, call[c]) /\ call[c].step = "slip" /\ c \in InFlight /\ c \in Rows
      /\ Finish(c) /\ UNCHANGED <<deals, quotations, covers, policies, mailed>>
  BY DEF Inv, SerialInv, CommitSlip, At, InFlight, Rows
<1>2. Serves(c, Over) /\ UNCHANGED crashes BY <1>1, FinishedIsSerial
<1>3. PICK r : r = call[c].of /\ Live(requests, r) BY <1>1 DEF LocalOK, OtherOK
<1>4. PICK slip : slip = Slip(r, "SENT", {}) OBVIOUS
<1>5. slip \in SlipRow /\ slip.status = "SENT" /\ slip.decision = None /\ slip.accepted = None
  BY <1>3, <1>4 DEF Slip, SlipRow, Live
<1>6. slips[c] = None /\ slips' = [slips EXCEPT ![c] = slip]
  BY <1>1, <1>3, <1>4 DEF LocalOK, OwnOK, CommitSlip
<1>7. slips'[c] = slip /\ slip # None /\ \A s \in Rows : s # c => slips'[s] = slips[s]
  BY <1>1, <1>5, <1>6 DEF Inv, TypeOK
<1>8. \A s \in Existing(slips) : s \in Existing(slips)' /\ slips'[s] = slips[s]
  BY <1>6, <1>7 DEF Existing
<1> DEFINE row == [requests[r] EXCEPT !.status = "QUOTING"]
<1>9. RestatedRow(requests[r], row, "QUOTING")
  BY <1>3, StatusRow, Zenon DEF RequestStatus
<1>10. requests' = [requests EXCEPT ![r] = row] BY <1>3 DEF CommitSlip
<1> HIDE DEF row
<1>11. MadeOnce /\ \A d \in Deals : deals'[d].request = deals[d].request
  BY <1>1 DEF SerialInv, RowsSerial
<1>12a. Remade(r, row)
  <2>1. row \in RequestRow /\ Rewrites(requests[r], row) /\ row.status = "QUOTING" BY <1>9 DEF RestatedRow, Rewrites
  <2> QED BY <1>3, <1>10, <1>11, <2>1, MadeAgain
<1>12. /\ MadeOnce'
       /\ Existing(requests)' = Existing(requests) /\ r \in Existing(requests)
       /\ requests'[r] = row /\ \A x \in Existing(requests) : x # r => requests'[x] = requests[x]
  BY <1>12a DEF Remade
<1>13. CoversSerial' BY <1>1, <1>2, CoversStay
<1>14. SlipsSerial'
  <2>1. \A s \in Existing(slips)' : s = c \/ s \in Existing(slips) BY <1>7 DEF Existing
  <2> QED BY <1>5, <1>7, <1>8, <2>1 DEF SerialInv, RowsSerial, SlipsSerial
<1>15. AwardsSerial'
  <2>1. SlipsMove(c)
    <3>1. slips' \in [Rows -> SlipRow \union {None}] BY <1>5, <1>6 DEF Inv, TypeOK
    <3> QED BY <1>6, <1>7, <3>1 DEF SlipsMove, Keeps
  <2>2. QuotationsMove(c) /\ \A q \in Existing(quotations) : quotations'[q] = quotations[q]
    BY <1>1, Untouched DEF Inv
  <2> QED BY <1>1, <1>8, <1>9, <1>12, <2>1, <2>2, AwardsStay DEF RestatedRow
<1>16. MailSerial'
  <2>1. \A s \in Rows : slips'[s] = None => slips[s] = None BY <1>6, <1>7
  <2> QED BY <1>1, <1>2, <1>8, <2>1, MailStays
<1>17. OrdersSerial' BY <1>1, <1>8, OrdersStay DEF Existing
<1> QED BY <1>1, <1>12, <1>13, <1>14, <1>15, <1>16, <1>17, FinishedIsSerial DEF RowsSerial

\* An order closes the other offers of its slip, and leaves those of other slips.
LEMMA OrderServed ==
    ASSUME Inv, SerialInv, NEW c \in Calls, c \in InFlight, Finish(c), call[c].step # "mailed",
           NEW s, Live(slips, s), NEW q \in QuotationsOf(s), NEW row, OrderedRow(slips[s], row, q),
           row.accepted # None => row.accepted \in row.presented,
           slips' = [slips EXCEPT ![s] = row], quotations' = Order(s, q),
           requests' = [requests EXCEPT ![slips[s].request].status = "AWARDED"],
           UNCHANGED <<deals, covers, policies, mailed>>
    PROVE  SerialInv'
<1>1. Serves(c, Over) /\ UNCHANGED crashes BY FinishedIsSerial
<1>2. /\ s \in Rows /\ slips[s] # None /\ row # None /\ q \in Rows
      /\ row.request = slips[s].request /\ row.selected = q /\ row.status = "SELECTED"
      /\ row.insurers = slips[s].insurers
  BY DEF OrderedRow, Live, QuotationsOf, Existing
<1>3. q # None BY <1>2 DEF Rows
<1>4. slips'[s] = row /\ \A x \in Rows : x # s => slips'[x] = slips[x]
  BY <1>2 DEF Inv, TypeOK
<1>5. Existing(slips)' = Existing(slips) /\ s \in Existing(slips) BY <1>2, <1>4 DEF Existing
<1>6. \A x \in Existing(slips) : x # s => slips'[x] = slips[x] BY <1>4 DEF Existing
<1>7. PICK r : r = slips[s].request /\ Live(requests, r) BY SlipFields
<1> DEFINE award == [requests[r] EXCEPT !.status = "AWARDED"]
<1>8. RestatedRow(requests[r], award, "AWARDED")
  BY <1>7, StatusRow, Zenon DEF RequestStatus
<1>9. requests' = [requests EXCEPT ![r] = award] BY <1>7
<1> HIDE DEF award
<1>10. MadeOnce /\ \A d \in Deals : deals'[d].request = deals[d].request
  BY DEF SerialInv, RowsSerial
<1>11a. Remade(r, award)
  <2>1. award \in RequestRow /\ Rewrites(requests[r], award) BY <1>8 DEF RestatedRow, Rewrites
  <2> QED BY <1>7, <1>9, <1>10, <2>1, MadeAgain
<1>11. /\ MadeOnce'
       /\ Existing(requests)' = Existing(requests) /\ r \in Existing(requests)
       /\ requests'[r] = award /\ \A x \in Existing(requests) : x # r => requests'[x] = requests[x]
  BY <1>11a DEF Remade
<1>12. CoversSerial' BY <1>1, CoversStay
<1>13. SlipsSerial' BY <1>2, <1>3, <1>4, <1>5, <1>6 DEF SerialInv, RowsSerial, SlipsSerial
<1>13a. /\ \A k \in Existing(quotations) : quotations'[k] # None /\ quotations'[k].slip = quotations[k].slip
        /\ \A k \in Existing(quotations)' : k \in Existing(quotations)
        /\ \A k \in QuotationsOf(s) : quotations'[k].status # "RECEIVED"
        /\ \A k \in Existing(quotations) \ QuotationsOf(s) : quotations'[k] = quotations[k]
  <2>1. \A status \in {"SELECTED", "REJECTED"} :
            /\ Quotation(s, status) \in QuotationRow
            /\ Quotation(s, status).slip = s /\ Quotation(s, status).status # "RECEIVED"
    BY <1>2 DEF Quotation, QuotationRow
  <2>2. \A k \in QuotationsOf(s) :
            /\ \E status \in {"SELECTED", "REJECTED"} : quotations'[k] = Quotation(s, status)
            /\ quotations[k].slip = s
    BY DEF Order, QuotationsOf, Existing
  <2>3. \A k \in Rows \ QuotationsOf(s) : quotations'[k] = quotations[k]
    BY DEF Order
  <2>4. \A k \in QuotationsOf(s) : /\ quotations'[k] # None /\ quotations'[k].slip = quotations[k].slip
                                   /\ quotations'[k].status # "RECEIVED"
    BY <2>1, <2>2
  <2> QED BY <2>3, <2>4 DEF Existing, QuotationsOf
<1>13b. OrdersSerial'
  <2> SUFFICES ASSUME NEW k \in Existing(quotations), k \notin QuotationsOf(s),
                      slips'[quotations[k].slip].status = "SELECTED"
               PROVE  quotations[k].status # "RECEIVED"
    BY <1>13a DEF OrdersSerial
  <2>1. quotations[k].slip \in Existing(slips) /\ quotations[k].slip # s
    BY DEF Inv, LinksOK, QuotationsOf
  <2>2. slips[quotations[k].slip].status = "SELECTED" BY <1>6, <2>1
  <2> QED BY <2>2 DEF SerialInv, RowsSerial, OrdersSerial
<1>14. AwardsSerial'
  <2>1. AwardsSerial BY DEF SerialInv, RowsSerial
  <2>2. ASSUME NEW x \in Existing(requests), requests'[x].status = "AWARDED"
        PROVE  \E y \in Existing(slips) : slips'[y].request = x /\ slips'[y].status = "SELECTED"
    <3>1. CASE x = r BY <1>2, <1>4, <1>5, <1>7, <3>1
    <3>2. CASE x # r
      <4>1. requests[x].status = "AWARDED" BY <1>11, <2>2, <3>2
      <4>2. PICK y \in Existing(slips) : slips[y].request = x /\ slips[y].status = "SELECTED"
        BY <2>1, <4>1 DEF AwardsSerial
      <4> QED BY <1>6, <1>7, <3>2, <4>2
    <3> QED BY <3>1, <3>2
  <2>3. Existing(policies)' = Existing(policies) BY DEF Existing
  <2>4. RequestShowsItsPolicy'
    <3> SUFFICES ASSUME NEW x \in Existing(requests),
                        requests'[x].status \in {"UNDER_REVIEW", "FINANCE_REVIEW", "ISSUED"}
                 PROVE  \E p \in Existing(policies) : policies[p].request = x /\ Stage(p)' = requests'[x].status
      BY <1>11, <2>3 DEF RequestShowsItsPolicy
    <3>1. x # r BY <1>8, <1>11 DEF RestatedRow
    <3>2. PICK p \in Existing(policies) : policies[p].request = x /\ Stage(p) = requests'[x].status
      BY <1>11, <2>1, <3>1 DEF AwardsSerial, RequestShowsItsPolicy
    <3>3. Stage(p)' = Stage(p) BY DEF Stage
    <3> QED BY <3>2, <3>3
  <2>5. ASSUME NEW p \in Existing(policies)', policies'[p].request # None
        PROVE  Ordered(policies[p].request, policies[p].quotation)'
    <3>1. PICK x, k : /\ x = policies[p].request /\ k = policies[p].quotation
                      /\ x = policies'[p].request /\ k = policies'[p].quotation
      OBVIOUS
    <3>2. Ordered(x, k) BY <2>1, <2>3, <2>5, <3>1 DEF AwardsSerial
    <3>3. Ordered(x, k)' BY <1>2, <1>4, <1>6, <1>13a, <3>2, OrderedStays
    <3> QED BY <3>1, <3>3
  <2> QED BY <1>5, <1>11, <2>2, <2>4, <2>5 DEF AwardsSerial
<1>15. MailSerial'
  <2>1. \A x \in Rows : slips'[x] = None => slips[x] = None BY <1>2, <1>4
  <2>2. \A x \in Existing(slips) : slips[x].insurers \subseteq slips'[x].insurers BY <1>2, <1>4, <1>6
  <2> QED BY <1>1, <2>1, <2>2, MailStays
<1> QED BY <1>11, <1>12, <1>13, <1>13b, <1>14, <1>15, FinishedIsSerial DEF RowsSerial

LEMMA SelectServed ==
    ASSUME Inv, SerialInv, NEW c \in Calls, CommitSelect(c)
    PROVE  SerialInv'
<1>1. LocalOK(c, call[c]) /\ call[c].step = "select" /\ c \in InFlight /\ Finish(c)
  BY DEF Inv, CommitSelect, At, InFlight
<1>2. PICK s : s = call[c].of /\ Live(slips, s) BY <1>1 DEF LocalOK, OtherOK
<1>3. PICK q \in QuotationsOf(s) : q = call[c].value BY <1>1, <1>2 DEF LocalOK, OtherOK
<1> DEFINE row == [slips[s] EXCEPT !.status = "SELECTED", !.selected = q]
<1>4. slips[s] \in SlipRow /\ s \in Rows /\ q \in Rows BY <1>2, SlipFields DEF QuotationsOf, Existing
<1>5. OrderedRow(slips[s], row, q) /\ row.accepted = slips[s].accepted BY <1>4, Selected, Zenon
<1>6. /\ slips' = [slips EXCEPT ![s].status = "SELECTED", ![s].selected = q]
      /\ quotations' = Order(s, q)
      /\ requests' = [requests EXCEPT ![slips[s].request].status = "AWARDED"]
      /\ UNCHANGED <<deals, covers, policies, mailed>>
  BY <1>2, <1>3 DEF CommitSelect
<1>7. slips' = [slips EXCEPT ![s] = row]
  <2>1. slips \in [Rows -> SlipRow \union {None}]
    BY DEF Inv, TypeOK
  <2> QED BY <1>4, <1>6, <2>1
<1> HIDE DEF row
<1>8. row.accepted # None => row.accepted \in row.presented
  BY <1>2, <1>5 DEF OrderedRow, SerialInv, RowsSerial, SlipsSerial, Live, Existing
<1> QED BY <1>1, <1>2, <1>5, <1>6, <1>7, <1>8, OrderServed

LEMMA AcceptServed ==
    ASSUME Inv, SerialInv, NEW c \in Calls, CommitAccept(c)
    PROVE  SerialInv'
<1>1. LocalOK(c, call[c]) /\ LocalSerial(call[c]) /\ call[c].step = "accept" /\ c \in InFlight /\ Finish(c)
  BY DEF Inv, SerialInv, CommitAccept, At, InFlight
<1>2. PICK s : s = call[c].of /\ Live(slips, s) BY <1>1 DEF LocalOK, OtherOK
<1>3. PICK q \in QuotationsOf(s) : q = call[c].value BY <1>1, <1>2 DEF LocalOK, OtherOK
<1> DEFINE row == [slips[s] EXCEPT !.status = "SELECTED", !.selected = q, !.decision = "accepted", !.accepted = q]
<1>4. slips[s] \in SlipRow /\ q \in Rows /\ q \in slips[s].presented
  BY <1>1, <1>2, <1>3, SlipFields DEF QuotationsOf, Existing, LocalSerial
<1>5. OrderedRow(slips[s], row, q) /\ row.accepted = q BY <1>4, Accepted, Zenon
<1>6. /\ slips' = [slips EXCEPT ![s] = row] /\ quotations' = Order(s, q)
      /\ requests' = [requests EXCEPT ![slips[s].request].status = "AWARDED"]
      /\ UNCHANGED <<deals, covers, policies, mailed>>
  BY <1>2, <1>3 DEF CommitAccept
<1> HIDE DEF row
<1>7. row.accepted # None => row.accepted \in row.presented BY <1>4, <1>5 DEF OrderedRow
<1> QED BY <1>1, <1>2, <1>5, <1>6, <1>7, OrderServed

\* A step that writes cover notes only.
LEMMA CoverStepServed ==
    ASSUME Inv, SerialInv, NEW c \in Calls, c \in InFlight, Finish(c), call[c].step # "mailed",
           UNCHANGED <<deals, requests, slips, quotations, policies, mailed>>, CoversSerial'
    PROVE  SerialInv'
<1>1. Serves(c, Over) /\ UNCHANGED crashes BY FinishedIsSerial
<1>2. MadeOnce'
  BY DEF SerialInv, RowsSerial, MadeOnce, OneRequestPerDeal, OneRenewalPerPolicy, Existing
<1>3. SlipsSerial' BY SlipsStay
<1>4. OrdersSerial' /\ AwardsSerial'
  BY DEF SerialInv, RowsSerial, OrdersSerial, AwardsSerial, RequestShowsItsPolicy, Stage, Ordered, Live, Existing
<1>5. MailSerial' BY <1>1, MailStays DEF Existing
<1> QED BY <1>2, <1>3, <1>4, <1>5, FinishedIsSerial DEF RowsSerial

\* Policies come from calls that are over, which are older than the one served.
LEMMA PoliciesAreOlder ==
    ASSUME Inv, SerialInv, NEW c \in Calls, call[c].step \in {"cover", "issue"}, NEW p \in Existing(policies)
    PROVE  p < c
<1>1. p \in Rows /\ policies[p] # None BY DEF Existing
<1>2. CASE p = 0
  <2>1. c \in Nat /\ c # 0 OBVIOUS
  <2> QED BY <1>2, <2>1
<1>3. CASE p \in Calls
  <2>1. call[p].step \notin {"idle", "cover", "issue"} /\ p # c
    BY <1>1, <1>3 DEF SerialInv, RowsSerial, CoversSerial
  <2>2. p \in Nat /\ c \in Nat BY <1>3
  <2>3. ~ (c < p) BY <1>3, <2>1 DEF SerialInv, InOrder
  <2> QED BY <2>1, <2>2, <2>3
<1> QED BY <1>1, <1>2, <1>3 DEF Rows

LEMMA CoverServed ==
    ASSUME Inv, SerialInv, NEW c \in Calls, CommitCover(c)
    PROVE  SerialInv'
<1>1. /\ LocalOK(c, call[c]) /\ LocalSerial(call[c]) /\ call[c].step = "cover" /\ c \in InFlight /\ c \in Rows
      /\ Finish(c) /\ UNCHANGED <<deals, requests, slips, quotations, policies, mailed>>
  BY DEF Inv, SerialInv, CommitCover, At, InFlight, Rows
<1>2. PICK r \in Rows : r = call[c].of BY <1>1 DEF LocalOK, ValuesOK
<1>3. PICK new : new = Cover(r, "active") OBVIOUS
<1>4. new \in CoverRow /\ new.request = r /\ new # None BY <1>3 DEF Cover, CoverRow
<1>5. covers' = [covers EXCEPT ![c] = new] BY <1>2, <1>3 DEF CommitCover
<1>6. covers'[c] = new /\ \A n \in Rows : n # c => covers'[n] = covers[n]
  BY <1>1, <1>5 DEF Inv, TypeOK
<1>7. \A n \in Existing(covers)' : n = c \/ (n \in Existing(covers) /\ covers'[n] = covers[n])
  BY <1>6 DEF Existing
<1>8. \A n \in Existing(covers) : covers[n].status = "active" => covers[n].request # r
  <2> SUFFICES ASSUME NEW n \in Existing(covers), covers[n].status = "active", covers[n].request = r
               PROVE  FALSE
    OBVIOUS
  <2>1. covers[n] \in CoverRow BY DEF Existing, Inv, TypeOK
  <2>2. covers[n] = Cover(r, "active") BY <2>1 DEF CoverRow, Cover
  <2> QED BY <1>1, <1>2, <2>2 DEF LocalSerial, Covered
<1>9. CoversSerial BY DEF SerialInv, RowsSerial
<1>10. OneCoverInForce'
  <2> SUFFICES ASSUME NEW m \in Existing(covers)', NEW n \in Existing(covers)', covers'[m].status = "active",
                      covers'[n].status = "active", covers'[m].request = covers'[n].request, m # n
               PROVE  FALSE
    BY DEF OneCoverInForce
  <2>1. CASE m = c BY <1>4, <1>6, <1>7, <1>8, <2>1
  <2>2. CASE n = c BY <1>4, <1>6, <1>7, <1>8, <2>2
  <2>3. CASE m # c /\ n # c BY <1>7, <1>9, <2>3 DEF CoversSerial, OneCoverInForce
  <2> QED BY <2>1, <2>2, <2>3
<1>11. PolicySupersedesCover'
  <2> SUFFICES ASSUME NEW n \in Existing(covers)', NEW p \in Existing(policies), covers'[n].status = "active",
                      policies[p].request = covers'[n].request
               PROVE  p < n
    BY <1>1 DEF PolicySupersedesCover, Existing
  <2>1. CASE n = c BY <1>1, <2>1, PoliciesAreOlder
  <2>2. CASE n # c BY <1>7, <1>9, <2>2 DEF CoversSerial, PolicySupersedesCover
  <2> QED BY <2>1, <2>2
<1>12. \A d \in Calls : call'[d].step \in {"idle", "cover", "issue"} => policies'[d] = None
  <2>1. Serves(c, Over) BY <1>1, FinishedIsSerial
  <2>2. call'[c] = Over /\ \A d \in Calls : d # c => call'[d] = call[d] BY <2>1, OthersRest DEF SerialInv
  <2> QED BY <1>1, <1>9, <2>2, OverIsOver DEF CoversSerial
<1>13. CoversSerial' BY <1>10, <1>11, <1>12 DEF CoversSerial
<1> QED BY <1>1, <1>13, CoverStepServed

LEMMA CancelServed ==
    ASSUME Inv, SerialInv, NEW c \in Calls, CommitCancelCover(c)
    PROVE  SerialInv'
<1>1. /\ LocalOK(c, call[c]) /\ call[c].step = "uncover" /\ c \in InFlight
      /\ Finish(c) /\ UNCHANGED <<deals, requests, slips, quotations, policies, mailed>>
  BY DEF Inv, CommitCancelCover, At, InFlight
<1>2. PICK x \in Rows : x = call[c].of /\ covers[x] # None BY <1>1 DEF LocalOK, OtherOK, Live
<1> DEFINE row == [covers[x] EXCEPT !.status = "cancelled"]
<1>3. row \in CoverRow /\ row.status = "cancelled"
  <2>1. covers[x] \in CoverRow BY <1>2 DEF Inv, TypeOK
  <2> QED BY <2>1 DEF CoverRow
<1>4. covers' = [covers EXCEPT ![x] = row] BY <1>2 DEF CommitCancelCover
<1> HIDE DEF row
<1>5. covers'[x] = row /\ \A n \in Rows : n # x => covers'[n] = covers[n]
  BY <1>4 DEF Inv, TypeOK
<1>6. \A n \in Existing(covers)' : covers'[n].status = "active" => n \in Existing(covers) /\ covers'[n] = covers[n]
  BY <1>3, <1>5 DEF Existing
<1>7. CoversSerial /\ Existing(policies)' = Existing(policies) BY <1>1 DEF SerialInv, RowsSerial, Existing
<1>8. OneCoverInForce' /\ PolicySupersedesCover'
  BY <1>1, <1>6, <1>7 DEF CoversSerial, OneCoverInForce, PolicySupersedesCover
<1>9. \A d \in Calls : call'[d].step \in {"idle", "cover", "issue"} => policies'[d] = None
  <2>1. Serves(c, Over) BY <1>1, FinishedIsSerial
  <2>2. call'[c] = Over /\ \A d \in Calls : d # c => call'[d] = call[d] BY <2>1, OthersRest DEF SerialInv
  <2> QED BY <1>1, <1>7, <2>2, OverIsOver DEF CoversSerial
<1>10. CoversSerial' BY <1>8, <1>9 DEF CoversSerial
<1> QED BY <1>1, <1>10, CoverStepServed

LEMMA IssueServed ==
    ASSUME Inv, SerialInv, NEW c \in Calls, NEW status \in {"TECHNICAL_REVIEW", "FINANCE_REVIEW"},
           CommitIssue(c, status)
    PROVE  SerialInv'
<1>1. /\ LocalOK(c, call[c]) /\ LocalSerial(call[c]) /\ call[c].step = "issue" /\ c \in InFlight /\ c \in Rows
      /\ Finish(c) /\ UNCHANGED <<deals, slips, quotations, mailed>>
  BY DEF Inv, SerialInv, CommitIssue, At, InFlight, Rows
<1>2. Serves(c, Over) /\ UNCHANGED crashes BY <1>1, FinishedIsSerial
<1>3. PICK r : r = call[c].of /\ Live(requests, r) BY <1>1 DEF LocalOK, OtherOK
<1>4. PICK q : q = call[c].value /\ Ordered(r, q) BY <1>1, <1>3 DEF LocalSerial
<1>5. /\ policies' = [policies EXCEPT ![c] = Policy(r, q, status)]
      /\ requests' = [requests EXCEPT ![r].status = Shown[status]]
      /\ covers' = [n \in Rows |-> IF covers[n] = Cover(r, "active") THEN Cover(r, "superseded") ELSE covers[n]]
  BY <1>3, <1>4 DEF CommitIssue
<1>6. PICK new : new = Policy(r, q, status) OBVIOUS
<1>7. new # None /\ new.request = r /\ new.quotation = q /\ new.status = status
  <2>1. r \in Rows /\ q \in Rows BY <1>3, <1>4 DEF Live, Ordered
  <2>2. new \in PolicyRow BY <1>6, <2>1 DEF Policy, PolicyRow, PolicyStatus
  <2> QED BY <1>6, <2>2 DEF Policy
<1>8. policies'[c] = new /\ \A p \in Rows : p # c => policies'[p] = policies[p]
  BY <1>1, <1>5, <1>6 DEF Inv, TypeOK
<1>9. CoversSerial /\ policies[c] = None BY <1>1 DEF SerialInv, RowsSerial, CoversSerial
<1>10. /\ \A p \in Existing(policies) : p \in Existing(policies)' /\ policies'[p] = policies[p]
       /\ \A p \in Existing(policies)' : p = c \/ p \in Existing(policies)
       /\ c \in Existing(policies)'
  BY <1>1, <1>7, <1>8, <1>9 DEF Existing
<1> DEFINE row == [requests[r] EXCEPT !.status = Shown[status]]
<1>11. RestatedRow(requests[r], row, Shown[status])
  <2>1. Shown[status] \in RequestStatus BY DEF Shown, RequestStatus
  <2> QED BY <1>3, <2>1, StatusRow, Zenon
<1>12. requests' = [requests EXCEPT ![r] = row] BY <1>5
<1> HIDE DEF row
<1>13. Remade(r, row)
  <2>1. row \in RequestRow /\ Rewrites(requests[r], row) BY <1>11 DEF RestatedRow, Rewrites
  <2>2. MadeOnce /\ \A d \in Deals : deals'[d].request = deals[d].request BY <1>1 DEF SerialInv, RowsSerial
  <2> QED BY <1>3, <1>12, <2>1, <2>2, MadeAgain
<1>14. \A n \in Existing(covers)' : covers'[n].status = "active" =>
           n \in Existing(covers) /\ covers'[n] = covers[n] /\ covers[n].request # r
  <2> SUFFICES ASSUME NEW n \in Existing(covers)', covers'[n].status = "active"
               PROVE  n \in Existing(covers) /\ covers'[n] = covers[n] /\ covers[n].request # r
    OBVIOUS
  <2>1. n \in Rows /\ covers'[n] # None BY DEF Existing
  <2>2. Cover(r, "superseded").status # "active" BY DEF Cover
  <2>3. covers[n] # Cover(r, "active") /\ covers'[n] = covers[n] BY <1>5, <2>1, <2>2
  <2>4. covers[n] \in CoverRow BY <2>1, <2>3 DEF Inv, TypeOK
  <2>5. covers[n].request # r BY <2>3, <2>4 DEF CoverRow, Cover
  <2> QED BY <2>1, <2>3, <2>5 DEF Existing
<1>15. OneCoverInForce'
  BY <1>9, <1>14 DEF CoversSerial, OneCoverInForce
<1>16. PolicySupersedesCover'
  BY <1>7, <1>8, <1>9, <1>10, <1>14 DEF CoversSerial, PolicySupersedesCover
<1>17. \A d \in Calls : call'[d].step \in {"idle", "cover", "issue"} => policies'[d] = None
  <2>1. call'[c] = Over /\ \A d \in Calls : d # c => call'[d] = call[d] BY <1>2, OthersRest DEF SerialInv
  <2> QED BY <1>8, <1>9, <2>1, OverIsOver DEF CoversSerial, Rows
<1>18. CoversSerial' BY <1>15, <1>16, <1>17 DEF CoversSerial
<1>19. SlipsSerial' BY <1>1, SlipsStay
<1>20. AwardsSerial'
  <2>1. AwardsSerial BY DEF SerialInv, RowsSerial
  <2>2. Existing(slips)' = Existing(slips) BY <1>1 DEF Existing
  <2>3. ASSUME NEW x, NEW k, Ordered(x, k) PROVE Ordered(x, k)'
    BY <1>1, <2>3 DEF Ordered, Live
  <2>4. ASSUME NEW x \in Existing(requests), requests'[x].status = "AWARDED"
        PROVE  \E s \in Existing(slips) : slips[s].request = x /\ slips[s].status = "SELECTED"
    <3>1. x # r BY <1>11, <1>13, <2>4 DEF Remade, RestatedRow, Shown
    <3>2. requests[x].status = "AWARDED" BY <1>13, <2>4, <3>1 DEF Remade
    <3> QED BY <2>1, <3>2 DEF AwardsSerial
  <2>5. Existing(requests)' = Existing(requests) BY <1>13 DEF Remade
  <2>6. RequestShowsItsPolicy'
    <3> SUFFICES ASSUME NEW x \in Existing(requests),
                        requests'[x].status \in {"UNDER_REVIEW", "FINANCE_REVIEW", "ISSUED"}
                 PROVE  \E p \in Existing(policies)' : policies'[p].request = x /\ Stage(p)' = requests'[x].status
      BY <2>5 DEF RequestShowsItsPolicy
    <3>1. CASE x = r
      <4>1. requests'[x].status = Shown[status] BY <1>11, <1>13, <3>1 DEF Remade, RestatedRow
      <4>2. Stage(c)' = Shown[status] BY <1>7, <1>8 DEF Stage
      <4> QED BY <1>7, <1>8, <1>10, <3>1, <4>1, <4>2
    <3>2. CASE x # r
      <4>1. PICK p \in Existing(policies) : policies[p].request = x /\ Stage(p) = requests'[x].status
        BY <1>13, <2>1, <3>2 DEF Remade, AwardsSerial, RequestShowsItsPolicy
      <4>2. Stage(p)' = Stage(p) BY <1>10, <4>1 DEF Stage
      <4> QED BY <1>10, <4>1, <4>2
    <3> QED BY <3>1, <3>2
  <2>7. ASSUME NEW p \in Existing(policies)', policies'[p].request # None
        PROVE  Ordered(policies[p].request, policies[p].quotation)'
    <3>1. PICK x, k : x = policies'[p].request /\ k = policies'[p].quotation OBVIOUS
    <3>2. Ordered(x, k) BY <1>4, <1>7, <1>8, <1>10, <2>1, <2>7, <3>1 DEF AwardsSerial
    <3>3. Ordered(x, k)' BY <2>3, <3>2
    <3> QED BY <3>1, <3>3
  <2> QED BY <1>1, <2>2, <2>4, <2>5, <2>6, <2>7 DEF AwardsSerial
<1>21. MailSerial' BY <1>1, <1>2, MailStays DEF Existing
<1>22. OrdersSerial' BY <1>1, OrdersStay DEF Existing
<1> QED BY <1>1, <1>13, <1>18, <1>19, <1>20, <1>21, <1>22, FinishedIsSerial DEF RowsSerial, Remade

\* A review gives a policy its next stage, and its request the same.
LEMMA ReviewServed ==
    ASSUME Inv, SerialInv, NEW c \in Calls, CommitReview(c)
    PROVE  SerialInv'
<1>1. /\ LocalOK(c, call[c]) /\ LocalSerial(call[c]) /\ call[c].step = "review" /\ c \in InFlight
      /\ Finish(c) /\ UNCHANGED <<deals, slips, quotations, covers, mailed>>
  BY DEF Inv, SerialInv, CommitReview, At, InFlight
<1>2. Serves(c, Over) /\ UNCHANGED crashes BY <1>1, FinishedIsSerial
<1>3. PICK p \in Rows : p = call[c].of /\ policies[p] # None BY <1>1 DEF LocalOK, OtherOK, Live
<1>4. PICK to \in PolicyStatus : to = call[c].value BY <1>1 DEF LocalOK, ValuesOK
<1>5. PICK r : r = policies[p].request OBVIOUS
<1> DEFINE policy == [policies[p] EXCEPT !.status = to]
<1>6. policies[p] \in PolicyRow /\ (r = None \/ Live(requests, r))
  BY <1>3, <1>5 DEF Inv, TypeOK, PolicyLinks, Live, Existing
<1>7. /\ policy \in PolicyRow /\ policy.request = r /\ policy.quotation = policies[p].quotation
      /\ policy.status = to
  BY <1>5, <1>6 DEF PolicyRow
<1>8. /\ policies' = [policies EXCEPT ![p] = policy]
      /\ requests' = (IF r = None \/ to = "CANCELLED" THEN requests
                      ELSE [requests EXCEPT ![r].status = Shown[to]])
  BY <1>3, <1>4, <1>5 DEF CommitReview
<1> HIDE DEF policy
<1>9. policies'[p] = policy /\ policy # None /\ \A x \in Rows : x # p => policies'[x] = policies[x]
  BY <1>7, <1>8 DEF Inv, TypeOK
<1>10. /\ Existing(policies)' = Existing(policies) /\ p \in Existing(policies)
       /\ \A x \in Rows : \/ policies'[x] = policies[x]
                          \/ policies[x] # None /\ policies'[x] # None /\ policies'[x].request = policies[x].request
       /\ \A x \in Existing(policies) : /\ policies'[x].request = policies[x].request
                                        /\ policies'[x].quotation = policies[x].quotation
  BY <1>3, <1>5, <1>7, <1>9 DEF Existing
\* The request is left as it is, or shows the policy's new stage.
<1>11. /\ MadeOnce' /\ Existing(requests)' = Existing(requests)
       /\ \A x \in Existing(requests) :
              \/ requests'[x].status = requests[x].status /\ (x = r => to = "CANCELLED")
              \/ x = r /\ to # "CANCELLED" /\ requests'[x].status = Shown[to]
  <2>1. MadeOnce /\ \A d \in Deals : deals'[d].request = deals[d].request BY <1>1 DEF SerialInv, RowsSerial
  <2>2. CASE r = None \/ to = "CANCELLED"
    <3>1. UNCHANGED requests BY <1>8, <2>2
    <3>2. MadeOnce' BY <1>1, <2>1, <3>1 DEF MadeOnce, OneRequestPerDeal, OneRenewalPerPolicy, Existing
    <3>3. \A x \in Existing(requests) : x # None BY DEF Existing, Rows
    <3> QED BY <2>2, <3>1, <3>2, <3>3 DEF Existing
  <2>3. CASE r # None /\ to # "CANCELLED"
    <3> DEFINE row == [requests[r] EXCEPT !.status = Shown[to]]
    <3>1. RestatedRow(requests[r], row, Shown[to])
      <4>1. Shown[to] \in RequestStatus BY <2>3 DEF PolicyStatus, Shown, RequestStatus
      <4> QED BY <1>6, <2>3, <4>1, StatusRow, Zenon
    <3>2. requests' = [requests EXCEPT ![r] = row] BY <1>8, <2>3
    <3> HIDE DEF row
    <3>3. Remade(r, row)
      <4>1. row \in RequestRow /\ Rewrites(requests[r], row) BY <3>1 DEF RestatedRow, Rewrites
      <4> QED BY <1>6, <2>1, <2>3, <3>2, <4>1, MadeAgain
    <3> QED BY <2>3, <3>1, <3>3 DEF Remade, RestatedRow
  <2> QED BY <2>2, <2>3
<1>12. CoversSerial' BY <1>1, <1>2, <1>10, CoversStay
<1>13. SlipsSerial' BY <1>1, SlipsStay
<1>14. OrdersSerial' BY <1>1, OrdersStay DEF Existing
<1>15. AwardsSerial'
  <2>1. AwardsSerial BY DEF SerialInv, RowsSerial
  <2>2. ASSUME NEW x \in Existing(requests), requests'[x].status = "AWARDED"
        PROVE  \E s \in Existing(slips)' : slips'[s].request = x /\ slips'[s].status = "SELECTED"
    <3>1. requests[x].status = "AWARDED" BY <1>11, <2>2 DEF Shown, PolicyStatus
    <3> QED BY <1>1, <2>1, <3>1 DEF AwardsSerial, Existing
  <2>3. RequestShowsItsPolicy'
    <3> SUFFICES ASSUME NEW x \in Existing(requests),
                        requests'[x].status \in {"UNDER_REVIEW", "FINANCE_REVIEW", "ISSUED"}
                 PROVE  \E y \in Existing(policies) : policies'[y].request = x /\ Stage(y)' = requests'[x].status
      BY <1>10, <1>11 DEF RequestShowsItsPolicy
    <3>1. CASE x = r /\ to # "CANCELLED"
      <4>1. Stage(p)' = Shown[to] /\ requests'[x].status = Shown[to] BY <1>7, <1>9, <1>11, <3>1 DEF Stage
      <4> QED BY <1>5, <1>10, <3>1, <4>1
    <3>2. CASE x # r \/ to = "CANCELLED"
      <4>1. PICK y \in Existing(policies) : policies[y].request = x /\ Stage(y) = requests'[x].status
        BY <1>11, <2>1, <3>2 DEF AwardsSerial, RequestShowsItsPolicy
      <4>2. Stage(y)' = Stage(y)
        <5>1. CASE y = p
          <6>1. to = "CANCELLED" BY <1>5, <3>2, <4>1, <5>1
          <6>2. policies[p].status = "ISSUED" BY <1>1, <1>3, <1>4, <6>1 DEF LocalSerial
          <6> QED BY <1>7, <1>9, <5>1, <6>1, <6>2 DEF Stage, Shown
        <5>2. CASE y # p BY <1>9, <5>2 DEF Stage, Existing
        <5> QED BY <5>1, <5>2
      <4> QED BY <1>10, <4>1, <4>2
    <3> QED BY <3>1, <3>2
  <2>4. ASSUME NEW x \in Existing(policies), policies'[x].request # None
        PROVE  Ordered(policies[x].request, policies[x].quotation)'
    <3>1. PICK k, q : k = policies'[x].request /\ q = policies'[x].quotation OBVIOUS
    <3>2. Ordered(k, q) BY <1>10, <2>1, <2>4, <3>1 DEF AwardsSerial
    <3>3. Ordered(k, q)' BY <1>1, <3>2 DEF Ordered, Live
    <3> QED BY <3>1, <3>3
  <2> QED BY <1>10, <1>11, <2>2, <2>3, <2>4 DEF AwardsSerial
<1>16. MailSerial' BY <1>1, <1>2, MailStays DEF Existing
<1> QED BY <1>1, <1>11, <1>12, <1>13, <1>14, <1>15, <1>16, FinishedIsSerial DEF RowsSerial

-----------------------------------------------------------------------------
LEMMA NextIsSerial == Inv /\ SerialInv /\ OneInFlight' /\ [Next]_vars => SerialInv'
<1> SUFFICES ASSUME Inv, SerialInv, OneInFlight', [Next]_vars PROVE SerialInv'
  OBVIOUS
<1>1. ASSUME NEW c \in Calls, Continue(c) PROVE SerialInv'
  <2>1. CASE CommitDeal(c) \/ CommitConvert(c) BY <2>1, DealServed
  <2>2. CASE CreateRenewal(c) BY <2>2, RenewalServed
  <2>3. CASE CopyBlocks(c) \/ CommitRequest(c) \/ CommitUpdate(c) \/ CommitRevert(c)
    BY <2>3, RequestCallsServed
  <2>4. CASE CommitSlip(c) BY <2>4, SlipMadeServed
  <2>5. CASE \E sent \in SUBSET Insurers : Mail(c, sent) BY <2>5, MailServed
  <2>6. CASE RecordMail(c) BY <2>6, RecordServed
  <2>7. CASE CommitQuotation(c) BY <2>7, QuotationServed
  <2>8. CASE CommitSelect(c) BY <2>8, SelectServed
  <2>9. CASE CommitPresent(c) BY <2>9, PresentServed
  <2>10. CASE CommitAccept(c) BY <2>10, AcceptServed
  <2>11. CASE CommitDecline(c) BY <2>11, DeclineServed
  <2>12. CASE CommitCover(c) BY <2>12, CoverServed
  <2>13. CASE CommitCancelCover(c) BY <2>13, CancelServed
  <2>14. ASSUME NEW status \in {"TECHNICAL_REVIEW", "FINANCE_REVIEW"}, CommitIssue(c, status) PROVE SerialInv'
    BY <2>14, IssueServed
  <2>15. CASE CommitReview(c) BY <2>15, ReviewServed
  <2> QED BY <1>1, <2>1, <2>2, <2>3, <2>4, <2>5, <2>6, <2>7, <2>8, <2>9, <2>10, <2>11, <2>12, <2>13, <2>14, <2>15
          DEF Continue
<1>2. ASSUME NEW c \in Calls, Start(c) PROVE SerialInv' BY <1>2, StartIsSerial
<1>3. ASSUME NEW c \in Calls, Crash(c) PROVE SerialInv' BY <1>3, CrashIsSerial
<1>4. CASE UNCHANGED vars
  <2>1. UNCHANGED rows /\ UNCHANGED crashes /\ UNCHANGED call BY <1>4 DEF vars
  <2>2. RowsSerial' BY <2>1, RowsStay DEF SerialInv
  <2>3. InOrder' BY <2>1 DEF SerialInv, InOrder
  <2>4. ASSUME NEW d \in Calls PROVE LocalSerial(call[d])' /\ (call'[d].step = "copy" => call'[d].of = d)
    <3>1. PICK k : k = call'[d] /\ k = call[d] /\ LocalSerial(k) BY <2>1 DEF SerialInv
    <3>2. LocalSerial(k)' BY <2>1, <3>1, LocalIsStillSerial
    <3> QED BY <2>1, <3>1, <3>2 DEF SerialInv
  <2> QED BY <2>2, <2>3, <2>4 DEF SerialInv
<1> QED BY <1>1, <1>2, <1>3, <1>4 DEF Next

LEMMA InitIsSerial == Init => SerialInv
<1> SUFFICES ASSUME Init PROVE SerialInv
  OBVIOUS
<1>1. Inv BY InitHolds
<1>2. 0 \in Rows /\ Calls \subseteq Rows /\ 0 \notin Calls
  BY DEF Rows
<1>3. /\ requests[0] = Request("QUOTING", None, None, {"entered"}) /\ policies[0] = Policy(None, None, "ISSUED")
      /\ \A x \in Rows : x # 0 => requests[x] = None /\ policies[x] = None /\ slips[x] = None
      /\ \A x \in Rows : covers[x] = None /\ mailed[x] = {}
      /\ call = [c \in Calls |-> Idle] /\ Idle.step = "idle"
  BY <1>2 DEF Init, Idle, Local
<1>4. /\ requests[0].deal = None /\ requests[0].renews = None /\ requests[0].form = {"entered"}
      /\ requests[0].status = "QUOTING" /\ policies[0].request = None
  BY <1>3 DEF Request, Policy
<1>5. slips[0].status = "QUOTED" /\ slips[0].decision \in {None, "pending"} /\ slips[0].accepted = None
  <2>1. PICK shown \in BOOLEAN :
            slips[0] = [Slip(0, "QUOTED", {}) EXCEPT !.presented = IF shown THEN {0} ELSE {},
                                                    !.decision = IF shown THEN "pending" ELSE None]
    BY <1>2 DEF Init
  <2> QED BY <2>1 DEF Slip
<1>6. /\ \A r \in Existing(requests) : r = 0
      /\ \A s \in Existing(slips) : s = 0
      /\ \A p \in Existing(policies) : p = 0
      /\ Existing(covers) = {}
  BY <1>3 DEF Existing
<1>7. MadeOnce BY <1>4, <1>6 DEF MadeOnce, OneRequestPerDeal, OneRenewalPerPolicy
<1>8. CoversSerial
  <2>1. \A d \in Calls : policies[d] = None BY <1>2, <1>3
  <2> QED BY <1>6, <2>1 DEF CoversSerial, OneCoverInForce, PolicySupersedesCover
<1>9. SlipsSerial BY <1>5, <1>6 DEF SlipsSerial
<1>10. AwardsSerial BY <1>4, <1>6 DEF AwardsSerial, RequestShowsItsPolicy
<1>10a. OrdersSerial
  <2>1. \A q \in Existing(quotations) : quotations[q] = Quotation(0, "RECEIVED") BY DEF Init, Existing
  <2> QED BY <1>5, <2>1 DEF OrdersSerial, Quotation
<1>11. MailSerial BY <1>3 DEF MailSerial, Existing
<1>12. InOrder BY <1>3 DEF InOrder
<1>13. \A c \in Calls : call[c].step = "idle" BY <1>3
<1>14. \A c \in Calls : LocalSerial(call[c]) BY <1>13, RestingIsSerial
<1> QED BY <1>7, <1>8, <1>9, <1>10, <1>10a, <1>11, <1>12, <1>13, <1>14 DEF SerialInv, RowsSerial

\* Served one at a time, no two calls are between their read and their write.
LEMMA OneInFlightStays ==
    ASSUME Inv, SerialInv, [Next]_vars, UNCHANGED load, Within' \/ UNCHANGED vars, Serial
    PROVE  OneInFlight'
<1>1. \A a, b \in InFlight : a = b
  <2> SUFFICES ASSUME NEW a \in InFlight, NEW b \in InFlight, a # b
               PROVE  FALSE
    OBVIOUS
  <2>1. a \in Calls /\ b \in Calls BY DEF InFlight
  <2>2. a \in Nat /\ b \in Nat /\ (a < b \/ b < a) BY <2>1
  <2> QED BY <2>1, <2>2 DEF SerialInv, InOrder, InFlight
<1>2. CASE UNCHANGED vars
  BY <1>1, <1>2 DEF vars, OneInFlight, InFlight
<1>3. CASE Within' /\ Next
  <2>1. Cardinality(InFlight') <= 1
    BY <1>3 DEF Within, Serial
  <2>2. PICK c \in Calls : Start(c) \/ Continue(c) \/ Crash(c)
    BY <1>3 DEF Next
  <2>3. \E l : call' = [call EXCEPT ![c] = l]
    <3>1. CASE Start(c)
      <4>1. \E l : Begin(c, l)
        BY <3>1 DEF Start, ConvertDeal, UpdateDeal, CreateRequest, InitiateRenewal, UpdateRequest, RevertRequest,
                    CreateSlip, SendRfq, AddQuotation, DeclineProposal, IssueCover, CancelCover, IssuePolicy,
                    SelectQuotation, AcceptProposal, Present, Review, ApproveTechnical, ApprovePolicy,
                    RevertPolicy, CancelPolicy
      <4> QED BY <4>1 DEF Begin
    <3>2. CASE Continue(c)
      BY <3>2 DEF Continue, CommitDeal, CommitConvert, CreateRenewal, CopyBlocks, CommitRequest, CommitUpdate,
                  CommitRevert, CommitSlip, Mail, RecordMail, CommitQuotation, CommitSelect, CommitPresent,
                  CommitAccept, CommitDecline, CommitCover, CommitCancelCover, CommitIssue, CommitReview, Finish
    <3>3. CASE Crash(c) BY <3>3 DEF Crash
    <3> QED BY <2>2, <3>1, <3>2, <3>3
  <2>4. InFlight' \subseteq InFlight \union {c}
    BY <2>3 DEF Inv, InFlight
  <2>5. InFlight' \in SUBSET (InFlight \union {c}) BY <2>4
  <2>6. \A a, b \in InFlight' : a = b
    BY <1>1, <2>1, <2>5, AtMostOneMore
  <2> QED BY <2>6 DEF OneInFlight
<1> QED BY <1>2, <1>3

\* The client's acceptance is written over by no call.
LEMMA AcceptanceStays ==
    ASSUME Inv, SerialInv, Next
    PROVE  AcceptanceKept
<1> SUFFICES ASSUME NEW s \in Existing(slips), slips[s].decision = "accepted"
             PROVE  slips'[s].decision = "accepted" /\ slips'[s].accepted = slips[s].accepted
  BY DEF AcceptanceKept
<1>1. s \in Rows /\ slips[s] # None /\ slips[s] \in SlipRow /\ slips[s].status = "SELECTED"
  BY DEF Existing, Inv, TypeOK, SerialInv, RowsSerial, SlipsSerial
<1>2. PICK c \in Calls : Start(c) \/ Continue(c) \/ Crash(c) BY DEF Next
<1>3. LocalOK(c, call[c]) /\ LocalSerial(call[c]) BY DEF Inv, SerialInv
<1>4. CASE UNCHANGED slips BY <1>4
<1>5. CASE CommitSlip(c)
  <2>1. slips[c] = None BY <1>3, <1>5 DEF CommitSlip, At, LocalOK, OwnOK
  <2>2. s # c BY <1>1, <2>1
  <2>3. slips'[s] = slips[s] BY <1>1, <1>5, <2>2 DEF CommitSlip, Inv, TypeOK
  <2> QED BY <2>3
<1>6. CASE RecordMail(c)
  <2>1. slips'[s] \in {slips[s], [slips[s] EXCEPT !.insurers = call[c].set]}
    BY <1>1, <1>6 DEF RecordMail, Inv, TypeOK
  <2> QED BY <1>1, <2>1 DEF SlipRow
<1>7. CASE CommitQuotation(c)
  <2>1. slips'[s] \in {slips[s], [slips[s] EXCEPT !.status = "QUOTED"]}
    BY <1>1, <1>7 DEF CommitQuotation, Inv, TypeOK
  <2> QED BY <1>1, <2>1 DEF SlipRow
<1>8. CASE CommitSelect(c)
  <2>1. slips'[s] \in {slips[s], [slips[s] EXCEPT !.status = "SELECTED", !.selected = call[c].value]}
    BY <1>1, <1>8 DEF CommitSelect, Inv, TypeOK
  <2> QED BY <1>1, <2>1 DEF SlipRow
<1>9. CASE CommitPresent(c) \/ CommitAccept(c) \/ CommitDecline(c)
  <2>1. call[c].of # s
    BY <1>1, <1>3, <1>9 DEF CommitPresent, CommitAccept, CommitDecline, At, LocalSerial
  <2>2. slips'[s] = slips[s]
    BY <1>1, <1>9, <2>1 DEF CommitPresent, CommitAccept, CommitDecline, Inv, TypeOK
  <2> QED BY <2>2
<1>10. CASE Start(c) \/ Crash(c)
  <2>1. UNCHANGED rows
    BY <1>10 DEF Start, ConvertDeal, UpdateDeal, CreateRequest, InitiateRenewal, UpdateRequest, RevertRequest,
                CreateSlip, SendRfq, AddQuotation, DeclineProposal, IssueCover, CancelCover, IssuePolicy,
                SelectQuotation, AcceptProposal, Present, Review, ApproveTechnical, ApprovePolicy, RevertPolicy,
                CancelPolicy, Begin, Crash
  <2> QED BY <1>4, <2>1 DEF rows
<1>11. CASE Continue(c)
  BY <1>4, <1>5, <1>6, <1>7, <1>8, <1>9, <1>11
     DEF Continue, CommitDeal, CommitConvert, CreateRenewal, CopyBlocks, CommitRequest, CommitUpdate,
         CommitRevert, Mail, CommitCover, CommitCancelCover, CommitIssue, CommitReview
<1> QED BY <1>2, <1>10, <1>11

\* What holds when calls are served one at a time, however many there are, and
\* whichever of them die.
THEOREM SerialCallsSafe == MCSpec => [](Serial => SerialInv)
<1>1. MCInit => Init
  BY DEF MCInit
<1>2. MCSpec => []Inv
  <2>1. [MCNext]_<<vars, load>> => [Next]_vars
    BY DEF MCNext
  <2>2. MCSpec => Spec BY <1>1, <2>1, PTL DEF MCSpec, Spec
  <2> QED BY <2>2, PipelineSafe, PTL
<1>3. Inv /\ (Serial => SerialInv) /\ [MCNext]_<<vars, load>> => (Serial => SerialInv)'
  <2> SUFFICES ASSUME Inv, Serial => SerialInv, [MCNext]_<<vars, load>>, Serial'
               PROVE  SerialInv'
    OBVIOUS
  <2>1. UNCHANGED load /\ [Next]_vars /\ (Within' \/ UNCHANGED vars)
    BY DEF MCNext
  <2>2. Serial /\ SerialInv
    BY <2>1 DEF Serial
  <2>3. OneInFlight'
    BY <2>1, <2>2, OneInFlightStays
  <2> QED BY <2>1, <2>2, <2>3, NextIsSerial
<1>4. MCInit => (Serial => SerialInv)
  BY <1>1, InitIsSerial
<1> QED BY <1>2, <1>3, <1>4, PTL DEF MCSpec

\* crm.e2e-spec.ts, cover-note.e2e-spec.ts: a deal is converted once, a policy has
\* one renewal with one form, a request has one cover note in force and none older
\* than its policy, for any number of calls served one at a time.
THEOREM SerialAlwaysMadeOnce == MCSpec => []SerialMadeOnce
<1>1. SerialInv => OneRequestPerDeal /\ OneRenewalPerPolicy /\ OneCoverInForce /\ PolicySupersedesCover
  BY DEF SerialInv, RowsSerial, MadeOnce, CoversSerial
<1>2. SerialInv => FormIsNotMixed
  <2> SUFFICES ASSUME SerialInv, NEW r \in Existing(requests)
               PROVE  Cardinality(requests[r].form) <= 1
    BY DEF FormIsNotMixed
  <2>1. requests[r].form \in {{}, {"entered"}, {"copied"}} BY DEF SerialInv, RowsSerial, MadeOnce
  <2>2. Cardinality({}) = 0 /\ Cardinality({"entered"}) = 1 /\ Cardinality({"copied"}) = 1
    BY FS_EmptySet, FS_Singleton
  <2>3. CASE requests[r].form = {}
    BY <2>2, <2>3
  <2>4. CASE requests[r].form = {"entered"}
    BY <2>2, <2>4
  <2>5. CASE requests[r].form = {"copied"}
    BY <2>2, <2>5
  <2> QED BY <2>1, <2>3, <2>4, <2>5
<1>3. (Serial => SerialInv) => SerialMadeOnce
  BY <1>1, <1>2 DEF SerialMadeOnce
<1> QED BY <1>3, SerialCallsSafe, PTL

\* docs/08, docs/20: what the client accepts was put before him, an awarded request
\* can be issued, a policy was made of an offer of its own request that was ordered
\* and whose slip takes no more offers, a request shows the stage of one of its
\* policies, and insurers written to are on the slip unless a call has died; for any
\* number of calls served one at a time, reviews, reverts and cancellations of the
\* policies and later orders among them.
THEOREM SerialOrderAlwaysFollowed == MCSpec => []SerialOrderIsFollowed
<1> SUFFICES Inv /\ (Serial => SerialInv) => SerialOrderIsFollowed
  <2>1. [MCNext]_<<vars, load>> => [Next]_vars
    BY DEF MCNext
  <2>2. MCInit => Init BY DEF MCInit
  <2>3. MCSpec => Spec BY <2>1, <2>2, PTL DEF MCSpec, Spec
  <2> QED BY <2>3, PipelineSafe, SerialCallsSafe, PTL
<1> SUFFICES ASSUME Inv, SerialInv
             PROVE  /\ crashes = 0 => MailIsRecorded
                    /\ AcceptedWasPresented /\ AwardCanBeIssued /\ PolicyWasOrdered /\ RequestShowsItsPolicy
  BY DEF SerialOrderIsFollowed
<1>1. crashes = 0 => MailIsRecorded
  BY DEF MailIsRecorded, SerialInv, RowsSerial, MailSerial, InFlight
<1>2. AcceptedWasPresented
  BY DEF AcceptedWasPresented, SerialInv, RowsSerial, SlipsSerial
<1>3. AwardCanBeIssued
  <2> SUFFICES ASSUME NEW r \in Existing(requests), requests[r].status = "AWARDED"
               PROVE  Orderable(r) # {}
    BY DEF AwardCanBeIssued
  <2>1. PICK s \in Existing(slips) : slips[s].request = r /\ slips[s].status = "SELECTED"
    BY DEF SerialInv, RowsSerial, AwardsSerial
  <2>2. slips[s].selected # None BY <2>1 DEF SerialInv, RowsSerial, SlipsSerial
  <2>3. slips[s].selected \in QuotationsOf(s) BY <2>2 DEF Inv, OneFirmOrder
  <2> QED BY <2>1, <2>3 DEF Orderable
<1>4. PolicyWasOrdered
  <2> SUFFICES ASSUME NEW p \in Existing(policies), policies[p].request # None,
                      NEW s, s = quotations[policies[p].quotation].slip
               PROVE  /\ slips[s].request = policies[p].request /\ slips[s].status = "SELECTED"
                      /\ \A q \in QuotationsOf(s) : quotations[q].status # "RECEIVED"
    BY DEF PolicyWasOrdered
  <2>1. slips[s].request = policies[p].request /\ slips[s].status = "SELECTED"
    BY DEF SerialInv, RowsSerial, AwardsSerial, Ordered
  <2> QED BY <2>1 DEF SerialInv, RowsSerial, OrdersSerial, QuotationsOf
<1>5. RequestShowsItsPolicy
  BY DEF SerialInv, RowsSerial, AwardsSerial
<1> QED BY <1>1, <1>2, <1>3, <1>4, <1>5

\* proposals.e2e-spec.ts: the client's acceptance is not taken back by any call
\* that is served alone.
THEOREM SerialAcceptanceAlwaysKept == MCSpec => SerialAcceptanceKept
<1>1. Inv /\ (Serial => SerialInv) /\ [MCNext]_<<vars, load>> => [Serial => AcceptanceKept]_vars
  BY AcceptanceStays DEF MCNext
<1>2. [MCNext]_<<vars, load>> => [Next]_vars
  BY DEF MCNext
<1>3. MCInit => Init BY DEF MCInit
<1>4. MCSpec => Spec BY <1>2, <1>3, PTL DEF MCSpec, Spec
<1> QED BY <1>1, <1>4, PipelineSafe, SerialCallsSafe, PTL DEF MCSpec, SerialAcceptanceKept
=============================================================================
