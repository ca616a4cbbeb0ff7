--------------------------- MODULE MCZatcaDocuments ---------------------------
(***************************************************************************)
(* Small instances of ZatcaDocuments. Approvals are numbered and begin in  *)
(* that order, which loses nothing: they differ in their name only.        *)
(***************************************************************************)
EXTENDS ZatcaDocuments

CONSTANT Loads

VARIABLE load

\* What approvePolicy issues: the client's debit note (B2C or B2B), when there
\* is one, and the insurer's commission invoice, always B2B.
PolicyKinds == {<<"B2C", "B2B">>, <<"B2B", "B2B">>, <<"B2B">>}
RetailKinds == {<<"B2C", "B2B">>}

\* How many approvals are in progress at a time, how many there are, and whether
\* the authority refuses documents.
Load(atOnce, approvals, refusals) ==
    [atOnce |-> atOnce, approvals |-> approvals, refusals |-> refusals]
PairsAndSerial == {Load(2, 2, TRUE), Load(1, 3, FALSE)}
Alone == {Load(1, 1, FALSE)}

Within ==
    /\ Cardinality(InFlight) <= load.atOnce
    /\ \A a \in Approvals : a > load.approvals => At(a, "idle")
    /\ \A a, b \in Approvals : a < b /\ At(a, "idle") => At(b, "idle")

\* No document is stamped FAILED, and none that is reported is turned down.
NoRefusal ==
    /\ \A d \in Doc : docs'[d] # None => docs'[d].status # "FAILED"
    /\ \A w \in Workers : worker[w].step = "report" /\ worker'[w].step = "pop"
                             => docs[worker[w].doc].status = "REPORTED"

MCInit == Init /\ load \in Loads
MCNext == UNCHANGED load /\ Next /\ Within' /\ (load.refusals \/ NoRefusal)
MCVars == <<vars, load>>
MCSpec == MCInit /\ [][MCNext]_MCVars

\* Approvals are finitely many, so fairness of their union does; drains start
\* again and again, so each needs its own.
MCFairSpec ==
    /\ MCSpec
    /\ WF_MCVars(UNCHANGED load /\ \E a \in Approvals : Continue(a))
    /\ \A w \in Workers : WF_MCVars(UNCHANGED load /\ Drain(w))

\* Approved one at a time, the documents are chained without a fork or a gap
\* (ChainIsUnbroken), also when an approval rolls back or dies.
SerialChainIsUnbroken == load.atOnce = 1 => ChainIsUnbroken

\* While the authority accepts what it is sent and until something fails: the
\* documents that the approvals issued do not stay PENDING, whichever of the
\* overlapping drains takes them.
AllTransmitted ==
    <>[](load.refusals \/ faults > 0 \/ \A d \in Doc : ~ HasStatus(d, "PENDING"))
=============================================================================
