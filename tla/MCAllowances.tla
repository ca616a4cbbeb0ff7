----------------------------- MODULE MCAllowances -----------------------------
(***************************************************************************)
(* Small instances of Allowances, under one of several loads. A load says  *)
(* whether calls are of storage or of verification, whether files are as   *)
(* large as announced, whether calls of one document keep apart, how many  *)
(* calls may die and which quotas the plan may have.                       *)
(***************************************************************************)
EXTENDS Allowances

CONSTANT Loads

VARIABLE load

Load(paid, honest, apart, calls, deaths, quotas) ==
    [paid |-> paid, honest |-> honest, apart |-> apart, calls |-> calls, deaths |-> deaths, quotas |-> quotas]
AllLoads ==
    {Load(TRUE, TRUE, TRUE, 5, 1, {4}), Load(FALSE, TRUE, FALSE, 4, 0, {4}),
     Load(FALSE, TRUE, FALSE, 3, 1, Quotas), Load(FALSE, FALSE, TRUE, 3, 0, Quotas)}

Sending == {"put", "read", "head", "measure", "reconcile"}

Within ==
    /\ \A c \in Calls : c > load.calls => At(c, "idle")
    /\ Cardinality(died) <= load.deaths
    /\ quota \in load.quotas
    /\ \A c \in Calls : call[c].step \notin {"idle", "done"} => (load.paid <=> call[c].step \in {"charge", "check"})
    /\ load.honest => \A d \in Existing : stored[d] \in {None, size[d]}
    /\ load.honest => \A c \in Calls : At(c, "put") => call[c].is = size[call[c].of]
    /\ load.apart =>
        /\ \A c, d \in Calls :
            c # d /\ call[c].step \in Sending /\ call[d].step \in Sending => call[c].of # call[d].of
        /\ (\E c \in Calls : call[c].step \in Sending) => \A d \in Calls : ~ At(d, "baseline")

MCInit == Init /\ load \in Loads /\ quota \in load.quotas
MCNext == UNCHANGED load /\ Next /\ Within'
MCVars == <<vars, load>>
MCSpec == MCInit /\ [][MCNext]_MCVars

\* While files are as large as announced, the quota is kept; while calls of one
\* document keep apart and none dies, the counter adds up.
QuotaIsSound ==
    /\ TypeOK
    /\ load.honest => WithinQuota
    /\ load.apart /\ died = {} => CounterAddsUp
=============================================================================
