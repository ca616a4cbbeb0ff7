----------------------------- MODULE MCReminders -----------------------------
(***************************************************************************)
(* Small instances of Reminders, under one of several loads. A load says   *)
(* how many sweeps overlap, how many faults there are, and which rows the  *)
(* days bring near: the others stay in the future.                         *)
(***************************************************************************)
EXTENDS Reminders

CONSTANTS t1, p1, i1, n1, s1, w1, w2, Loads

VARIABLE load

Load(sweeps, deaths, near) == [sweeps |-> sweeps, faults |-> deaths, near |-> near]
OverlapAndSerial ==
    {Load({w1, w2}, 1, {i1}), Load({w1, w2}, 1, {t1, s1}),
     Load({w1}, 2, {i1, s1}), Load({w1}, 2, {t1, p1}), Load({w1}, 1, {i1, n1})}

Within ==
    /\ \A w \in Sweepers \ load.sweeps : sweep[w] = Resting
    /\ faults <= load.faults
    /\ \A x \in Rows \ load.near :
        /\ date[x] = "later"
        /\ x \in open
        /\ x \in NextPlan \/ x \in rows
        /\ manual # x

MCVars == <<sweepVars, load>>
MCInit == SweepInit /\ load \in Loads
MCNext == UNCHANGED load /\ SweepNext /\ Within'
MCSpec == MCInit /\ [][MCNext]_MCVars
MCFairSpec ==
    MCSpec /\ \A w \in Sweepers : /\ WF_MCVars(UNCHANGED load /\ Start(w) /\ Within')
                                  /\ WF_MCVars(UNCHANGED load /\ Work(w))

=============================================================================
