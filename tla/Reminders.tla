------------------------------- MODULE Reminders -------------------------------
(***************************************************************************)
(* The sweep that reminds of tasks, renewals and installments and sends    *)
(* the scheduled reports (reminders.service.ts, report-schedules.service   *)
(* .ts). The cron starts one every day and a manager may start another.    *)
(* A sweep lists what is wanted, pass by pass, and for each row first      *)
(* notifies and then marks, in statements of their own. Meanwhile days     *)
(* pass, rows are closed, and installments and schedules are deleted. The  *)
(* names are its own, so that it can be extended next to Allowances.       *)
(***************************************************************************)
EXTENDS Integers, FiniteSets

CONSTANTS
    Tasks, Policies, Schedules,
    Installments,   \* rows of the plan of a note
    NextPlan,       \* rows of the plan that may replace it
    Sweepers,       \* the sweeps that may be under way at a time
    MaxFaults,      \* statements that fail and restarts
    Nothing         \* nothing notified, no report being sent by hand

Rows == Tasks \union Policies \union Schedules \union Installments \union NextPlan
Due == Installments \union NextPlan

\* The order of the passes, and what each is about.
Passes == <<"task", "renewal", "upcoming", "due", "report">>
LastPass == 5
Jobs == ({"task"} \X Tasks) \union ({"renewal"} \X Policies)
            \union ({"upcoming", "due"} \X Due) \union ({"report"} \X Schedules)

\* The tables have their own rows, and a plan that replaces another has new ones.
ASSUME RowsAssumption ==
    /\ Nothing \notin Jobs
    /\ Tasks \intersect Due = {} /\ Policies \intersect Due = {} /\ Schedules \intersect Due = {}
    /\ Installments \intersect NextPlan = {}
ASSUME SweepersAssumption == IsFiniteSet(Sweepers) /\ MaxFaults \in Nat

VARIABLES
    rows,           \* the rows that exist
    open,           \* those open, ISSUED, active or not settled
    date,           \* how their date compares with today: "later", "near" or "due"
    marked,         \* jobs marked done: reminderSentAt, renewalRemindedAt, preRemindedAt, remindedAt
    tried,          \* how often a sweep has notified of a job
    sweep,          \* where each sweep is
    manual,         \* the schedule that is being sent by hand
    faults

table == <<rows, open, date, marked>>
sweepVars == <<table, tried, sweep, manual, faults>>

-----------------------------------------------------------------------------
\* A sweep in its n-th pass, with the jobs it has listed and the one it has
\* notified of and not marked yet.
InPass(n, todo, told) == [pass |-> n, todo |-> todo, told |-> told]
Resting == InPass(0, {}, Nothing)

\* What the queries of the passes ask of a row.
When == [task |-> "due", renewal |-> "near", upcoming |-> "near", due |-> "due", report |-> "due"]

Wanted(j) ==
    /\ j[2] \in rows \intersect open
    /\ date[j[2]] = When[j[1]]
    /\ j \notin marked

Listed(n) == {j \in Jobs : j[1] = Passes[n] /\ Wanted(j)}

SweepInit ==
    /\ rows = Rows \ NextPlan
    /\ open = Rows
    /\ date = [x \in Rows |-> "later"]
    /\ marked = {}
    /\ tried = [j \in Jobs |-> 0]
    /\ sweep = [w \in Sweepers |-> Resting]
    /\ manual = Nothing
    /\ faults = 0

-----------------------------------------------------------------------------
(* Sweeps                                                                   *)

Move(w, at) == sweep' = [sweep EXCEPT ![w] = at] /\ UNCHANGED <<manual, faults>>

Start(w) ==
    /\ sweep[w].pass = 0
    /\ Move(w, InPass(1, Listed(1), Nothing))
    /\ UNCHANGED <<table, tried>>

\* Mutant: a pass that finds nothing ends the sweep.
NextPass_Stops(w) ==
    LET n == sweep[w].pass IN
    /\ n > 0 /\ sweep[w].todo = {}
    /\ Move(w, IF n = LastPass \/ Listed(n + 1) = {} THEN Resting ELSE InPass(n + 1, Listed(n + 1), Nothing))
    /\ UNCHANGED <<table, tried>>

\* Mutant: what a pass lists is marked at once, so that no other sweep takes it.
NextPass_Claims(w) ==
    LET n == sweep[w].pass IN
    /\ n \in 1..(LastPass - 1) /\ sweep[w].todo = {}
    /\ Move(w, InPass(n + 1, Listed(n + 1), Nothing))
    /\ marked' = marked \union Listed(n + 1)
    /\ UNCHANGED <<rows, open, date, tried>>

NextPass(w) ==
    LET n == sweep[w].pass IN
    /\ n > 0 /\ sweep[w].todo = {}
    /\ Move(w, IF n = LastPass THEN Resting ELSE InPass(n + 1, Listed(n + 1), Nothing))
    /\ UNCHANGED <<table, tried>>

\* A notification that fails is logged, and the row marked all the same.
Notify(w) ==
    /\ sweep[w].told = Nothing
    /\ \E j \in sweep[w].todo :
        /\ tried' = [tried EXCEPT ![j] = @ + 1]
        /\ Move(w, [sweep[w] EXCEPT !.told = j])
    /\ UNCHANGED table

Done(w, j) == InPass(sweep[w].pass, sweep[w].todo \ {j}, Nothing)

\* A statement throws: of a report it is caught, of a reminder it ends the sweep.
Thrown(w, j) == IF j[1] = "report" THEN Done(w, j) ELSE Resting

\* An update of a row that is gone throws. A report is not marked: its date is
\* moved on, and it is counted anew.
Mark(w) ==
    LET j == sweep[w].told IN
    /\ j # Nothing
    /\ \/ /\ j[2] \notin rows
          /\ Move(w, Thrown(w, j))
          /\ UNCHANGED <<table, tried>>
       \/ /\ j[2] \in rows /\ j[1] # "report"
          /\ Move(w, Done(w, j))
          /\ marked' = marked \union {j}
          /\ UNCHANGED <<rows, open, date, tried>>
       \/ /\ j[2] \in rows /\ j[1] = "report"
          /\ Move(w, Done(w, j))
          /\ date' = [date EXCEPT ![j[2]] = "later"]
          /\ tried' = [tried EXCEPT ![j] = 0]
          /\ UNCHANGED <<rows, open, marked>>

\* Reading, building a report or marking fails.
Fault(w) ==
    /\ sweep[w].pass > 0 /\ faults < MaxFaults
    /\ faults' = faults + 1
    /\ sweep' = [sweep EXCEPT ![w] =
           IF sweep[w].told # Nothing THEN Thrown(w, sweep[w].told) ELSE Resting]
    /\ UNCHANGED <<table, tried, manual>>

\* A summary cannot be built: the report is passed over and stays due.
FaultOfReport(w) ==
    /\ sweep[w].pass = LastPass /\ sweep[w].told = Nothing /\ faults < MaxFaults
    /\ \E j \in sweep[w].todo : sweep' = [sweep EXCEPT ![w] = Done(w, j)]
    /\ faults' = faults + 1
    /\ UNCHANGED <<table, tried, manual>>

Restart ==
    /\ faults < MaxFaults
    /\ sweep' = [w \in Sweepers |-> Resting]
    /\ manual' = Nothing
    /\ faults' = faults + 1
    /\ UNCHANGED <<table, tried>>

-----------------------------------------------------------------------------
(* What goes on meanwhile                                                   *)

Meanwhile == UNCHANGED <<tried, sweep, manual, faults>>

\* Tasks and schedules have no days of grace before they are due.
DayPasses(x) ==
    /\ \/ date[x] = "later" /\ x \in Policies \union Due /\ date' = [date EXCEPT ![x] = "near"]
       \/ date[x] = "later" /\ x \in Tasks \union Schedules /\ date' = [date EXCEPT ![x] = "due"]
       \/ date[x] = "near" /\ date' = [date EXCEPT ![x] = "due"]
    /\ UNCHANGED <<rows, open, marked>> /\ Meanwhile

\* A task is done, a policy cancelled, an installment settled, a schedule paused.
Close(x) ==
    /\ x \in rows \intersect open
    /\ open' = open \ {x}
    /\ UNCHANGED <<rows, date, marked>> /\ Meanwhile

ReplacePlan ==
    /\ Installments \subseteq rows
    /\ rows' = (rows \ Installments) \union NextPlan
    /\ UNCHANGED <<open, date, marked>> /\ Meanwhile

RemoveSchedule(x) ==
    /\ x \in Schedules \intersect rows
    /\ rows' = rows \ {x}
    /\ UNCHANGED <<open, date, marked>> /\ Meanwhile

\* runNow: sent by hand, whether due or not, and moved on.
RunNow(x) ==
    /\ manual = Nothing /\ x \in Schedules \intersect rows
    /\ manual' = x
    /\ UNCHANGED <<table, tried, sweep, faults>>

RunDone ==
    /\ manual # Nothing
    /\ manual' = Nothing
    /\ date' = IF manual \in rows THEN [date EXCEPT ![manual] = "later"] ELSE date
    /\ UNCHANGED <<rows, open, marked, tried, sweep, faults>>

Work(w) == NextPass(w) \/ Notify(w) \/ Mark(w)

SweepNext ==
    \/ \E w \in Sweepers : Start(w) \/ Work(w) \/ Fault(w) \/ FaultOfReport(w)
    \/ \E x \in Rows : DayPasses(x) \/ Close(x) \/ RemoveSchedule(x) \/ RunNow(x)
    \/ ReplacePlan \/ RunDone \/ Restart

SweepSpec == SweepInit /\ [][SweepNext]_sweepVars

\* The cron starts a sweep every day, and sweeps go on.
FairSweepSpec == SweepSpec /\ \A w \in Sweepers : WF_sweepVars(Start(w)) /\ WF_sweepVars(Work(w))

-----------------------------------------------------------------------------
SweepTypes ==
    /\ rows \subseteq Rows /\ open \subseteq Rows
    /\ date \in [Rows -> {"later", "near", "due"}]
    /\ marked \subseteq Jobs
    /\ tried \in [Jobs -> Nat]
    /\ sweep \in [Sweepers -> [pass : 0..LastPass, todo : SUBSET Jobs, told : Jobs \union {Nothing}]]
    /\ manual \in Schedules \union {Nothing}
    /\ faults \in 0..MaxFaults

\* The class comment: no item is reminded of twice. Each sweep that is under way
\* at a time may do so once, and once more for each failure.
RepeatsAreBounded == \A j \in Jobs : tried[j] <= Cardinality(Sweepers) * (1 + faults)

\* What is marked has been notified of, however sweeps overlap or end.
MarkedWasTried == \A j \in marked : tried[j] > 0

\* No notice is lost and few are repeated.
NoticesAreSound == SweepTypes /\ RepeatsAreBounded /\ MarkedWasTried

\* What is due gets marked, closed or deleted, whatever row in its way was
\* deleted in the middle of a sweep.
DueIsReminded ==
    \A j \in Jobs : j[1] \in {"task", "due", "report"} => (Wanted(j) ~> ~ Wanted(j))
=============================================================================
