----------------------------- MODULE DriftHealth -----------------------------
(***************************************************************************)
(* The drift monitor (monitoring/drift_job.py, monitoring/scheduler.py)    *)
(* and the health that the dashboard derives from its newest row           *)
(* (load_latest_model_health in apps/dashboard/data.py).                   *)
(*                                                                         *)
(* The scheduler evaluates at start-up and sleeps for an interval after    *)
(* each evaluation; an operator may run the same job by hand with          *)
(* --simulate-shift.  Time is counted in ticks and may pass between any    *)
(* two steps, those of an evaluation included.  Only the newest row        *)
(* matters to the dashboard; its age and the time left to the scheduler's  *)
(* deadline stand for the absolute times of the code.  The interval and    *)
(* the maximum age are settings that nothing relates to each other.        *)
(***************************************************************************)
EXTENDS Integers

CONSTANTS
    Interval,   \* DRIFT_INTERVAL_SECONDS, at least 60
    MaxAge,     \* DRIFT_HEALTH_MAX_AGE_SECONDS
    Keep,       \* RETENTION_DRIFT_REPORTS_DAYS
    MaxFaults,  \* bound: failures, torn files, crashes and demonstrations
    MaxDelay    \* bound on delay

ASSUME DriftAssumption ==
    /\ Interval \in Nat \ {0} /\ MaxAge \in Nat /\ Keep \in Nat
    /\ MaxFaults \in Nat /\ MaxDelay \in Nat

Jobs == {"scheduled", "manual"}
Statuses == {"ok", "drifting", "insufficient_data", "error"}
NoReport == [status |-> "none", simulated |-> FALSE]

VARIABLES
    newest,    \* model_drift_reports: the row with the greatest generated_at
    age,       \* how long ago it was generated
    metadata,  \* models/model_metadata.json: missing, readable or torn
    pc,        \* where each job is
    outcome,   \* the status the job is about to store
    due,       \* the scheduler's deadline, as the time left
    delay,     \* time since the newest row in which the scheduler did not sleep
               \* for a deadline: it evaluated, was to wake up, or was down
    missed,    \* failures since the newest row that were not stored: whose, and why
    faults

vars == <<newest, age, metadata, pc, outcome, due, delay, missed, faults>>

Init ==
    /\ newest = NoReport
    /\ age = 0
    /\ metadata \in {"missing", "readable"}
    /\ pc = [j \in Jobs |-> "off"]
    /\ outcome = [j \in Jobs |-> "error"]
    /\ due = 0
    /\ delay = 0
    /\ missed = {}
    /\ faults = 0

Fault == faults < MaxFaults /\ faults' = faults + 1
Goto(j, l) == pc' = [pc EXCEPT ![j] = l]

\* Mutant of Start: the scheduler sleeps first.
StartAsleep ==
    /\ pc["scheduled"] = "off"
    /\ Goto("scheduled", "wait") /\ due' = Interval
    /\ UNCHANGED <<newest, age, metadata, outcome, delay, missed, faults>>

\* Compose starts the scheduler, or starts it again: it evaluates at once.
Start ==
    /\ pc["scheduled"] = "off"
    /\ Goto("scheduled", "load")
    /\ UNCHANGED <<newest, age, metadata, outcome, due, delay, missed, faults>>

\* The deadline is reached.
Wake ==
    /\ pc["scheduled"] = "wait"
    /\ due = 0
    /\ Goto("scheduled", "load")
    /\ UNCHANGED <<newest, age, metadata, outcome, due, delay, missed, faults>>

\* docker compose run drift-monitor ... --simulate-shift
Demonstrate ==
    /\ pc["manual"] = "off"
    /\ Goto("manual", "load")
    /\ Fault
    /\ UNCHANGED <<newest, age, metadata, outcome, due, delay, missed>>

\* The job has returned or raised: the manual run is over, the scheduler sets
\* its deadline by the clock of this moment.
Return(j) ==
    /\ pc[j] = "return"
    /\ IF j = "scheduled" THEN Goto(j, "wait") /\ due' = Interval
                          ELSE Goto(j, "off") /\ UNCHANGED due
    /\ UNCHANGED <<newest, age, metadata, outcome, delay, missed, faults>>

\* load_reference and load_current return.
Load(j) ==
    /\ pc[j] = "load"
    /\ Goto(j, "version")
    /\ UNCHANGED <<newest, age, metadata, outcome, due, delay, missed, faults>>

\* model_version, and the guard on the number of current rows: too few, or
\* enough to go on.
ReadVersion(j) ==
    /\ pc[j] = "version"
    /\ metadata # "torn"
    /\ \/ Goto(j, "report") /\ UNCHANGED outcome
       \/ /\ Goto(j, "persist")
          /\ outcome' = [outcome EXCEPT ![j] = "insufficient_data"]
    /\ UNCHANGED <<newest, age, metadata, due, delay, missed, faults>>

\* json.loads refuses the metadata.
VersionRaises(j) ==
    /\ pc[j] = "version"
    /\ metadata = "torn"
    /\ Goto(j, "error")
    /\ UNCHANGED <<newest, age, metadata, outcome, due, delay, missed, faults>>

\* Evidently compares the frames, shifted or not, and the report files are
\* written: the share of drifted features falls on either side of the threshold.
Report(j) ==
    /\ pc[j] = "report"
    /\ \E s \in {"ok", "drifting"} : outcome' = [outcome EXCEPT ![j] = s]
    /\ Goto(j, "persist")
    /\ UNCHANGED <<newest, age, metadata, due, delay, missed, faults>>

\* Mutant of Insert: a status that did not change is not stored again.
InsertChanged(j, s) ==
    /\ IF newest.status = s
         THEN UNCHANGED <<newest, age, delay>>
         ELSE /\ newest' = [status |-> s, simulated |-> j = "manual"]
              /\ age' = 0 /\ delay' = 0
    /\ missed' = {}

\* persist_result: one row, one transaction, generated_at NOW().  The details
\* of a row with too few transactions do not say that it is simulated.
Insert(j, s) ==
    /\ newest' = [status |-> s,
                  simulated |-> j = "manual" /\ s # "insufficient_data"]
    /\ age' = 0 /\ delay' = 0
    /\ missed' = {}

\* The reference is unreadable, PostgreSQL unreachable, the comparison fails,
\* a report file or the row cannot be written: the handler of run takes over.
\* The row's transaction may have been committed all the same.
JobRaises(j) ==
    /\ pc[j] \in {"load", "version", "report", "persist"}
    /\ \/ UNCHANGED <<newest, age, delay, missed>>
       \/ pc[j] = "persist" /\ Insert(j, outcome[j])
    /\ Goto(j, "error")
    /\ Fault
    /\ UNCHANGED <<metadata, outcome, due>>

Persist(j) ==
    /\ pc[j] = "persist"
    /\ Insert(j, outcome[j])
    /\ Goto(j, "return")
    /\ UNCHANGED <<metadata, outcome, due, faults>>

\* The handler asks for the model version again and stores the failure.
PersistError(j) ==
    /\ pc[j] = "error"
    /\ metadata # "torn"
    /\ Insert(j, "error")
    /\ Goto(j, "return")
    /\ UNCHANGED <<metadata, outcome, due, faults>>

\* The same model_version that may have raised raises again: the failure is
\* logged, and the exception of the run propagates to the scheduler's log.
ErrorUnversioned(j) ==
    /\ pc[j] = "error"
    /\ metadata = "torn"
    /\ missed' = missed \cup {<<j, "torn">>}
    /\ Goto(j, "return")
    /\ UNCHANGED <<newest, age, metadata, outcome, due, delay, faults>>

\* PostgreSQL refuses the error row as well.
ErrorUnstored(j) ==
    /\ pc[j] = "error"
    /\ metadata # "torn"
    /\ missed' = missed \cup {<<j, "database">>}
    /\ Goto(j, "return")
    /\ Fault
    /\ UNCHANGED <<newest, age, metadata, outcome, due, delay>>

\* The job's process dies: no handler runs.
Crash(j) ==
    /\ pc[j] # "off"
    /\ Goto(j, "off")
    /\ Fault
    /\ UNCHANGED <<newest, age, metadata, outcome, due, delay, missed>>

\* A training that dies while it rewrites the metadata, and one that ends.
Tear ==
    /\ metadata' = "torn"
    /\ Fault
    /\ UNCHANGED <<newest, age, pc, outcome, due, delay, missed>>
Train ==
    /\ metadata # "readable"
    /\ metadata' = "readable"
    /\ UNCHANGED <<newest, age, pc, outcome, due, delay, missed, faults>>

\* Retention deletes the newest row once it has been kept for Keep; its older
\* siblings are gone by then.
Grow == IF newest = NoReport \/ age = Keep
          THEN newest' = NoReport /\ age' = 0
          ELSE newest' = newest /\ age' = age + 1

\* Mutant of Tick: each sleep starts the interval anew.
TickAnew ==
    /\ pc["scheduled"] = "wait" /\ due > 0
    /\ due' = Interval
    /\ Grow
    /\ UNCHANGED <<metadata, pc, outcome, delay, missed, faults>>

\* Time passes, and the scheduler sleeps.
Tick ==
    /\ pc["scheduled"] = "wait" /\ due > 0
    /\ due' = due - 1
    /\ Grow
    /\ UNCHANGED <<metadata, pc, outcome, delay, missed, faults>>

\* Time passes while the scheduler evaluates, is about to wake up, or is down.
Linger ==
    /\ pc["scheduled"] = "wait" => due = 0
    /\ delay < MaxDelay /\ delay' = delay + 1
    /\ Grow
    /\ UNCHANGED <<metadata, pc, outcome, due, missed, faults>>

-----------------------------------------------------------------------------
Work(j) == \/ Load(j) \/ ReadVersion(j) \/ VersionRaises(j) \/ Report(j)
           \/ Persist(j) \/ PersistError(j) \/ ErrorUnversioned(j) \/ Return(j)
Next == \/ Start \/ Wake \/ Demonstrate \/ Tear \/ Train \/ Tick \/ Linger
        \/ \E j \in Jobs : \/ Work(j) \/ JobRaises(j) \/ ErrorUnstored(j)
                           \/ Crash(j)

Spec == Init /\ [][Next]_vars

\* The container is restarted, the jobs run on, and a sleep comes to its end.
\* Nobody is obliged to train.
Fairness == /\ WF_vars(Start) /\ WF_vars(Wake) /\ WF_vars(Tick)
            /\ \A j \in Jobs : WF_vars(Work(j))
FairSpec == Spec /\ Fairness

-----------------------------------------------------------------------------
(***************************************************************************)
(* What the dashboard shows.                                               *)
(***************************************************************************)

\* effective_health_status, as a load of the page's query finds it (the page
\* keeps it for up to 30 seconds); "none" is its "not evaluated yet".
Shown ==
    IF newest = NoReport THEN "none"
    ELSE IF age > MaxAge THEN "stale" ELSE newest.status

(***************************************************************************)
(* Properties.                                                             *)
(***************************************************************************)

\* Every variable keeps its shape.
TypeOK ==
    /\ newest \in [status : Statuses, simulated : BOOLEAN] \cup {NoReport}
    /\ age \in 0 .. Keep
    /\ metadata \in {"missing", "readable", "torn"}
    /\ pc \in [Jobs -> {"off", "wait", "load", "version", "report", "persist", "error",
                  "return"}]
    /\ outcome \in [Jobs -> Statuses]
    /\ due \in 0 .. Interval
    /\ delay \in 0 .. MaxDelay
    /\ missed \subseteq Jobs \X {"torn", "database"}
    /\ faults \in 0 .. MaxFaults

\* Evaluations of the scheduler whose handler could not store the failure.
Lost == {m \in missed : m[1] = "scheduled"}

\* STALE never comes out of the blue, whatever the two settings are: either an
\* evaluation was lost, or since the newest row the scheduler spent more time
\* evaluating or being down than the maximum age leaves beside an interval.
\* So a maximum age above the interval by what an evaluation takes is enough,
\* and with equal settings any evaluation that takes time can show STALE.
StaleIsAccountedFor == Shown = "stale" => Lost # {} \/ Interval + delay > MaxAge

\* A demonstration's row is shown like any other; unless evaluations are
\* lost, the next scheduled one replaces it within an interval and the time
\* that it takes itself.
DemonstrationsEnd == newest.simulated => age <= Interval + delay \/ Lost # {}

\* Why: while nothing was lost, what is left of the sleep and the age of the
\* newest row exceed the interval by no more than the time not slept; and an
\* evaluation that just stored its row has slept none of that row's age.
ScheduleInv ==
    /\ pc["manual"] # "wait"
    /\ Lost = {} /\ newest # NoReport =>
         CASE pc["scheduled"] = "wait"   -> age + due <= Interval + delay
           [] pc["scheduled"] = "return" -> age <= delay
           [] OTHER                      -> age <= Interval + delay

\* docs/scope.md, criterion 6: "Drift failures are visible as database health
\* states", here for failures that happen while the database answers.
FailuresAreVisible == Shown = "ok" => \A j \in Jobs : <<j, "torn">> \notin missed

\* Whatever failed, once failures end and the metadata can be read again, the
\* page shows a real evaluation's result again and again.
EvaluatesAgain ==
    <>[](metadata # "torn")
      => []<>(Shown \in {"ok", "drifting", "insufficient_data"} /\ ~ newest.simulated)
=============================================================================
