------------------------------ MODULE Migrations ------------------------------
(***************************************************************************)
(* infrastructure/postgres/run-migrations.sh over the three files of       *)
(* infrastructure/postgres/migrations, as the schema-init container runs   *)
(* it at every `docker compose up`, possibly beside a second run of it.    *)
(*                                                                         *)
(* A migration is applied in one transaction and recorded in another.  The *)
(* text of a file is represented by a number, which is also its checksum;  *)
(* an edit of the file is the next number.                                 *)
(***************************************************************************)
EXTENDS Integers

CONSTANTS
    Runners,    \* processes that run the script
    MaxEdits,   \* bound: edits of each file
    MaxFaults   \* bound: failures and deaths of runners

\* In the order of their names: 0001_initial_schema, 0002_outbox,
\* 0003_legacy_schema_compatibility.
Versions == 1 .. 3

\* What the services need: the tables of 0001, the explanation columns of
\* scored_transactions, the table of 0002.
Objects == {"tables", "columns", "outbox"}

Absent == 0     \* no such object, no such record
Legacy == -1    \* made by a release from before schema_migrations

VARIABLES
    file,     \* /migrations: the text of each file
    record,   \* schema_migrations: the checksum stored for each version
    made,     \* the schema: the text that made each object
    rpc,      \* where each runner is
    idx,      \* the version it is at
    sum,      \* the checksum it computed for it
    up,       \* the services that wait for schema-init have been started
    raced,    \* versions whose file changed under a run that had not recorded it
    faults

vars == <<file, record, made, rpc, idx, sum, up, raced, faults>>

\* A fresh volume, or one of an older release: its tables have no explanation
\* columns, and its outbox may or may not exist.
Init ==
    /\ file = [v \in Versions |-> 1]
    /\ record = [v \in Versions |-> Absent]
    /\ \/ made = [o \in Objects |-> Absent]
       \/ \E x \in {Absent, Legacy} :
            made = [tables |-> Legacy, columns |-> Absent, outbox |-> x]
    /\ rpc = [r \in Runners |-> "idle"]
    /\ idx = [r \in Runners |-> 1]
    /\ sum = [r \in Runners |-> Absent]
    /\ up = FALSE
    /\ raced = {}
    /\ faults = 0

Fault == faults < MaxFaults /\ faults' = faults + 1
Goto(r, l) == rpc' = [rpc EXCEPT ![r] = l]
Running(r) == rpc[r] \in {"look", "apply", "record"}

\* docker compose up, or run: the script begins with CREATE TABLE IF NOT
\* EXISTS schema_migrations.  After a successful run the same `up` starts the
\* services before there is another.
Begin(r) ==
    /\ ~ Running(r)
    /\ rpc[r] = "ok" => up
    /\ Goto(r, "look")
    /\ idx' = [idx EXCEPT ![r] = 1]
    /\ UNCHANGED <<file, record, made, sum, up, raced, faults>>

\* On to the next file; after the last one the script exits with 0.
Advance(r) ==
    IF idx[r] = 3 THEN Goto(r, "ok") /\ UNCHANGED idx
                  ELSE Goto(r, "look") /\ idx' = [idx EXCEPT ![r] = @ + 1]

\* sha256sum, and the checksum stored for the version: none, the same, or
\* another, in which case the script refuses to go on.
Look(r) ==
    /\ rpc[r] = "look"
    /\ LET v == idx[r]
       IN  /\ sum' = [sum EXCEPT ![r] = file[v]]
           /\ \/ record[v] = Absent /\ Goto(r, "apply") /\ UNCHANGED idx
              \/ record[v] = file[v] /\ Advance(r)
              \/ record[v] \notin {Absent, file[v]} /\ Goto(r, "failed") /\ UNCHANGED idx
    /\ UNCHANGED <<file, record, made, up, raced, faults>>

\* CREATE TABLE IF NOT EXISTS makes a table with its columns or leaves it;
\* ADD COLUMN IF NOT EXISTS likewise.
Creates(v) ==
    CASE v = 1 -> IF made["tables"] = Absent THEN {"tables", "columns"} ELSE {}
      [] v = 2 -> {"outbox"}
      [] v = 3 -> {"columns"}

\* Mutants of Apply: without IF NOT EXISTS, which fails on what is there, and
\* a migration that replaces what is there.
ApplyOnce(r) ==
    /\ rpc[r] = "apply"
    /\ IF \E o \in Creates(idx[r]) : made[o] # Absent
         THEN Goto(r, "failed") /\ UNCHANGED made
         ELSE /\ made' = [o \in Objects |-> IF o \in Creates(idx[r]) THEN file[idx[r]] ELSE made[o]]
              /\ Goto(r, "record")
    /\ UNCHANGED <<file, record, idx, sum, up, raced, faults>>
ApplyAnew(r) ==
    /\ rpc[r] = "apply"
    /\ made' = [o \in Objects |-> IF o \in Creates(idx[r]) THEN file[idx[r]] ELSE made[o]]
    /\ Goto(r, "record")
    /\ UNCHANGED <<file, record, idx, sum, up, raced, faults>>

\* psql -1 -f: the file as it is now, in one transaction.
Apply(r) ==
    /\ rpc[r] = "apply"
    /\ made' = [o \in Objects |-> IF o \in Creates(idx[r]) /\ made[o] = Absent
                                   THEN file[idx[r]] ELSE made[o]]
    /\ Goto(r, "record")
    /\ UNCHANGED <<file, record, idx, sum, up, raced, faults>>

\* INSERT INTO schema_migrations: a second runner may have been faster, and
\* the primary key then ends the script.
Record(r) ==
    /\ rpc[r] = "record"
    /\ IF record[idx[r]] = Absent
         THEN record' = [record EXCEPT ![idx[r]] = sum[r]] /\ Advance(r)
         ELSE Goto(r, "failed") /\ UNCHANGED <<record, idx>>
    /\ UNCHANGED <<file, made, sum, up, raced, faults>>

\* A statement fails or the container dies; a transaction that had committed
\* leaves what Apply and Record leave.
Fails(r) ==
    /\ Running(r)
    /\ Goto(r, "failed")
    /\ Fault
    /\ UNCHANGED <<file, record, made, idx, sum, up, raced>>

\* Mutant of StartServices: condition service_started.
StartServicesEarly ==
    /\ ~ up
    /\ \E r \in Runners : rpc[r] # "idle"
    /\ up' = TRUE
    /\ UNCHANGED <<file, record, made, rpc, idx, sum, raced, faults>>

\* condition: service_completed_successfully
StartServices ==
    /\ ~ up
    /\ \E r \in Runners : rpc[r] = "ok"
    /\ up' = TRUE
    /\ UNCHANGED <<file, record, made, rpc, idx, sum, raced, faults>>

\* A checkout changes a file, perhaps under a run that has computed its
\* checksum, or after one that applied it and did not come to record it.
Applied(v) == \/ v = 1 /\ made["tables"] > 0
              \/ v = 2 /\ made["outbox"] > 0
              \/ v = 3 /\ made["columns"] > 0
Edit(v) ==
    /\ file[v] <= MaxEdits
    /\ file' = [file EXCEPT ![v] = @ + 1]
    /\ raced' = IF record[v] = Absent
                     /\ (Applied(v) \/ \E r \in Runners : Running(r) /\ idx[r] = v)
                  THEN raced \cup {v} ELSE raced
    /\ UNCHANGED <<record, made, rpc, idx, sum, up, faults>>

-----------------------------------------------------------------------------
Work(r) == Look(r) \/ Apply(r) \/ Record(r)
Next == \/ \E r \in Runners : Begin(r) \/ Work(r) \/ Fails(r)
        \/ StartServices
        \/ \E v \in Versions : Edit(v)

Spec == Init /\ [][Next]_vars

\* A run goes on to its end, the services that wait for it start, and a failed
\* start-up is tried again.
Fairness ==
    /\ \A r \in Runners : WF_vars(Work(r)) /\ WF_vars(~ up /\ Begin(r))
    /\ WF_vars(StartServices)
FairSpec == Spec /\ Fairness

-----------------------------------------------------------------------------
(***************************************************************************)
(* Properties.                                                             *)
(***************************************************************************)

\* Every variable keeps its shape; a text is a positive number.
Shapes ==
    /\ file \in [Versions -> Nat \ {0}]
    /\ record \in [Versions -> Nat]
    /\ made \in [Objects -> Int]
    /\ rpc \in [Runners -> {"idle", "look", "apply", "record", "ok", "failed"}]
    /\ idx \in [Runners -> Versions]
    /\ sum \in [Runners -> Nat]
TypeOK ==
    /\ Shapes
    /\ up \in BOOLEAN
    /\ raced \subseteq Versions
    /\ faults \in Nat

\* The services find a whole schema: fresh or old volume, however many runs
\* died between a migration and its record, whoever else ran the script.
ServicesFindTheSchema == up => \A o \in Objects : made[o] # Absent

\* "Database schema uses checksum-validated migrations" (README.md): the text
\* that a record vouches for is the one that made what is there, unless an old
\* release made it or the file changed under an unfinished run.
MadeBy == [v \in Versions |-> CASE v = 1 -> "tables" [] v = 2 -> "outbox" [] v = 3 -> "columns"]
RecordsVouch ==
    \A v \in {1, 2} \ raced :
      record[v] # Absent => made[MadeBy[v]] \in {record[v], Legacy}

\* As long as no recorded file is changed, the services come up in the end: a
\* run that died half-way leaves nothing that the next one cannot deal with.
EventuallyUp ==
    [](\A v \in Versions : record[v] \in {Absent, file[v]}) => <>up

\* Why ServicesFindTheSchema holds: what is recorded is there, and so is what
\* a runner has behind it.
Has(v) == /\ v = 1 => made["tables"] # Absent
          /\ v = 2 => made["outbox"] # Absent
          /\ v = 3 => made["columns"] # Absent
SchemaInv ==
    /\ \A v \in Versions : record[v] # Absent \/ up => Has(v)
    /\ \A r \in Runners :
         /\ Running(r) => \A v \in Versions : v < idx[r] => Has(v)
         /\ rpc[r] = "record" => Has(idx[r])
         /\ rpc[r] = "ok" => \A v \in Versions : Has(v)

\* Why RecordsVouch holds: until a version is recorded, what its object was
\* made from is still the text of its file, and so is what the runners at it
\* have computed the checksum of, unless it raced.
VouchInv ==
    /\ RecordsVouch
    /\ \A v \in {1, 2} \ raced : record[v] = Absent =>
         /\ made[MadeBy[v]] \in {Absent, Legacy, file[v]}
         /\ \A r \in Runners : rpc[r] \in {"apply", "record"} /\ idx[r] = v => sum[r] = file[v]
=============================================================================
