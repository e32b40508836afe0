--------------------------- MODULE IngestConsumer ---------------------------
(***************************************************************************)
(* The validation consumer (apps/consumer/main.py) together with the one   *)
(* transaction it writes through (save_batch in lossguard/database.py).    *)
(*                                                                         *)
(* A consumer polls raw events, asks the scoring API for a decision,       *)
(* gathers a batch in memory and flushes it: save_batch in PostgreSQL,     *)
(* then the synchronous Kafka commit, then the Slack alerts, and only then *)
(* the reset of the in-memory lists.  Every step of a flush may fail, and  *)
(* an exception that leaves the poll loop runs flush once more in the      *)
(* `finally` block before the process goes down.                           *)
(*                                                                         *)
(* Offsets are one-based here: committed[p] = n says that the committed    *)
(* Kafka offset lies just after the n-th record of partition p.            *)
(***************************************************************************)
EXTENDS Integers, Sequences, FiniteSets

CONSTANTS
    Consumers,    \* processes of the consumer group lossguard-scorers
    Partitions,   \* partitions of the raw topic
    Raw,          \* the raw topic: Raw[p] is the record log of partition p
    Txns,         \* transaction ids
    Scores,       \* answers of the scoring API: [version, high]
    BatchSize,    \* settings.consumer_write_batch_size
    MaxAttempts,  \* settings.scoring_api_max_attempts
    MaxFaults,    \* bound: failures, restarts and extra rebalances per run
    NoOne         \* the owner of a partition that no consumer holds

(* What a raw record can be: a valid event, a valid event whose text        *)
(* PostgreSQL refuses (a NUL character), a record that validation rejects,  *)
(* a rejected record whose sanitized summary PostgreSQL refuses (a NUL      *)
(* character, a NaN literal), a record without a value.                     *)
Kinds == {"valid", "poisoned", "malformed", "unstorable", "tombstone"}

Records == [kind : Kinds, txn : Txns]

ASSUME ConstantsAssumption ==
    /\ Raw \in [Partitions -> Seq(Records)]
    /\ \A s \in Scores : s.high \in BOOLEAN
    /\ BatchSize \in Nat \ {0}
    /\ MaxAttempts \in Nat \ {0}
    /\ MaxFaults \in Nat
    /\ NoOne \notin Consumers

Msgs == UNION {{p} \X (1 .. Len(Raw[p])) : p \in Partitions}
Event(m) == Raw[m[1]][m[2]]
\* json.loads and TransactionEvent accept the record.
Accepted(m) == Event(m).kind \in {"valid", "poisoned"}
NoMsg == <<>>

\* One element of the batch: the source message with what the loop appended
\* for it to scores or rejections, metrics, outbox and pending_alerts.
Entries == [msg : Msgs, kind : {"scored"}, score : Scores]
             \cup [msg : Msgs, kind : {"rejected"}]

VARIABLES
    owner,         \* group coordinator: the consumer each partition belongs to
    position,      \* last record of the partition handed out by poll
    committed,     \* group coordinator: committed offset of each partition
    pc,            \* where each process is: see Locations
    batch,         \* batch, messages and pending_alerts of the process
    cur,           \* the message being scored
    attempt,       \* score_with_retry's attempt
    alertIdx,      \* next element of pending_alerts to look at
    closing,       \* the process is in the finally block of run
    scored,        \* table scored_transactions: rows [txn, src, version]
    rejections,    \* table rejected_transactions: rows per source message
    metricRows,    \* table pipeline_metrics: transactions_* rows per message
    outScored,     \* table kafka_outbox, topic txns.scored: [txn, version, src]
    outRejected,   \* table kafka_outbox, topic txns.rejected: source messages
    alertMetrics,  \* pipeline_metrics: high_risk_alerts_sent rows per message
    retryMetrics,  \* pipeline_metrics: scoring_api_retries rows
    alertsSent,    \* Slack: alerts received per message
    faults         \* failures so far

group == <<owner, position, committed>>
local == <<pc, batch, cur, attempt, alertIdx, closing>>
saved == <<scored, rejections, metricRows, outScored, outRejected>>
audit == <<alertMetrics, retryMetrics, alertsSent>>
vars == <<owner, position, committed, pc, batch, cur, attempt, alertIdx,
          closing, scored, rejections, metricRows, outScored, outRejected,
          alertMetrics, retryMetrics, alertsSent, faults>>

Locations == {"down", "poll", "score", "save", "commit", "alert"}

Init ==
    /\ owner = [p \in Partitions |-> NoOne]
    /\ position = [p \in Partitions |-> 0]
    /\ committed = [p \in Partitions |-> 0]
    /\ pc = [c \in Consumers |-> "down"]
    /\ batch = [c \in Consumers |-> <<>>]
    /\ cur = [c \in Consumers |-> NoMsg]
    /\ attempt = [c \in Consumers |-> 1]
    /\ alertIdx = [c \in Consumers |-> 1]
    /\ closing = [c \in Consumers |-> FALSE]
    /\ scored = {}
    /\ rejections = [m \in Msgs |-> 0]
    /\ metricRows = [m \in Msgs |-> 0]
    /\ outScored = {}
    /\ outRejected = {}
    /\ alertMetrics = [m \in Msgs |-> 0]
    /\ retryMetrics = 0
    /\ alertsSent = [m \in Msgs |-> 0]
    /\ faults = 0

Fault == faults < MaxFaults /\ faults' = faults + 1

(***************************************************************************)
(* save_batch: what one committed transaction does to the tables.          *)
(***************************************************************************)

\* The score entries that the upserts and the outbox inserts walk through.
ScoredIn(b) == {i \in DOMAIN b : b[i].kind = "scored"}
RejectedIn(b) == {i \in DOMAIN b : b[i].kind = "rejected"}
TxnAt(b, i) == Event(b[i].msg).txn
VersionAt(b, i) == b[i].score.version
Copies(b, m) == {i \in DOMAIN b : b[i].msg = m}
SameKey(b, i, j) ==
    TxnAt(b, i) = TxnAt(b, j) /\ VersionAt(b, i) = VersionAt(b, j)

\* INSERT ... ON CONFLICT (transaction_id) DO UPDATE: the last entry wins.
Upserted(b) ==
    LET last == {i \in ScoredIn(b) :
                   \A j \in ScoredIn(b) : TxnAt(b, j) = TxnAt(b, i) => j <= i}
    IN  {r \in scored : \A i \in ScoredIn(b) : TxnAt(b, i) # r.txn}
          \cup {[txn |-> TxnAt(b, i), src |-> b[i].msg,
                 version |-> VersionAt(b, i)] : i \in last}

\* Mutant of Announced: a dedupe key without the model version.
AnnouncedOnce(b) ==
    outScored \cup {[txn |-> TxnAt(b, i), version |-> VersionAt(b, i), src |-> b[i].msg] :
                      i \in {j \in ScoredIn(b) : \A r \in outScored : r.txn # TxnAt(b, j)}}

\* Mutant of Announced: a dedupe key that names the source message as well.
AnnouncedAgain(b) ==
    outScored \cup {[txn |-> TxnAt(b, i), version |-> VersionAt(b, i), src |-> b[i].msg] :
                      i \in ScoredIn(b)}

\* INSERT ... ON CONFLICT (dedupe_key) DO NOTHING: the first entry ever wins.
Announced(b) ==
    LET first == {i \in ScoredIn(b) :
                    /\ \A j \in ScoredIn(b) : SameKey(b, i, j) => i <= j
                    /\ \A r \in outScored : ~ (/\ r.txn = TxnAt(b, i)
                                               /\ r.version = VersionAt(b, i))}
    IN  outScored \cup {[txn |-> TxnAt(b, i), version |-> VersionAt(b, i),
                         src |-> b[i].msg] : i \in first}

\* Mutant of SaveBatch: the outbox is left to a later transaction.
SaveBatchNoOutbox(b) ==
    /\ scored' = Upserted(b)
    /\ rejections' = [m \in Msgs |-> rejections[m]
                        + Cardinality(Copies(b, m) \cap RejectedIn(b))]
    /\ metricRows' = [m \in Msgs |-> metricRows[m] + Cardinality(Copies(b, m))]
    /\ UNCHANGED <<outScored, outRejected>>

\* The transaction of save_batch for batch b: all five tables or none.
SaveBatch(b) ==
    /\ scored' = Upserted(b)
    /\ rejections' = [m \in Msgs |-> rejections[m]
                        + Cardinality(Copies(b, m) \cap RejectedIn(b))]
    /\ metricRows' = [m \in Msgs |-> metricRows[m] + Cardinality(Copies(b, m))]
    /\ outScored' = Announced(b)
    /\ outRejected' = outRejected \cup {b[i].msg : i \in RejectedIn(b)}

\* PostgreSQL refuses one row of the batch, and with it the transaction.
Refused(b) == \E i \in DOMAIN b : Event(b[i].msg).kind \in {"poisoned", "unstorable"}

(***************************************************************************)
(* How control leaves the poll loop.                                       *)
(***************************************************************************)

\* Mutant of Vanish: the coordinator never notices.
VanishUnnoticed(c) ==
    /\ pc' = [pc EXCEPT ![c] = "down"]
    /\ batch' = [batch EXCEPT ![c] = <<>>]
    /\ cur' = [cur EXCEPT ![c] = NoMsg]
    /\ attempt' = [attempt EXCEPT ![c] = 1]
    /\ alertIdx' = [alertIdx EXCEPT ![c] = 1]
    /\ closing' = [closing EXCEPT ![c] = FALSE]
    /\ UNCHANGED owner

\* The process is gone: what it held in memory is lost, and the group
\* coordinator takes its partitions away.
Vanish(c) ==
    /\ pc' = [pc EXCEPT ![c] = "down"]
    /\ batch' = [batch EXCEPT ![c] = <<>>]
    /\ cur' = [cur EXCEPT ![c] = NoMsg]
    /\ attempt' = [attempt EXCEPT ![c] = 1]
    /\ alertIdx' = [alertIdx EXCEPT ![c] = 1]
    /\ closing' = [closing EXCEPT ![c] = FALSE]
    /\ owner' = [p \in Partitions |-> IF owner[p] = c THEN NoOne ELSE owner[p]]

\* The `finally` block: what is pending is flushed before the consumer closes.
FinalFlush(c) ==
    /\ ~ closing[c]
    /\ batch[c] # <<>>
    /\ pc' = [pc EXCEPT ![c] = "save"]
    /\ closing' = [closing EXCEPT ![c] = TRUE]
    /\ cur' = [cur EXCEPT ![c] = NoMsg]
    /\ attempt' = [attempt EXCEPT ![c] = 1]
    /\ alertIdx' = [alertIdx EXCEPT ![c] = 1]
    /\ UNCHANGED <<batch, owner>>

\* An exception, or the end of the loop.  A second exception, raised by the
\* final flush, takes the process down.
Leave(c) ==
    \/ FinalFlush(c)
    \/ (closing[c] \/ batch[c] = <<>>) /\ Vanish(c)

(***************************************************************************)
(* Process and group events.                                               *)
(***************************************************************************)

\* main() calls run() again, or the container is started again.
Start(c) ==
    /\ pc[c] = "down"
    /\ pc' = [pc EXCEPT ![c] = "poll"]
    /\ UNCHANGED <<group, batch, cur, attempt, alertIdx, closing, saved, audit, faults>>

\* The coordinator hands the partitions to running consumers.  Each restarts
\* from the committed offset; batches already gathered are kept, since the
\* consumer registers no revocation callback.  A rebalance nobody's departure
\* requires (a member that timed out and rejoined) counts as a fault.
Rebalance ==
    LET running == {c \in Consumers : pc[c] # "down"}
    IN  /\ running # {}
        /\ owner' \in [Partitions -> running]
        /\ position' = committed
        /\ \/ (\E p \in Partitions : owner[p] = NoOne) /\ UNCHANGED faults
           \/ Fault
        /\ UNCHANGED <<committed, local, saved, audit>>

\* SIGTERM or SIGINT: seen at the head of the loop only.
Stop(c) ==
    /\ pc[c] = "poll"
    /\ Leave(c)
    /\ Fault
    /\ UNCHANGED <<position, committed, saved, audit>>

\* The process dies anywhere, with no finally block.
Crash(c) ==
    /\ pc[c] # "down"
    /\ Vanish(c)
    /\ Fault
    /\ UNCHANGED <<position, committed, saved, audit>>

(***************************************************************************)
(* The poll loop.                                                          *)
(***************************************************************************)

\* poll returns the next record m of a partition the consumer owns.
Polls(c, m) ==
    /\ pc[c] = "poll"
    /\ owner[m[1]] = c
    /\ m[2] = position[m[1]] + 1
    /\ position' = [position EXCEPT ![m[1]] = m[2]]

\* The end of a loop iteration that added entry e: flush a full batch.
Append1(c, e) ==
    /\ batch' = [batch EXCEPT ![c] = Append(@, e)]
    /\ pc' = [pc EXCEPT ![c] = IF Len(batch[c]) + 1 >= BatchSize
                                 THEN "save" ELSE "poll"]

\* The record is accepted: it goes to scoring.
PollValid(c) ==
    /\ \E m \in Msgs :
         /\ Polls(c, m)
         /\ Accepted(m)
         /\ cur' = [cur EXCEPT ![c] = m]
    /\ pc' = [pc EXCEPT ![c] = "score"]
    /\ attempt' = [attempt EXCEPT ![c] = 1]
    /\ UNCHANGED <<owner, committed, batch, alertIdx, closing, saved, audit, faults>>

\* They refuse it: a sanitized rejection joins the batch.
PollRejected(c) ==
    /\ \E m \in Msgs :
         /\ Polls(c, m)
         /\ Event(m).kind \in {"malformed", "unstorable"}
         /\ Append1(c, [msg |-> m, kind |-> "rejected"])
    /\ UNCHANGED <<owner, committed, cur, attempt, alertIdx, closing, saved, audit, faults>>

\* json.loads(None) raises a TypeError that no handler names.
PollTombstone(c) ==
    /\ \E m \in Msgs : Polls(c, m) /\ Event(m).kind = "tombstone"
    /\ Leave(c)
    /\ UNCHANGED <<committed, saved, audit, faults>>

\* poll returned nothing, and the flush interval has elapsed.
TimedFlush(c) ==
    /\ pc[c] = "poll"
    /\ batch[c] # <<>>
    /\ pc' = [pc EXCEPT ![c] = "save"]
    /\ UNCHANGED <<group, batch, cur, attempt, alertIdx, closing, saved, audit, faults>>

(***************************************************************************)
(* Scoring (score_with_retry).                                             *)
(***************************************************************************)

\* The API answers with a decision, which joins the batch.
ScoreSucceeds(c) ==
    /\ pc[c] = "score"
    /\ \E s \in Scores :
         Append1(c, [msg |-> cur[c], kind |-> "scored", score |-> s])
    /\ cur' = [cur EXCEPT ![c] = NoMsg]
    /\ attempt' = [attempt EXCEPT ![c] = 1]
    /\ UNCHANGED <<group, alertIdx, closing, saved, audit, faults>>

\* A retryable answer before the last attempt: the retry is counted in a
\* transaction of its own.
ScoreRetries(c) ==
    /\ pc[c] = "score"
    /\ attempt[c] < MaxAttempts
    /\ attempt' = [attempt EXCEPT ![c] = @ + 1]
    /\ retryMetrics' = retryMetrics + 1
    /\ Fault
    /\ UNCHANGED <<group, pc, batch, cur, alertIdx, closing, saved, alertMetrics, alertsSent>>

\* Mutant of ScoreRaises: the error is logged, and the message passed over.
ScoreRaisesSkipped(c) ==
    /\ pc[c] = "score"
    /\ pc' = [pc EXCEPT ![c] = "poll"]
    /\ cur' = [cur EXCEPT ![c] = NoMsg]
    /\ attempt' = [attempt EXCEPT ![c] = 1]
    /\ Fault
    /\ UNCHANGED <<group, batch, alertIdx, closing, saved, audit>>

\* A 4xx answer, an answer that breaks the contract, a retry metric that
\* cannot be written, or a failure of the last attempt.
ScoreRaises(c) ==
    /\ pc[c] = "score"
    /\ Leave(c)
    /\ Fault
    /\ UNCHANGED <<position, committed, saved, audit>>

(***************************************************************************)
(* flush: save, commit, alert, reset.                                      *)
(***************************************************************************)

\* The transaction of save_batch commits.
SaveCommits(c) ==
    /\ pc[c] = "save"
    /\ ~ Refused(batch[c])
    /\ SaveBatch(batch[c])
    /\ pc' = [pc EXCEPT ![c] = "commit"]
    /\ UNCHANGED <<group, batch, cur, attempt, alertIdx, closing, audit, faults>>

\* Mutant of SaveRaises: the error is logged, and flush goes on to commit.
SaveRaisesLogged(c) ==
    /\ pc[c] = "save"
    /\ pc' = [pc EXCEPT ![c] = "commit"]
    /\ Fault
    /\ UNCHANGED <<group, batch, cur, attempt, alertIdx, closing, saved, audit>>

\* The connection fails: before the transaction commits, or after it.
SaveRaises(c) ==
    /\ pc[c] = "save"
    /\ \/ UNCHANGED saved
       \/ ~ Refused(batch[c]) /\ SaveBatch(batch[c])
    /\ Leave(c)
    /\ Fault
    /\ UNCHANGED <<position, committed, audit>>

\* PostgreSQL refuses a row of the batch.
SaveRefused(c) ==
    /\ pc[c] = "save"
    /\ Refused(batch[c])
    /\ Leave(c)
    /\ UNCHANGED <<position, committed, saved, audit, faults>>

\* Partitions with a message in b.
Touched(b) == {b[i].msg[1] : i \in DOMAIN b}

\* Mutant of LastPolled: one record too far.
LastPolledPlusOne(b, p) ==
    1 + (CHOOSE o \in {b[i].msg[2] : i \in {j \in DOMAIN b : b[j].msg[1] = p}} :
           \A i \in DOMAIN b : b[i].msg[1] = p => b[i].msg[2] <= o)

\* What the `offsets` dictionary holds for p: the offset of p's last message
\* in polling order.
LastPolled(b, p) ==
    LET i == CHOOSE i \in DOMAIN b :
               /\ b[i].msg[1] = p
               /\ \A j \in DOMAIN b : b[j].msg[1] = p => j <= i
    IN  b[i].msg[2]

\* Mutant of StoreOffsets: an untouched partition is committed at its start.
StoreOffsetsOfAll(b, S) ==
    committed' = [p \in Partitions |-> IF p \in S THEN LastPolled(b, p) ELSE 0]

\* The coordinator stores the offsets of the partitions in S.
StoreOffsets(b, S) ==
    committed' = [p \in Partitions |->
                    IF p \in S THEN LastPolled(b, p) ELSE committed[p]]

\* consumer.commit(asynchronous=False) stores every offset.
CommitReturns(c) ==
    /\ pc[c] = "commit"
    /\ StoreOffsets(batch[c], Touched(batch[c]))
    /\ pc' = [pc EXCEPT ![c] = "alert"]
    /\ UNCHANGED <<owner, position, batch, cur, attempt, alertIdx, closing, saved, audit, faults>>

\* commit returns, but some partition's offset was refused: flush does not
\* look at the per-partition errors of the list that commit returns.
CommitReturnsPartly(c) ==
    /\ pc[c] = "commit"
    /\ \E S \in (SUBSET Touched(batch[c])) \ {Touched(batch[c])} :
         StoreOffsets(batch[c], S)
    /\ Fault
    /\ pc' = [pc EXCEPT ![c] = "alert"]
    /\ UNCHANGED <<owner, position, batch, cur, attempt, alertIdx, closing, saved, audit>>

\* commit raises: the coordinator may have stored any of the offsets.
CommitRaises(c) ==
    /\ pc[c] = "commit"
    /\ \E S \in SUBSET Touched(batch[c]) : StoreOffsets(batch[c], S)
    /\ Fault
    /\ Leave(c)
    /\ UNCHANGED <<position, saved, audit>>

\* The entry of pending_alerts that the alert loop looks at, if it is one
\* that send_high_risk_alert posts.
AlertDue(c) ==
    /\ pc[c] = "alert"
    /\ alertIdx[c] <= Len(batch[c])
    /\ batch[c][alertIdx[c]].kind = "scored"
    /\ batch[c][alertIdx[c]].score.high

\* A rejection, or a score below the threshold: nothing is posted.
AlertNotDue(c) ==
    /\ pc[c] = "alert"
    /\ alertIdx[c] <= Len(batch[c])
    /\ ~ AlertDue(c)
    /\ alertIdx' = [alertIdx EXCEPT ![c] = @ + 1]
    /\ UNCHANGED <<group, pc, batch, cur, attempt, closing, saved, audit, faults>>

\* Mutant of AlertPostFails: the failed alert is counted as sent.
AlertPostFailsCounted(c) ==
    /\ AlertDue(c)
    /\ alertMetrics' = [alertMetrics EXCEPT ![batch[c][alertIdx[c]].msg] = @ + 1]
    /\ alertIdx' = [alertIdx EXCEPT ![c] = @ + 1]
    /\ Fault
    /\ UNCHANGED <<group, pc, batch, cur, attempt, closing, saved, retryMetrics, alertsSent>>

\* The post raises: send_high_risk_alert logs it and answers False.  Slack may
\* have received the alert all the same, when only its answer came too late.
AlertPostFails(c) ==
    /\ AlertDue(c)
    /\ LET m == batch[c][alertIdx[c]].msg
       IN  alertsSent' \in {alertsSent, [alertsSent EXCEPT ![m] = @ + 1]}
    /\ alertIdx' = [alertIdx EXCEPT ![c] = @ + 1]
    /\ Fault
    /\ UNCHANGED <<group, pc, batch, cur, attempt, closing, saved, alertMetrics, retryMetrics>>

\* The alert is delivered, and counted in a transaction of its own.
AlertSent(c) ==
    /\ AlertDue(c)
    /\ LET m == batch[c][alertIdx[c]].msg
       IN  /\ alertsSent' = [alertsSent EXCEPT ![m] = @ + 1]
           /\ alertMetrics' = [alertMetrics EXCEPT ![m] = @ + 1]
    /\ alertIdx' = [alertIdx EXCEPT ![c] = @ + 1]
    /\ UNCHANGED <<group, pc, batch, cur, attempt, closing, saved, retryMetrics, faults>>

\* The alert is delivered but record_metric raises.
AlertMetricRaises(c) ==
    /\ AlertDue(c)
    /\ LET m == batch[c][alertIdx[c]].msg
       IN  alertsSent' = [alertsSent EXCEPT ![m] = @ + 1]
    /\ Leave(c)
    /\ Fault
    /\ UNCHANGED <<position, committed, saved, alertMetrics, retryMetrics>>

\* Mutant of FlushEnds: the lists are not cleared.
FlushEndsUncleared(c) ==
    /\ pc[c] = "alert"
    /\ alertIdx[c] > Len(batch[c])
    /\ IF closing[c]
         THEN Vanish(c)
         ELSE /\ pc' = [pc EXCEPT ![c] = "poll"]
              /\ alertIdx' = [alertIdx EXCEPT ![c] = 1]
              /\ UNCHANGED <<batch, cur, attempt, closing, owner>>
    /\ UNCHANGED <<position, committed, saved, audit, faults>>

\* The lists are reset; in the finally block the consumer then closes.
FlushEnds(c) ==
    /\ pc[c] = "alert"
    /\ alertIdx[c] > Len(batch[c])
    /\ IF closing[c]
         THEN Vanish(c)
         ELSE /\ pc' = [pc EXCEPT ![c] = "poll"]
              /\ batch' = [batch EXCEPT ![c] = <<>>]
              /\ alertIdx' = [alertIdx EXCEPT ![c] = 1]
              /\ UNCHANGED <<cur, attempt, closing, owner>>
    /\ UNCHANGED <<position, committed, saved, audit, faults>>

-----------------------------------------------------------------------------
\* What a process does when nothing fails that need not fail.
Work(c) ==
    \/ Start(c) \/ PollValid(c) \/ PollRejected(c) \/ PollTombstone(c)
    \/ TimedFlush(c) \/ ScoreSucceeds(c) \/ SaveCommits(c) \/ SaveRefused(c)
    \/ CommitReturns(c) \/ AlertNotDue(c) \/ AlertSent(c) \/ FlushEnds(c)

Failure(c) ==
    \/ Stop(c) \/ Crash(c) \/ ScoreRetries(c) \/ ScoreRaises(c) \/ SaveRaises(c)
    \/ CommitReturnsPartly(c) \/ CommitRaises(c) \/ AlertPostFails(c)
    \/ AlertMetricRaises(c)

Next == Rebalance \/ \E c \in Consumers : Work(c) \/ Failure(c)

Spec == Init /\ [][Next]_vars

\* The loop, the restart policy and the coordinator keep going; nothing
\* forces a failure, and MaxFaults says that failures are finitely many.
Fairness ==
    /\ WF_vars(Rebalance /\ UNCHANGED faults)
    /\ \A c \in Consumers : WF_vars(Work(c))

FairSpec == Spec /\ Fairness

-----------------------------------------------------------------------------
(***************************************************************************)
(* Properties.                                                             *)
(***************************************************************************)

Versions == {s.version : s \in Scores}
ScoredRows == [txn : Txns, src : Msgs, version : Versions]
OutboxRows == [txn : Txns, version : Versions, src : Msgs]

GroupTypes == /\ owner \in [Partitions -> Consumers \cup {NoOne}]
              /\ position \in [Partitions -> Nat]
              /\ committed \in [Partitions -> Nat]
ProcessTypes == /\ pc \in [Consumers -> Locations]
                /\ batch \in [Consumers -> Seq(Entries)]
                /\ cur \in [Consumers -> Msgs \cup {NoMsg}]
                /\ \A c \in Consumers : pc[c] = "score" => cur[c] \in Msgs
                /\ attempt \in [Consumers -> Nat \ {0}]
                /\ alertIdx \in [Consumers -> Nat \ {0}]
                /\ closing \in [Consumers -> BOOLEAN]
TableTypes == /\ scored \subseteq ScoredRows
              /\ rejections \in [Msgs -> Nat]
              /\ metricRows \in [Msgs -> Nat]
              /\ outScored \subseteq OutboxRows
              /\ outRejected \subseteq Msgs
AuditTypes == /\ alertMetrics \in [Msgs -> Nat]
              /\ retryMetrics \in Nat
              /\ alertsSent \in [Msgs -> Nat]
              /\ faults \in Nat

\* Every variable keeps its shape; a process that waits for a score holds
\* the message it asked about.
TypeOK == GroupTypes /\ ProcessTypes /\ TableTypes /\ AuditTypes

\* The transaction that counted m also left its decision and its outbox row,
\* or its dead letter and its outbox row.
Recorded(m) ==
    IF Accepted(m)
      THEN /\ \E r \in scored : r.txn = Event(m).txn
           /\ \E o \in outScored : o.txn = Event(m).txn
      ELSE rejections[m] > 0 /\ m \in outRejected

\* "Source offsets advance only after that database transaction commits"
\* (docs/scope.md): whatever fails, and whoever commits, a committed offset
\* covers no message whose outcome PostgreSQL does not hold.
OffsetsCoverRecorded ==
    \A m \in Msgs : m[2] <= committed[m[1]] => metricRows[m] > 0 /\ Recorded(m)

\* The tables never hold a part of a message's outcome: decision, metric and
\* outbox row stand or fall together, and so do dead letter, metric, outbox.
OutcomesAreWhole ==
    /\ \A m \in Msgs : metricRows[m] > 0 => Recorded(m)
    /\ \A m \in Msgs : ~ Accepted(m) => rejections[m] = metricRows[m]
    /\ \A r \in scored : metricRows[r.src] > 0
    /\ \A o \in outScored : metricRows[o.src] > 0
    /\ \A m \in outRejected : metricRows[m] > 0

\* The decision a table row shows has been announced under its own model
\* version: dashboards and the scored topic cannot disagree on what exists.
DecisionsAreAnnounced ==
    \A r \in scored :
      \E o \in outScored : o.txn = r.txn /\ o.version = r.version

\* The primary key of scored_transactions and the dedupe key of the outbox:
\* redelivery never leaves two rows for one key.
KeysAreUnique ==
    /\ \A r1, r2 \in scored : r1.txn = r2.txn => r1 = r2
    /\ \A o1, o2 \in outScored :
         o1.txn = o2.txn /\ o1.version = o2.version => o1 = o2

\* An analyst is alerted only about a stored decision, at most once for each
\* time it was stored, and an alert is counted only when it was delivered.
AlertsFollowRecords ==
    \A m \in Msgs : /\ alertsSent[m] <= metricRows[m]
                    /\ alertMetrics[m] <= alertsSent[m]

\* A consumer that PostgreSQL or a tombstone takes down costs the others a
\* rebalance: without failures, all is quiet only if the log holds no such
\* record, or if there is no other consumer.
Solitary == \A c, d \in Consumers : c = d
Undisturbed == Solitary \/ \A m \in Msgs : Event(m).kind \in {"valid", "malformed"}

\* 2 ^ n, counted in a way the provers can follow.
Doublings(n) == Cardinality(SUBSET (1 .. n))

\* Append-only rows (metrics, dead letters) are the ones redelivery can
\* duplicate.  Each failure at most doubles what one message leaves there;
\* with no failure at all a message leaves exactly one row.
DuplicatesNeedFaults == Undisturbed => \A m \in Msgs : metricRows[m] <= Doublings(faults)

\* The offsets dictionary keeps the message polled last, not the greatest
\* offset: only a rebalance that a failure caused, which makes a batch hold
\* messages out of order or twice, can move a committed offset back.
OffsetsRegressOnlyOnFaults ==
    [][Undisturbed /\ faults' = 0 =>
         \A p \in Partitions : committed'[p] >= committed[p]]_vars

\* Every raw record eventually has its outcome in PostgreSQL.
EventuallyRecorded == \A m \in Msgs : <>(metricRows[m] > 0)

\* Why OffsetsCoverRecorded holds.  A message is settled for a process when
\* it is durable or still in the process's batch; polling goes in log order
\* from the committed offset, so everything before a batched message, before
\* the message being scored, and up to the position of an owned partition is
\* settled; from the save on, the whole batch is durable.
Durable(m) == metricRows[m] > 0
InBatch(c, m) == \E i \in DOMAIN batch[c] : batch[c][i].msg = m
Settled(c, m) == Durable(m) \/ InBatch(c, m)
Before(m) == {k \in Msgs : k[1] = m[1] /\ k[2] < m[2]}

CommittedDurable == \A m \in Msgs : m[2] <= committed[m[1]] => Durable(m)
BatchSettled(c) == \A i \in DOMAIN batch[c] :
                     \A k \in Before(batch[c][i].msg) : Settled(c, k)
CurSettled(c) == pc[c] = "score" => /\ Accepted(cur[c])
                                    /\ \A k \in Before(cur[c]) : Settled(c, k)
PositionSettled(c) ==
    ~ closing[c] =>
      \A m \in Msgs : owner[m[1]] = c /\ m[2] <= position[m[1]] =>
        Settled(c, m) \/ (pc[c] = "score" /\ cur[c] = m)
FlushedDurable(c) == pc[c] \in {"commit", "alert"} =>
                       \A i \in DOMAIN batch[c] : Durable(batch[c][i].msg)
ClosingFlushes(c) == closing[c] => pc[c] \in {"save", "commit", "alert"}

\* The inductive invariant: nothing a process may still commit covers a
\* message that is neither durable nor in the batch it is about to save.
ProcessInv(c) == /\ BatchSettled(c) /\ CurSettled(c) /\ PositionSettled(c)
                 /\ FlushedDurable(c) /\ ClosingFlushes(c)
CommitInv == CommittedDurable /\ \A c \in Consumers : ProcessInv(c)

\* What makes the tables' properties inductive: a batch scores exactly its
\* accepted messages, so the two kinds of rows never mix.
EntriesMatch(b) == \A i \in DOMAIN b :
                     b[i].kind = "scored" <=> Accepted(b[i].msg)
OutcomeInv == /\ OutcomesAreWhole /\ DecisionsAreAnnounced /\ KeysAreUnique
              /\ \A c \in Consumers : EntriesMatch(batch[c])

\* Why AlertsFollowRecords holds: between the save and the reset of a batch,
\* every alert still to come has its own row of the metric already.
Flushed(c) == pc[c] \in {"commit", "alert"}
Unalerted(m) == UNION {{c} \X {i \in Copies(batch[c], m) : i >= alertIdx[c]} :
                         c \in {d \in Consumers : Flushed(d)}}
AlertInv == \A m \in Msgs :
              /\ IsFiniteSet(Unalerted(m))
              /\ alertsSent[m] + Cardinality(Unalerted(m)) <= metricRows[m]
              /\ alertMetrics[m] <= alertsSent[m]

\* Why nothing is duplicated and no offset goes back while nothing fails: each
\* partition has one reader, which holds a stretch of its log, in order, that
\* starts after the committed offset; and what is stored lies before that
\* offset or in a batch being flushed.
BatchInOrder(c) ==
    /\ \A i \in DOMAIN batch[c] :
         LET m == batch[c][i].msg
         IN  /\ owner[m[1]] = c /\ m[2] <= position[m[1]]
             /\ IF pc[c] = "alert" THEN m[2] <= committed[m[1]]
                                   ELSE committed[m[1]] < m[2]
    /\ \A i, j \in DOMAIN batch[c] :
         i < j /\ batch[c][i].msg[1] = batch[c][j].msg[1] =>
           batch[c][i].msg[2] < batch[c][j].msg[2]
CurInOrder(c) == pc[c] = "score" =>
    /\ owner[cur[c][1]] = c
    /\ committed[cur[c][1]] < cur[c][2] /\ cur[c][2] = position[cur[c][1]]
    /\ \A i \in DOMAIN batch[c] : batch[c][i].msg[1] = cur[c][1] =>
         batch[c][i].msg[2] < cur[c][2]
StoredOnce == \A m \in Msgs :
    /\ metricRows[m] <= 1
    /\ metricRows[m] > 0 => \/ m[2] <= committed[m[1]]
                            \/ \E c \in Consumers : Flushed(c) /\ InBatch(c, m)
OneReader ==
    /\ \A p \in Partitions : committed[p] <= position[p]
    /\ (\E p \in Partitions : owner[p] = NoOne) => \A p \in Partitions : owner[p] = NoOne
    /\ (\E c \in Consumers : closing[c]) => Solitary
Orderly == OneReader /\ StoredOnce /\ \A c \in Consumers : BatchInOrder(c) /\ CurInOrder(c)
OrderInv == Undisturbed /\ faults = 0 => Orderly

\* Nothing is read, recorded or committed beyond the given ends of the logs.
Within(end) ==
    /\ \A p \in Partitions : position[p] <= end[p] /\ committed[p] <= end[p]
    /\ \A m \in Msgs : metricRows[m] > 0 => m[2] <= end[m[1]]
    /\ \A c \in Consumers : pc[c] = "score" => cur[c][2] <= end[cur[c][1]]
    /\ \A c \in Consumers : \A i \in DOMAIN batch[c] : batch[c][i].msg[2] <= end[batch[c][i].msg[1]]

\* What the committed offset and the sources may be: the reference the
\* implementation is shown to refine.
Ingest == INSTANCE AtLeastOnce WITH
            recorded <- {m \in Msgs : metricRows[m] > 0},
            acked <- committed
ImplementsAtLeastOnce == Ingest!Spec
=============================================================================
