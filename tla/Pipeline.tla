------------------------------- MODULE Pipeline -------------------------------
(***************************************************************************)
(* The streaming path from the raw topic to the scored and rejected topics: *)
(* the replay producer appends to the raw topic, the consumer group of      *)
(* IngestConsumer turns records into rows of PostgreSQL, the publishers of  *)
(* OutboxPublisher turn rows of kafka_outbox into messages, and retention   *)
(* deletes published rows.                                                  *)
(*                                                                         *)
(* The components share kafka_outbox.  IngestConsumer sees its dedupe keys  *)
(* (outScored, outRejected), OutboxPublisher the delivery columns of its    *)
(* rows (status, claim, ...); `outbox` says which key each row was inserted *)
(* with.  A retired row takes its dedupe key along, so a record that is     *)
(* delivered again afterwards is announced again.                           *)
(***************************************************************************)
EXTENDS Integers, Sequences, FiniteSets

CONSTANTS
    Consumers, Partitions, Raw, Txns, Scores, BatchSize, MaxAttempts, NoOne,
    Publishers, ClaimSize,
    MaxFaults,    \* bound: failures of the consumers, and of the publishers
    MaxRetired    \* bound: rows that retention deletes

VARIABLES
    produced,     \* length of each partition of the raw topic so far
    outbox,       \* kafka_outbox: content of the rows, by outbox_id
    \* IngestConsumer
    owner, position, committed, cpc, batch, ccur, attempt, alertIdx, closing,
    scored, rejections, metricRows, outScored, outRejected,
    alertMetrics, retryMetrics, alertsSent, faults,
    \* OutboxPublisher
    status, claim, backoff, attempts, claims, expired, copies,
    ppc, tok, mine, pcur, late, pfaults

In == INSTANCE IngestConsumerProofs WITH pc <- cpc, cur <- ccur

\* Every key once, and once more for each row that retention deletes.
Refusals == {m \in In!Msgs : ~ In!Accepted(m)}
MaxRows == Cardinality(Txns \X In!Versions) + Cardinality(Refusals) + MaxRetired
Rows == 1 .. MaxRows

Out == INSTANCE OutboxPublisherProofs WITH pc <- ppc, cur <- pcur, faults <- pfaults

ASSUME PipelineAssumption ==
    /\ In!ConstantsAssumption
    /\ IsFiniteSet(Txns) /\ IsFiniteSet(In!Versions) /\ IsFiniteSet(Partitions)
    /\ IsFiniteSet(Publishers)
    /\ ClaimSize \in Nat \ {0}
    /\ MaxRetired \in Nat

group == <<owner, position, committed>>
process == <<cpc, batch, ccur, attempt, alertIdx, closing>>
outcomes == <<scored, rejections, metricRows, alertMetrics, retryMetrics, alertsSent, faults>>
keys == <<outScored, outRejected>>
consumer == <<group, process, outcomes>>
delivery == <<claim, backoff, attempts, claims, expired, copies>>
publisher == <<ppc, tok, mine, pcur, late, pfaults>>
vars == <<produced, outbox, consumer, keys, status, delivery, publisher>>

Init ==
    /\ produced = [p \in Partitions |-> 0]
    /\ outbox = <<>>
    /\ In!Init
    /\ Out!Init

\* The producer's next record of p is acknowledged by the broker.
Produce(p) ==
    /\ produced[p] < Len(Raw[p])
    /\ produced' = [produced EXCEPT ![p] = @ + 1]
    /\ UNCHANGED <<outbox, consumer, keys, status, delivery, publisher>>

-----------------------------------------------------------------------------
\* What an outbox row is about.
ScoredRow(o) == [topic |-> "scored", txn |-> o.txn, version |-> o.version, src |-> o.src]
RejectedRow(m) == [topic |-> "rejected", src |-> m]

\* The row that an entry of a batch asks for, and the rows of the dedupe keys.
RowOf(e) == IF e.kind = "scored"
              THEN ScoredRow([txn |-> In!Event(e.msg).txn, version |-> e.score.version, src |-> e.msg])
              ELSE RejectedRow(e.msg)
RowsOf(O, R) == {ScoredRow(o) : o \in O} \cup {RejectedRow(m) : m \in R}
KeyRows == RowsOf(outScored, outRejected)

\* The rows of S in the order of batch b: each has the place of the first entry
\* that asks for it.
InOrder(b, S) ==
    LET first == {i \in DOMAIN b : /\ RowOf(b[i]) \in S
                                   /\ \A j \in DOMAIN b : RowOf(b[j]) = RowOf(b[i]) => i <= j}
        nth(k) == CHOOSE i \in first : Cardinality({j \in first : j <= i}) = k
    IN  [k \in 1 .. Cardinality(first) |-> RowOf(b[nth(k)])]

\* Mutant of Inserted: the rows go out on a connection of their own, which a
\* rollback of save_batch does not reach.
InsertedApart(c) ==
    IF cpc[c] # "save" THEN <<>>
    ELSE InOrder(batch[c], RowsOf(In!Announced(batch[c]),
                                  {batch[c][i].msg : i \in In!RejectedIn(batch[c])})
                             \ {outbox[r] : r \in DOMAIN outbox})

\* The rows that the step of c inserts: those of its new keys, in the order of
\* its batch (BIGSERIAL outbox_id).
Inserted(c) == InOrder(batch[c], KeyRows' \ KeyRows)

\* A step of the consumer group: it reads what has been produced, and the rows
\* that save_batch commits are pending from then on.
Consume(c, Step) ==
    /\ Step
    /\ \A p \in Partitions : position'[p] <= produced[p]
    /\ outbox' = outbox \o Inserted(c)
    /\ status' = [r \in Rows |-> IF r \in Len(outbox) + 1 .. Len(outbox')
                                   THEN "pending" ELSE status[r]]
    /\ UNCHANGED <<produced, delivery, publisher>>

Rebalance ==
    /\ In!Rebalance
    /\ UNCHANGED <<produced, outbox, status, delivery, publisher>>

\* A step on the publishers' side of the table, which leaves the keys alone.
Publish(Step) ==
    /\ Step
    /\ UNCHANGED <<produced, outbox, consumer, keys>>

Deleted == {r \in Rows : status[r] = "deleted"}

\* Retention deletes a published row, and its dedupe key with it.
Retire(r) ==
    /\ Out!Retire(r)
    /\ Cardinality(Deleted) < MaxRetired
    /\ outScored' = {o \in outScored : ScoredRow(o) # outbox[r]}
    /\ outRejected' = {m \in outRejected : RejectedRow(m) # outbox[r]}
    /\ UNCHANGED <<produced, outbox, consumer>>

Next ==
    \/ \E p \in Partitions : Produce(p)
    \/ Rebalance
    \/ \E c \in Consumers : Consume(c, In!Work(c)) \/ Consume(c, In!Failure(c))
    \/ \E p \in Publishers : Publish(Out!Work(p)) \/ Publish(Out!Failure(p))
    \/ \E r \in Rows : Publish(Out!BackoffEnds(r)) \/ Retire(r)
    \/ \E t \in 1 .. claims : Publish(Out!Expire(t))

Spec == Init /\ [][Next]_vars

\* Consumers and publishers are restarted and keep going, the coordinator hands
\* out partitions, back-offs end, and the lease of a holder that is gone runs
\* out.  Nothing makes the producer produce, retention delete, or anything fail;
\* MaxFaults bounds the failures.
Fairness ==
    /\ WF_vars(Rebalance /\ UNCHANGED faults)
    /\ \A c \in Consumers : WF_vars(Consume(c, In!Work(c)))
    /\ \A p \in Publishers : WF_vars(Publish(Out!Work(p)))
    /\ WF_vars(\E r \in Rows : Publish(Out!BackoffEnds(r)))
    /\ WF_vars(\E t \in 1 .. claims : Publish(Out!Expire(t)) /\ UNCHANGED pfaults)

FairSpec == Spec /\ Fairness

-----------------------------------------------------------------------------
(***************************************************************************)
(* Properties.                                                             *)
(***************************************************************************)

\* An outcome is about its transaction, or about the record it rejects.
Subject(m) == IF In!Accepted(m)
                THEN [topic |-> "scored", of |-> In!Event(m).txn]
                ELSE [topic |-> "rejected", of |-> m]
RowsAbout(s) == {r \in DOMAIN outbox : Subject(outbox[r].src) = s}
Announced(s) == \E r \in RowsAbout(s) : copies[r] > 0

\* An acknowledged record is never lost on its way to the topics, whoever
\* fails where: a message about it is there, or a pending row still owes it.
AcknowledgedIsOwed ==
    \A m \in In!Msgs : m[2] <= committed[m[1]] =>
      \/ Announced(Subject(m))
      \/ \E r \in RowsAbout(Subject(m)) : status[r] = "pending"

\* Delivering a record again does not announce its outcome again, unless
\* retention has deleted the row of the first announcement in between.
ReannouncedOnlyAfterRetention ==
    \A q, r \in DOMAIN outbox :
      /\ q < r
      /\ Subject(outbox[q].src) = Subject(outbox[r].src)
      /\ outbox[q].topic = "scored" => outbox[q].version = outbox[r].version
      => status[q] = "deleted"

\* Why these hold.  Each component keeps its invariant inside the pipeline (of
\* OutcomeInv only what retention, which deletes keys, leaves alone); nothing
\* is read, recorded or committed beyond what is produced; and kafka_outbox is
\* one table: its rows that are not deleted are the dedupe keys, one row each.
ComponentInv == /\ In!TypeOK /\ In!CommitInv /\ In!KeysAreUnique
                /\ \A c \in Consumers : In!EntriesMatch(batch[c])
                /\ Out!TypeOK /\ Out!LeaseInv /\ Out!RowInv

SourceInv == produced \in [Partitions -> Nat] /\ In!Within(produced)

Sources == {o \in In!OutboxRows : In!Accepted(o.src) /\ o.txn = In!Event(o.src).txn}
Contents == RowsOf(Sources, Refusals)

TableInv ==
    /\ outbox \in Seq(Contents) /\ Len(outbox) <= MaxRows
    /\ outScored \subseteq Sources /\ outRejected \subseteq Refusals
    /\ \A r \in Rows : status[r] = "absent" <=> r > Len(outbox)
    /\ Out!Pristine
KeyInv ==
    /\ \A r \in DOMAIN outbox : status[r] # "deleted" => outbox[r] \in KeyRows
    /\ \A k \in KeyRows : \E r \in DOMAIN outbox : status[r] # "deleted" /\ outbox[r] = k
    /\ Len(outbox) = Cardinality(Deleted) + Cardinality(KeyRows)
    /\ Cardinality(Deleted) <= MaxRetired
AboutInv ==
    /\ \A r \in DOMAIN outbox : metricRows[outbox[r].src] > 0
    /\ \A m \in In!Msgs : metricRows[m] > 0 => RowsAbout(Subject(m)) # {}
PipelineInv == /\ ComponentInv /\ SourceInv /\ TableInv /\ KeyInv /\ AboutInv
               /\ ReannouncedOnlyAfterRetention

\* The components together keep the promise of EndToEnd: no message about an
\* outcome that was rolled back, no offset ahead of the database.
Promise == INSTANCE EndToEnd WITH
             Msgs <- In!Msgs,
             produced <- {m \in In!Msgs : m[2] <= produced[m[1]]},
             recorded <- {m \in In!Msgs : metricRows[m] > 0},
             acked <- committed,
             announced <- {Subject(outbox[r].src) : r \in {q \in DOMAIN outbox : copies[q] > 0}}
ImplementsEndToEnd == Promise!Spec

\* Every record that reaches the raw topic is announced on the scored or the
\* rejected topic, across restarts, failed batches and lapsed leases: once the
\* producer and the failures have come to an end, none is missing.
EventuallyAnnounced ==
    <>[](\A m \in In!Msgs : m[2] <= produced[m[1]] => Announced(Subject(m)))
=============================================================================
