------------------------ MODULE IngestConsumerProofs ------------------------
(* Theorems about IngestConsumer, for every log, group and batch size:     *)
(* offsets cover only what is recorded; what the flushes leave behind is   *)
(* whole, unique and announced; alerts follow the rows; and while nothing  *)
(* fails nothing is stored twice and no offset goes back.                  *)
EXTENDS IngestConsumer, FiniteSetTheorems, WellFoundedInduction, TLAPS

-----------------------------------------------------------------------------
(* The operators a flush is built from.                                    *)

\* A message has finitely many copies in a batch, and at least one if it is
\* in the batch at all: save_batch's inserts count something.
LEMMA CopiesCount ==
    ASSUME NEW b \in Seq(Entries), NEW m
    PROVE  /\ Cardinality(Copies(b, m)) \in Nat
           /\ Cardinality(Copies(b, m) \cap RejectedIn(b)) \in Nat
           /\ (\E i \in DOMAIN b : b[i].msg = m) => Cardinality(Copies(b, m)) > 0
<1>1. /\ Len(b) \in Nat
      /\ DOMAIN b = 1 .. Len(b)
  OBVIOUS
<1>2. IsFiniteSet(DOMAIN b)
  BY <1>1, FS_Interval
<1>3. Copies(b, m) \subseteq DOMAIN b
  BY DEF Copies
<1>4. IsFiniteSet(Copies(b, m)) /\ IsFiniteSet(Copies(b, m) \cap RejectedIn(b))
  BY <1>2, <1>3, FS_Subset
<1>5. Cardinality(Copies(b, m)) \in Nat /\ Cardinality(Copies(b, m) \cap RejectedIn(b)) \in Nat
  BY <1>4, FS_CardinalityType
<1>6. (\E i \in DOMAIN b : b[i].msg = m) => Copies(b, m) # {}
  BY DEF Copies
<1>7. Copies(b, m) # {} => Cardinality(Copies(b, m)) # 0
  BY <1>4, FS_EmptySet
<1> QED
  BY <1>5, <1>6, <1>7

\* Less-than on the naturals, as the library's well-foundedness needs it.
LEMMA LessWellFounded == IsWellFoundedOn({ss \in Nat \X Nat : ss[1] < ss[2]}, Nat)
BY NatLessThanWellFounded DEF OpToRel

\* Among finitely many indices of a batch there is a first one.
LEMMA FirstIndex ==
    ASSUME NEW T \in SUBSET Nat, T # {}
    PROVE  \E i \in T : \A j \in T : i <= j
<1> DEFINE R == {ss \in Nat \X Nat : ss[1] < ss[2]}
<1>1. PICK x \in T : \A y \in T : <<y, x>> \notin R
  <2> HIDE DEF R
  <2>1. IsWellFoundedOn(R, Nat)
    BY LessWellFounded DEF R
  <2> QED
    BY <2>1, WFMin
<1>2. x \in Nat /\ T \subseteq Nat
  BY <1>1
<1>3. ASSUME NEW y \in T, y < x
      PROVE  FALSE
  <2>1. y \in Nat
    BY <1>2
  <2>2. <<y, x>> \in R
    BY <1>2, <1>3, <2>1
  <2> QED
    BY <1>1, <2>2
<1>4. \A y \in T : x <= y
  <2> HIDE DEF R
  <2> QED
    BY <1>2, <1>3
<1> QED
  BY <1>1, <1>4

\* And a last one.
LEMMA LastIndex ==
    ASSUME NEW n \in Nat, NEW T \in SUBSET (1 .. n), T # {}
    PROVE  \E i \in T : \A j \in T : j <= i
<1> DEFINE U == {n - i : i \in T}
<1>1. U \in SUBSET Nat
  OBVIOUS
<1>2. U # {}
  OBVIOUS
<1>3. PICK x \in U : \A y \in U : x <= y
  <2> HIDE DEF U
  <2> QED
    BY <1>1, <1>2, FirstIndex
<1>4. PICK i \in T : x = n - i
  BY <1>3
<1>5. \A j \in T : n - i <= n - j
  BY <1>3, <1>4
<1>6. \A j \in T : j \in Int /\ i \in Int
  BY <1>4
<1> QED
  BY <1>5, <1>6

\* The offset flush commits for a partition is that of a batched message.
LEMMA LastPolledIsBatched ==
    ASSUME NEW b \in Seq(Entries), NEW p \in Touched(b)
    PROVE  \E i \in DOMAIN b : b[i].msg[1] = p /\ LastPolled(b, p) = b[i].msg[2]
<1> DEFINE T == {i \in DOMAIN b : b[i].msg[1] = p}
<1>1. /\ Len(b) \in Nat
      /\ T \in SUBSET (1 .. Len(b))
      /\ T # {}
  BY DEF Touched
<1>2. \E i \in T : \A j \in T : j <= i
  BY <1>1, LastIndex
<1>3. \E i \in DOMAIN b : /\ b[i].msg[1] = p
                          /\ \A j \in DOMAIN b : b[j].msg[1] = p => j <= i
  BY <1>2
<1> QED
  BY <1>3 DEF LastPolled

\* A message is a partition and a place in that partition's log.
LEMMA MsgFacts ==
    ASSUME ConstantsAssumption, NEW m \in Msgs
    PROVE  /\ m[1] \in Partitions
           /\ m[2] \in Nat \ {0}
           /\ m[2] \in 1 .. Len(Raw[m[1]])
           /\ m = <<m[1], m[2]>>
           /\ Event(m) \in Records
           /\ Event(m).txn \in Txns
<1>1. PICK p \in Partitions : m \in {p} \X (1 .. Len(Raw[p]))
  BY DEF Msgs
<1>2. m[1] = p /\ m[2] \in 1 .. Len(Raw[p]) /\ m = <<m[1], m[2]>>
  BY <1>1
<1>3. Raw[p] \in Seq(Records)
  BY DEF ConstantsAssumption
<1>4. Raw[p][m[2]] \in Records
  BY <1>2, <1>3
<1>5. Event(m) \in Records /\ Event(m).txn \in Txns
  BY <1>2, <1>4 DEF Event, Records
<1>6. Len(Raw[p]) \in Nat
  BY <1>3
<1> QED
  BY <1>2, <1>5, <1>6

\* What save_batch does to the append-only rows: they only grow, and every
\* message of the batch has at least one.
LEMMA SaveBatchCounts ==
    ASSUME TableTypes, NEW b \in Seq(Entries), SaveBatch(b)
    PROVE  /\ metricRows' \in [Msgs -> Nat]
           /\ rejections' \in [Msgs -> Nat]
           /\ \A m \in Msgs : metricRows[m] > 0 => metricRows'[m] > 0
           /\ \A i \in DOMAIN b : metricRows'[b[i].msg] > 0
<1> DEFINE N(m) == Cardinality(Copies(b, m))
           D(m) == Cardinality(Copies(b, m) \cap RejectedIn(b))
<1>1. /\ \A m \in Msgs : N(m) \in Nat /\ D(m) \in Nat
      /\ \A i \in DOMAIN b : N(b[i].msg) > 0
  BY CopiesCount
<1>2. metricRows \in [Msgs -> Nat] /\ rejections \in [Msgs -> Nat]
  BY DEF TableTypes
<1>3. /\ metricRows' = [m \in Msgs |-> metricRows[m] + N(m)]
      /\ rejections' = [m \in Msgs |-> rejections[m] + D(m)]
  BY DEF SaveBatch
<1>4. \A i \in DOMAIN b : b[i].msg \in Msgs
  BY DEF Entries
<1> HIDE DEF N, D
<1>5. \A m \in Msgs : metricRows'[m] = metricRows[m] + N(m)
  BY <1>3
<1>6. metricRows' \in [Msgs -> Nat] /\ rejections' \in [Msgs -> Nat]
  BY <1>1, <1>2, <1>3
<1>7. \A m \in Msgs : metricRows[m] > 0 => metricRows'[m] > 0
  BY <1>1, <1>2, <1>5
<1>8. \A i \in DOMAIN b : metricRows'[b[i].msg] > 0
  BY <1>1, <1>2, <1>4, <1>5
<1> QED
  BY <1>6, <1>7, <1>8

\* What the entries of a batch contribute to the two keyed tables.
LEMMA ScoredInFacts ==
    ASSUME ConstantsAssumption, NEW b \in Seq(Entries), NEW i \in ScoredIn(b)
    PROVE  /\ i \in DOMAIN b
           /\ b[i].msg \in Msgs
           /\ TxnAt(b, i) = Event(b[i].msg).txn
           /\ TxnAt(b, i) \in Txns
           /\ VersionAt(b, i) \in Versions
<1>1. i \in DOMAIN b /\ b[i] \in Entries /\ b[i].kind = "scored"
  BY DEF ScoredIn
<1>2. b[i].msg \in Msgs
  BY <1>1 DEF Entries
<1>3. b[i].score \in Scores
  BY <1>1 DEF Entries
<1> QED
  BY <1>1, <1>2, <1>3, MsgFacts DEF TxnAt, VersionAt, Versions

\* save_batch keeps the tables well-typed.
LEMMA SaveBatchTypes ==
    ASSUME ConstantsAssumption, TableTypes, NEW b \in Seq(Entries), SaveBatch(b)
    PROVE  TableTypes'
<1>1. ASSUME NEW i \in ScoredIn(b)
      PROVE  /\ [txn |-> TxnAt(b, i), src |-> b[i].msg, version |-> VersionAt(b, i)] \in ScoredRows
             /\ [txn |-> TxnAt(b, i), version |-> VersionAt(b, i), src |-> b[i].msg] \in OutboxRows
  BY ScoredInFacts DEF ScoredRows, OutboxRows
<1>2. scored' \subseteq ScoredRows
  <2>1. scored \subseteq ScoredRows /\ scored' = Upserted(b)
    BY DEF TableTypes, SaveBatch
  <2> QED
    BY <1>1, <2>1 DEF Upserted
<1>3. outScored' \subseteq OutboxRows
  <2>1. outScored \subseteq OutboxRows /\ outScored' = Announced(b)
    BY DEF TableTypes, SaveBatch
  <2> QED
    BY <1>1, <2>1 DEF Announced
<1>4. \A i \in DOMAIN b : b[i].msg \in Msgs
  BY DEF Entries
<1>5. outRejected' \subseteq Msgs
  BY <1>4 DEF SaveBatch, RejectedIn, TableTypes
<1> QED
  BY <1>2, <1>3, <1>5, SaveBatchCounts DEF TableTypes

-----------------------------------------------------------------------------
(* Type correctness.                                                       *)

\* Leaving the loop, however it ends, keeps the process's variables typed.
LEMMA LeaveTypes ==
    ASSUME GroupTypes, ProcessTypes, NEW c \in Consumers, Vanish(c) \/ Leave(c)
    PROVE  ProcessTypes' /\ owner' \in [Partitions -> Consumers \cup {NoOne}]
<1>1. CASE FinalFlush(c)
  BY <1>1 DEF FinalFlush, GroupTypes, ProcessTypes, Locations
<1>2. CASE Vanish(c)
  BY <1>2 DEF Vanish, GroupTypes, ProcessTypes, Locations
<1> QED
  BY <1>1, <1>2 DEF Leave

\* The end of a loop iteration keeps batch and pc typed.
LEMMA AppendTypes ==
    ASSUME ProcessTypes, NEW c \in Consumers, NEW e \in Entries, Append1(c, e)
    PROVE  /\ batch' \in [Consumers -> Seq(Entries)]
           /\ pc' \in [Consumers -> Locations]
           /\ pc'[c] # "score"
           /\ \A d \in Consumers \ {c} : pc'[d] = pc[d]
<1>1. batch \in [Consumers -> Seq(Entries)] /\ pc \in [Consumers -> Locations]
  BY DEF ProcessTypes
<1>2. Append(batch[c], e) \in Seq(Entries)
  BY <1>1
<1>3. PICK l \in {"save", "poll"} : pc' = [pc EXCEPT ![c] = l]
  BY DEF Append1
<1>4. batch' = [batch EXCEPT ![c] = Append(batch[c], e)]
  BY DEF Append1
<1> QED
  BY <1>1, <1>2, <1>3, <1>4 DEF Locations

\* What each poll does to the position it advances.
LEMMA PollsTypes ==
    ASSUME ConstantsAssumption, GroupTypes, NEW c \in Consumers, NEW m \in Msgs, Polls(c, m)
    PROVE  position' \in [Partitions -> Nat]
BY MsgFacts DEF Polls, GroupTypes

\* A commit stores offsets, which are naturals.
LEMMA StoreOffsetsTypes ==
    ASSUME ConstantsAssumption, TypeOK, NEW c \in Consumers,
           NEW S \in SUBSET Touched(batch[c]), StoreOffsets(batch[c], S)
    PROVE  committed' \in [Partitions -> Nat]
<1>1. batch[c] \in Seq(Entries) /\ committed \in [Partitions -> Nat]
  BY DEF TypeOK, GroupTypes, ProcessTypes
<1>2. \A i \in DOMAIN batch[c] : batch[c][i].msg \in Msgs
  BY <1>1 DEF Entries
<1>3. \A p \in S : LastPolled(batch[c], p) \in Nat
  <2> TAKE p \in S
  <2>1. p \in Touched(batch[c])
    OBVIOUS
  <2>2. PICK i \in DOMAIN batch[c] : LastPolled(batch[c], p) = batch[c][i].msg[2]
    <3> DEFINE b == batch[c]
    <3>1. b \in Seq(Entries) /\ p \in Touched(b)
      BY <1>1, <2>1
    <3> HIDE DEF b
    <3>2. \E i \in DOMAIN b : LastPolled(b, p) = b[i].msg[2]
      BY <3>1, LastPolledIsBatched
    <3> QED
      BY <3>2 DEF b
  <2>3. batch[c][i].msg \in Msgs
    BY <1>2, <2>2
  <2> QED
    BY <2>2, <2>3, MsgFacts
<1> QED
  BY <1>1, <1>3 DEF StoreOffsets

\* The alert loop looks at an entry of the batch.
LEMMA AlertDueFacts ==
    ASSUME ProcessTypes, NEW c \in Consumers, AlertDue(c)
    PROVE  alertIdx[c] \in DOMAIN batch[c] /\ batch[c][alertIdx[c]].msg \in Msgs
<1>1. batch[c] \in Seq(Entries) /\ alertIdx[c] \in 1 .. Len(batch[c])
  BY DEF ProcessTypes, AlertDue
<1>2. batch[c][alertIdx[c]] \in Entries
  BY <1>1
<1> QED
  BY <1>1, <1>2 DEF Entries

\* The state in which every process of the group is down is well typed.
LEMMA TypeInit == ASSUME ConstantsAssumption, Init PROVE TypeOK
<1>1. GroupTypes
  BY DEF Init, GroupTypes
<1>2. ProcessTypes
  <2>1. <<>> \in Seq(Entries)
    OBVIOUS
  <2> QED
    BY <2>1 DEF Init, ProcessTypes, Locations
<1>3. TableTypes
  BY DEF Init, TableTypes
<1>4. AuditTypes
  BY DEF Init, AuditTypes
<1> QED
  BY <1>1, <1>2, <1>3, <1>4 DEF TypeOK

\* Every step of the group, failures included, keeps the state well typed.
LEMMA TypeStep == ASSUME ConstantsAssumption, TypeOK, [Next]_vars PROVE TypeOK'
<1> USE DEF TypeOK
<1>1. UNCHANGED <<group, owner, position, committed>> => GroupTypes'
  BY DEF GroupTypes, group
<1>2. UNCHANGED local => ProcessTypes'
  BY DEF ProcessTypes, local
<1>3. UNCHANGED saved => TableTypes'
  BY DEF TableTypes, saved
<1>4. UNCHANGED audit /\ (Fault \/ UNCHANGED faults) => AuditTypes'
  BY DEF AuditTypes, audit, Fault
<1>5. ASSUME NEW c \in Consumers, Vanish(c) \/ Leave(c),
             UNCHANGED <<position, committed>>
      PROVE  GroupTypes' /\ ProcessTypes'
  BY <1>5, LeaveTypes DEF GroupTypes
<1>6. CASE Rebalance
  <2>1. GroupTypes'
    BY <1>6 DEF Rebalance, GroupTypes
  <2>2. UNCHANGED <<local, saved, audit>> /\ (Fault \/ UNCHANGED faults)
    BY <1>6 DEF Rebalance
  <2> QED
    BY <1>2, <1>3, <1>4, <2>1, <2>2
<1>7. ASSUME NEW c \in Consumers, Work(c) PROVE TypeOK'
  <2>1. CASE Start(c)
    <3>1. ProcessTypes'
      BY <2>1 DEF Start, ProcessTypes, Locations
    <3> QED
      BY <1>1, <1>3, <1>4, <2>1, <3>1 DEF Start, group
  <2>2. CASE PollValid(c)
    <3>1. PICK m \in Msgs : Polls(c, m) /\ cur' = [cur EXCEPT ![c] = m]
      BY <2>2 DEF PollValid
    <3>2. GroupTypes'
      BY <2>2, <3>1, PollsTypes DEF PollValid, GroupTypes
    <3>3. ProcessTypes'
      BY <2>2, <3>1 DEF PollValid, ProcessTypes, Locations
    <3> QED
      BY <1>3, <1>4, <2>2, <3>2, <3>3 DEF PollValid
  <2>3. CASE PollRejected(c)
    <3>1. PICK m \in Msgs : Polls(c, m) /\ Append1(c, [msg |-> m, kind |-> "rejected"])
      BY <2>3 DEF PollRejected
    <3>2. GroupTypes'
      BY <2>3, <3>1, PollsTypes DEF PollRejected, GroupTypes
    <3>3. [msg |-> m, kind |-> "rejected"] \in Entries
      BY DEF Entries
    <3>4. ProcessTypes'
      BY <2>3, <3>1, <3>3, AppendTypes DEF PollRejected, ProcessTypes
    <3> QED
      BY <1>3, <1>4, <2>3, <3>2, <3>4 DEF PollRejected
  <2>4. CASE PollTombstone(c)
    <3>1. GroupTypes' /\ ProcessTypes'
      BY <2>4, PollsTypes, LeaveTypes DEF PollTombstone, GroupTypes
    <3> QED
      BY <1>3, <1>4, <2>4, <3>1 DEF PollTombstone
  <2>5. CASE TimedFlush(c)
    <3>1. ProcessTypes'
      BY <2>5 DEF TimedFlush, ProcessTypes, Locations
    <3> QED
      BY <1>1, <1>3, <1>4, <2>5, <3>1 DEF TimedFlush, group
  <2>6. CASE ScoreSucceeds(c)
    <3>1. PICK s \in Scores : Append1(c, [msg |-> cur[c], kind |-> "scored", score |-> s])
      BY <2>6 DEF ScoreSucceeds
    <3>2. [msg |-> cur[c], kind |-> "scored", score |-> s] \in Entries
      BY <2>6 DEF ScoreSucceeds, ProcessTypes, Entries
    <3>3. ProcessTypes'
      BY <2>6, <3>1, <3>2, AppendTypes DEF ScoreSucceeds, ProcessTypes
    <3> QED
      BY <1>1, <1>3, <1>4, <2>6, <3>3 DEF ScoreSucceeds, group
  <2>7. CASE SaveCommits(c)
    <3>1. ProcessTypes'
      BY <2>7 DEF SaveCommits, ProcessTypes, Locations
    <3>2. TableTypes'
      BY <2>7, SaveBatchTypes DEF SaveCommits, ProcessTypes
    <3> QED
      BY <1>1, <1>4, <2>7, <3>1, <3>2 DEF SaveCommits, group
  <2>8. CASE SaveRefused(c)
    BY <1>3, <1>4, <1>5, <2>8 DEF SaveRefused
  <2>9. CASE CommitReturns(c)
    <3>1. GroupTypes'
      BY <2>9, StoreOffsetsTypes DEF CommitReturns, GroupTypes
    <3>2. ProcessTypes'
      BY <2>9 DEF CommitReturns, ProcessTypes, Locations
    <3> QED
      BY <1>3, <1>4, <2>9, <3>1, <3>2 DEF CommitReturns
  <2>10. CASE AlertNotDue(c)
    <3>1. ProcessTypes'
      BY <2>10 DEF AlertNotDue, ProcessTypes
    <3> QED
      BY <1>1, <1>3, <1>4, <2>10, <3>1 DEF AlertNotDue, group
  <2>11. CASE AlertSent(c)
    <3>1. ProcessTypes'
      BY <2>11 DEF AlertSent, ProcessTypes
    <3>2. PICK m \in Msgs : /\ alertsSent' = [alertsSent EXCEPT ![m] = @ + 1]
                            /\ alertMetrics' = [alertMetrics EXCEPT ![m] = @ + 1]
      BY <2>11, AlertDueFacts DEF AlertSent
    <3>3. UNCHANGED <<retryMetrics, faults>>
      BY <2>11 DEF AlertSent
    <3>4. AuditTypes'
      BY <3>2, <3>3 DEF AuditTypes
    <3> QED
      BY <1>1, <1>3, <2>11, <3>1, <3>4 DEF AlertSent, group
  <2>12. CASE FlushEnds(c)
    <3>1. CASE Vanish(c)
      BY <1>3, <1>4, <1>5, <2>12, <3>1 DEF FlushEnds
    <3>2. CASE /\ pc' = [pc EXCEPT ![c] = "poll"]
               /\ batch' = [batch EXCEPT ![c] = <<>>]
               /\ alertIdx' = [alertIdx EXCEPT ![c] = 1]
               /\ UNCHANGED <<cur, attempt, closing, owner>>
      <4>1. <<>> \in Seq(Entries)
        OBVIOUS
      <4>2. ProcessTypes'
        BY <3>2, <4>1 DEF ProcessTypes, Locations
      <4> QED
        BY <1>3, <1>4, <2>12, <3>2, <4>2 DEF FlushEnds, GroupTypes
    <3> QED
      BY <2>12, <3>1, <3>2 DEF FlushEnds
  <2> QED
    BY <1>7, <2>1, <2>2, <2>3, <2>4, <2>5, <2>6, <2>7, <2>8, <2>9, <2>10, <2>11, <2>12 DEF Work
<1>8. ASSUME NEW c \in Consumers, Failure(c) PROVE TypeOK'
  <2>1. CASE Stop(c)
    BY <1>3, <1>4, <1>5, <2>1 DEF Stop
  <2>2. CASE Crash(c)
    BY <1>3, <1>4, <1>5, <2>2 DEF Crash
  <2>3. CASE ScoreRetries(c)
    <3>1. ProcessTypes'
      BY <2>3 DEF ScoreRetries, ProcessTypes
    <3>2. AuditTypes'
      BY <2>3 DEF ScoreRetries, AuditTypes, Fault
    <3> QED
      BY <1>1, <1>3, <2>3, <3>1, <3>2 DEF ScoreRetries, group
  <2>4. CASE ScoreRaises(c)
    BY <1>3, <1>4, <1>5, <2>4 DEF ScoreRaises
  <2>5. CASE SaveRaises(c)
    <3>1. TableTypes'
      BY <1>3, <2>5, SaveBatchTypes DEF SaveRaises, ProcessTypes
    <3> QED
      BY <1>4, <1>5, <2>5, <3>1 DEF SaveRaises
  <2>6. CASE CommitReturnsPartly(c)
    <3>1. GroupTypes'
      BY <2>6, StoreOffsetsTypes DEF CommitReturnsPartly, GroupTypes
    <3>2. ProcessTypes'
      BY <2>6 DEF CommitReturnsPartly, ProcessTypes, Locations
    <3> QED
      BY <1>3, <1>4, <2>6, <3>1, <3>2 DEF CommitReturnsPartly
  <2>7. CASE CommitRaises(c)
    <3>1. GroupTypes' /\ ProcessTypes'
      BY <2>7, StoreOffsetsTypes, LeaveTypes DEF CommitRaises, GroupTypes
    <3> QED
      BY <1>3, <1>4, <2>7, <3>1 DEF CommitRaises
  <2>8. CASE AlertPostFails(c)
    <3>1. ProcessTypes'
      BY <2>8 DEF AlertPostFails, ProcessTypes
    <3>2. PICK m \in Msgs : alertsSent' \in {alertsSent, [alertsSent EXCEPT ![m] = @ + 1]}
      BY <2>8, AlertDueFacts DEF AlertPostFails
    <3>3. AuditTypes'
      BY <2>8, <3>2 DEF AlertPostFails, AuditTypes, Fault
    <3> QED
      BY <1>1, <1>3, <2>8, <3>1, <3>3 DEF AlertPostFails, group
  <2>9. CASE AlertMetricRaises(c)
    <3>1. PICK m \in Msgs : alertsSent' = [alertsSent EXCEPT ![m] = @ + 1]
      BY <2>9, AlertDueFacts DEF AlertMetricRaises
    <3>2. AuditTypes'
      BY <2>9, <3>1 DEF AlertMetricRaises, AuditTypes, Fault
    <3> QED
      BY <1>3, <1>5, <2>9, <3>2 DEF AlertMetricRaises
  <2> QED
    BY <1>8, <2>1, <2>2, <2>3, <2>4, <2>5, <2>6, <2>7, <2>8, <2>9 DEF Failure
<1>9. CASE UNCHANGED vars
  BY <1>9 DEF vars, GroupTypes, ProcessTypes, TableTypes, AuditTypes
<1> QED
  BY <1>6, <1>7, <1>8, <1>9 DEF Next

\* The shape of the state, for every log, group, batch size and schedule.
THEOREM TypeCorrect == Spec => []TypeOK
<1>1. Init => TypeOK
  BY TypeInit, ConstantsAssumption
<1>2. TypeOK /\ [Next]_vars => TypeOK'
  BY TypeStep, ConstantsAssumption
<1> QED
  BY <1>1, <1>2, PTL DEF Spec

-----------------------------------------------------------------------------
(* A committed offset covers durable messages only.                        *)

\* No step takes a row away from pipeline_metrics.
DurableGrows == \A m \in Msgs : Durable(m) => Durable(m)'

\* c gains no partition, and keeps its place in those it has.
Unmoved(c) == \A m \in Msgs : owner'[m[1]] = c =>
                owner[m[1]] = c /\ position'[m[1]] = position[m[1]]

\* The messages of a batch are messages of the log.
LEMMA BatchMsgs ==
    ASSUME ProcessTypes, NEW c \in Consumers, NEW i \in DOMAIN batch[c]
    PROVE  batch[c] \in Seq(Entries) /\ batch[c][i].msg \in Msgs
<1>1. batch[c] \in Seq(Entries)
  BY DEF ProcessTypes
<1>2. batch[c][i] \in Entries
  BY <1>1
<1> QED
  BY <1>1, <1>2 DEF Entries

\* A process whose own variables do not change keeps its invariant.
LEMMA IdleKeeps ==
    ASSUME ProcessTypes, NEW c \in Consumers, ProcessInv(c), DurableGrows, Unmoved(c),
           pc'[c] = pc[c], batch'[c] = batch[c], cur'[c] = cur[c], closing'[c] = closing[c]
    PROVE  ProcessInv(c)'
<1>1. \A m \in Msgs : Settled(c, m) => Settled(c, m)'
  BY DEF Settled, InBatch, DurableGrows
<1>2. \A m : Before(m)' = Before(m) /\ Before(m) \subseteq Msgs
  BY DEF Before
<1>3. BatchSettled(c)'
  BY <1>1, <1>2 DEF ProcessInv, BatchSettled
<1>4. CurSettled(c)'
  BY <1>1, <1>2 DEF ProcessInv, CurSettled
<1>5. PositionSettled(c)'
  BY <1>1 DEF ProcessInv, PositionSettled, Unmoved
<1>6. FlushedDurable(c)'
  BY BatchMsgs DEF ProcessInv, FlushedDurable, DurableGrows
<1>7. ClosingFlushes(c)'
  BY DEF ProcessInv, ClosingFlushes
<1> QED
  BY <1>3, <1>4, <1>5, <1>6, <1>7 DEF ProcessInv

\* A process that moves on with the same batch, at neither end waiting for a
\* score, keeps its invariant if the batch is durable where it must be.
LEMMA MoveKeeps ==
    ASSUME ProcessTypes, NEW c \in Consumers, ProcessInv(c), DurableGrows, Unmoved(c),
           pc[c] # "score", pc'[c] # "score",
           batch'[c] = batch[c], closing'[c] = closing[c],
           FlushedDurable(c)', ClosingFlushes(c)'
    PROVE  ProcessInv(c)'
<1>1. \A m \in Msgs : Settled(c, m) => Settled(c, m)'
  BY DEF Settled, InBatch, DurableGrows
<1>2. \A m : Before(m)' = Before(m) /\ Before(m) \subseteq Msgs
  BY DEF Before
<1>3. BatchSettled(c)'
  BY <1>1, <1>2 DEF ProcessInv, BatchSettled
<1>4. CurSettled(c)'
  BY DEF CurSettled
<1>5. PositionSettled(c)'
  BY <1>1 DEF ProcessInv, PositionSettled, Unmoved
<1> QED
  BY <1>3, <1>4, <1>5 DEF ProcessInv

\* A process that has gone has nothing left to commit.
LEMMA VanishKeeps ==
    ASSUME GroupTypes, ProcessTypes, ConstantsAssumption, NEW c \in Consumers, Vanish(c)
    PROVE  ProcessInv(c)'
<1>1. pc'[c] = "down" /\ batch'[c] = <<>> /\ closing'[c] = FALSE
  BY DEF Vanish, ProcessTypes
<1>2. \A m \in Msgs : owner'[m[1]] # c
  <2> TAKE m \in Msgs
  <2>1. m[1] \in Partitions
    BY MsgFacts
  <2>2. owner'[m[1]] = IF owner[m[1]] = c THEN NoOne ELSE owner[m[1]]
    BY <2>1 DEF Vanish
  <2> QED
    BY <2>2 DEF ConstantsAssumption
<1>3. DOMAIN batch'[c] = {}
  BY <1>1
<1>4. BatchSettled(c)' /\ FlushedDurable(c)'
  BY <1>3 DEF BatchSettled, FlushedDurable
<1>5. CurSettled(c)' /\ ClosingFlushes(c)'
  BY <1>1 DEF CurSettled, ClosingFlushes
<1>6. PositionSettled(c)'
  BY <1>2 DEF PositionSettled
<1> QED
  BY <1>4, <1>5, <1>6 DEF ProcessInv

\* Leaving the loop with a batch keeps what is settled about the batch.
LEMMA LeaveKeeps ==
    ASSUME GroupTypes, ProcessTypes, ConstantsAssumption, NEW c \in Consumers,
           ProcessInv(c), DurableGrows, Leave(c)
    PROVE  ProcessInv(c)'
<1>1. CASE Vanish(c)
  BY <1>1, VanishKeeps
<1>2. CASE FinalFlush(c)
  <2>1. pc'[c] = "save" /\ batch'[c] = batch[c] /\ closing'[c] = TRUE
    BY <1>2 DEF FinalFlush, ProcessTypes
  <2>2. \A m \in Msgs : Settled(c, m) => Settled(c, m)'
    BY <2>1 DEF Settled, InBatch, DurableGrows
  <2>3. \A m : Before(m)' = Before(m) /\ Before(m) \subseteq Msgs
    BY DEF Before
  <2>4. BatchSettled(c)'
    BY <2>1, <2>2, <2>3 DEF ProcessInv, BatchSettled
  <2>5. CurSettled(c)' /\ PositionSettled(c)' /\ FlushedDurable(c)' /\ ClosingFlushes(c)'
    BY <2>1 DEF CurSettled, PositionSettled, FlushedDurable, ClosingFlushes
  <2> QED
    BY <2>4, <2>5 DEF ProcessInv
<1> QED
  BY <1>1, <1>2 DEF Leave

\* A process that runs the loop and polls m: what comes before m is settled.
LEMMA PollsInOrder ==
    ASSUME ConstantsAssumption, GroupTypes, NEW c \in Consumers, ProcessInv(c),
           NEW m \in Msgs, Polls(c, m)
    PROVE  \A k \in Before(m) : Settled(c, k)
<1>1. ~ closing[c] /\ pc[c] = "poll" /\ owner[m[1]] = c /\ m[2] = position[m[1]] + 1
  BY DEF ProcessInv, ClosingFlushes, Polls
<1>2. \A k \in Before(m) : k \in Msgs /\ owner[k[1]] = c
  BY <1>1 DEF Before
<1>3. \A k \in Before(m) : k[2] <= position[k[1]]
  <2> TAKE k \in Before(m)
  <2>1. k \in Msgs /\ k[1] = m[1] /\ k[2] < m[2]
    BY DEF Before
  <2>2. k[2] \in Nat /\ m[2] \in Nat /\ position[m[1]] \in Nat
    BY <2>1, MsgFacts DEF GroupTypes
  <2> QED
    BY <1>1, <2>1, <2>2
<1> QED
  BY <1>1, <1>2, <1>3 DEF ProcessInv, PositionSettled

\* Where poll leaves a process: nothing before the new position is unsettled
\* but the message it handed out.
LEMMA PollsPosition ==
    ASSUME ConstantsAssumption, GroupTypes, NEW c \in Consumers, ProcessInv(c),
           NEW m \in Msgs, Polls(c, m), owner' = owner
    PROVE  /\ ~ closing[c]
           /\ \A k \in Msgs : owner'[k[1]] = c /\ k[2] <= position'[k[1]] =>
                Settled(c, k) \/ k = m
           /\ \A d \in Consumers \ {c} : Unmoved(d)
<1>1. ~ closing[c] /\ pc[c] = "poll" /\ owner[m[1]] = c /\ m[2] = position[m[1]] + 1
  BY DEF ProcessInv, ClosingFlushes, Polls
<1>2. m[1] \in Partitions /\ position \in [Partitions -> Nat]
  BY MsgFacts DEF GroupTypes
<1>3. /\ position'[m[1]] = m[2]
      /\ \A p \in Partitions : p # m[1] => position'[p] = position[p]
  BY <1>2 DEF Polls
<1>4. ASSUME NEW k \in Msgs, owner'[k[1]] = c, k[2] <= position'[k[1]]
      PROVE  Settled(c, k) \/ k = m
  <2>1. /\ k[1] \in Partitions /\ k[2] \in Nat /\ k = <<k[1], k[2]>>
        /\ m[2] \in Nat /\ m = <<m[1], m[2]>>
    BY MsgFacts
  <2>2. CASE k[1] # m[1]
    BY <1>1, <1>3, <1>4, <2>1, <2>2 DEF ProcessInv, PositionSettled
  <2>3. CASE k[1] = m[1] /\ k[2] # m[2]
    <3>1. k \in Before(m)
      BY <1>3, <1>4, <2>1, <2>3 DEF Before
    <3> QED
      BY <3>1, PollsInOrder
  <2>4. CASE k[1] = m[1] /\ k[2] = m[2]
    BY <2>1, <2>4
  <2> QED
    BY <2>2, <2>3, <2>4
<1>5. ASSUME NEW d \in Consumers \ {c} PROVE Unmoved(d)
  BY <1>1, <1>3, MsgFacts DEF Unmoved
<1> QED
  BY <1>1, <1>4, <1>5

\* Appending a message whose predecessors are settled keeps the invariant.
LEMMA AppendKeeps ==
    ASSUME ConstantsAssumption, ProcessTypes, NEW c \in Consumers, ProcessInv(c),
           NEW e \in Entries, Append1(c, e), metricRows' = metricRows,
           closing' = closing, ~ closing[c],
           \A k \in Before(e.msg) : Settled(c, k),
           \A k \in Msgs : owner'[k[1]] = c /\ k[2] <= position'[k[1]] =>
             Settled(c, k) \/ k = e.msg
    PROVE  ProcessInv(c)'
<1>1. batch[c] \in Seq(Entries) /\ batch'[c] = Append(batch[c], e)
  BY DEF Append1, ProcessTypes
<1>2. pc'[c] \in {"save", "poll"}
  BY DEF Append1, ProcessTypes
<1>3. /\ DOMAIN batch'[c] = DOMAIN batch[c] \cup {Len(batch[c]) + 1}
      /\ \A i \in DOMAIN batch[c] : batch'[c][i] = batch[c][i]
      /\ batch'[c][Len(batch[c]) + 1] = e
  BY <1>1
<1>4. \A m : InBatch(c, m) => InBatch(c, m)'
  BY <1>3 DEF InBatch
<1>5. InBatch(c, e.msg)'
  BY <1>3 DEF InBatch
<1>6. \A m : Settled(c, m) => Settled(c, m)'
  BY <1>4 DEF Settled, Durable
<1>7. Settled(c, e.msg)'
  BY <1>5 DEF Settled
<1>8. \A m : Before(m)' = Before(m)
  BY DEF Before
<1>9. BatchSettled(c)'
  BY <1>3, <1>6, <1>8 DEF ProcessInv, BatchSettled
<1>10. PositionSettled(c)'
  BY <1>6, <1>7 DEF PositionSettled
<1>11. CurSettled(c)' /\ FlushedDurable(c)' /\ ClosingFlushes(c)'
  BY <1>2 DEF CurSettled, FlushedDurable, ClosingFlushes
<1> QED
  BY <1>9, <1>10, <1>11 DEF ProcessInv

\* Steps that store no offset keep the committed prefix durable.
LEMMA CommittedKeeps ==
    ASSUME CommittedDurable, DurableGrows, committed' = committed
    PROVE  CommittedDurable'
BY DEF CommittedDurable, DurableGrows

\* The commit of a flush covers durable messages: the last message of each
\* partition is durable, and so is all that precedes it.
LEMMA CommitKeeps ==
    ASSUME ConstantsAssumption, TypeOK, CommitInv, NEW c \in Consumers, pc[c] = "commit",
           NEW S \in SUBSET Touched(batch[c]), StoreOffsets(batch[c], S),
           metricRows' = metricRows
    PROVE  CommittedDurable'
<1>1. batch[c] \in Seq(Entries)
  BY DEF TypeOK, ProcessTypes
<1>2. ASSUME NEW k \in Msgs, k[2] <= committed'[k[1]]
      PROVE  Durable(k)
  <2>1. k[1] \in Partitions /\ k[2] \in Nat /\ k = <<k[1], k[2]>>
    BY MsgFacts
  <2>2. CASE k[1] \notin S
    BY <1>2, <2>1, <2>2 DEF StoreOffsets, CommitInv, CommittedDurable
  <2>3. CASE k[1] \in S
    <3> DEFINE b == batch[c]
               p == k[1]
    <3>1. b \in Seq(Entries) /\ p \in Touched(b) /\ committed'[p] = LastPolled(b, p)
      BY <1>1, <2>1, <2>3 DEF StoreOffsets
    <3>2. \E i \in DOMAIN b : b[i].msg[1] = p /\ LastPolled(b, p) = b[i].msg[2]
      <4> HIDE DEF b, p
      <4> QED
        BY <3>1, LastPolledIsBatched
    <3>3. PICK i \in DOMAIN batch[c] : batch[c][i].msg[1] = p /\ committed'[p] = batch[c][i].msg[2]
      BY <3>1, <3>2
    <3>4. batch[c][i].msg \in Msgs /\ Durable(batch[c][i].msg)
      BY <3>3, BatchMsgs DEF TypeOK, CommitInv, ProcessInv, FlushedDurable
    <3>5. batch[c][i].msg[2] \in Nat /\ batch[c][i].msg = <<p, batch[c][i].msg[2]>>
      BY <3>3, <3>4, MsgFacts
    <3>6. CASE k[2] = batch[c][i].msg[2]
      BY <2>1, <3>4, <3>5, <3>6
    <3>7. CASE k[2] # batch[c][i].msg[2]
      <4>1. k \in Before(batch[c][i].msg)
        BY <1>2, <2>1, <3>3, <3>5, <3>7 DEF Before
      <4>2. Settled(c, k)
        BY <3>3, <4>1 DEF CommitInv, ProcessInv, BatchSettled
      <4> QED
        BY <4>2 DEF Settled, InBatch, CommitInv, ProcessInv, FlushedDurable
    <3> QED
      BY <3>6, <3>7
  <2> QED
    BY <2>2, <2>3
<1> QED
  BY <1>2 DEF CommittedDurable, Durable

\* Only c's own variables change.
Alone(c) == \A d \in Consumers \ {c} :
              /\ pc'[d] = pc[d] /\ batch'[d] = batch[d]
              /\ cur'[d] = cur[d] /\ closing'[d] = closing[d]

\* Where c alone moves, the invariant is c's business.
LEMMA OthersKeep ==
    ASSUME ProcessTypes, CommitInv, NEW c \in Consumers, Alone(c), DurableGrows,
           \A d \in Consumers \ {c} : Unmoved(d),
           CommittedDurable', ProcessInv(c)'
    PROVE  CommitInv'
<1>1. ASSUME NEW d \in Consumers \ {c} PROVE ProcessInv(d)'
  BY <1>1, IdleKeeps DEF Alone, CommitInv
<1> QED
  BY <1>1 DEF CommitInv

\* A step that leaves the loop, or that ends the process, touches nobody else.
LEMMA LeaveAlone ==
    ASSUME ConstantsAssumption, GroupTypes, ProcessTypes, NEW c \in Consumers,
           Vanish(c) \/ Leave(c)
    PROVE  /\ Alone(c)
           /\ position' = position => \A d \in Consumers \ {c} : Unmoved(d)
           /\ \A m \in Msgs, d \in Consumers : owner'[m[1]] = d => owner[m[1]] = d
<1>1. CASE FinalFlush(c)
  BY <1>1 DEF FinalFlush, Alone, Unmoved, ProcessTypes
<1>2. CASE Vanish(c)
  <2>1. Alone(c)
    BY <1>2 DEF Vanish, Alone, ProcessTypes
  <2>2. \A m \in Msgs, d \in Consumers : owner'[m[1]] = d => owner[m[1]] = d
    <3> TAKE m \in Msgs, d \in Consumers
    <3>1. owner'[m[1]] = IF owner[m[1]] = c THEN NoOne ELSE owner[m[1]]
      BY <1>2, MsgFacts DEF Vanish
    <3> QED
      BY <3>1 DEF ConstantsAssumption
  <2> QED
    BY <2>1, <2>2 DEF Unmoved
<1> QED
  BY <1>1, <1>2 DEF Leave

\* Steps that end in the `finally` block or in the death of the process and
\* neither poll nor commit.
LEMMA LeaveStep ==
    ASSUME ConstantsAssumption, TypeOK, CommitInv, NEW c \in Consumers,
           Vanish(c) \/ Leave(c), DurableGrows, position' = position, committed' = committed
    PROVE  CommitInv'
<1> USE DEF TypeOK
<1>1. ProcessInv(c)'
  BY LeaveKeeps, VanishKeeps DEF CommitInv
<1>2. CommittedDurable'
  BY CommittedKeeps DEF CommitInv
<1> QED
  BY <1>1, <1>2, LeaveAlone, OthersKeep

\* Nothing is committed, batched or polled at first.
LEMMA CommitInit == ASSUME ConstantsAssumption, Init PROVE CommitInv
<1>1. CommittedDurable
  BY MsgFacts DEF Init, CommittedDurable
<1>2. ASSUME NEW c \in Consumers PROVE ProcessInv(c)
  <2>1. batch[c] = <<>> /\ pc[c] = "down" /\ closing[c] = FALSE
    BY DEF Init
  <2>2. BatchSettled(c) /\ FlushedDurable(c)
    BY <2>1 DEF BatchSettled, FlushedDurable
  <2>3. PositionSettled(c)
    BY MsgFacts DEF Init, PositionSettled
  <2> QED
    BY <2>1, <2>2, <2>3 DEF ProcessInv, CurSettled, ClosingFlushes
<1> QED
  BY <1>1, <1>2 DEF CommitInv

\* Every step of the group keeps what is committed, and what may still be
\* committed, durable.
LEMMA CommitStep ==
    ASSUME ConstantsAssumption, TypeOK, TypeOK', CommitInv, [Next]_vars
    PROVE  CommitInv'
<1> USE DEF group, local, saved, audit
<1>1. ASSUME metricRows' = metricRows PROVE DurableGrows
  BY <1>1 DEF DurableGrows, Durable
<1>2. ASSUME NEW c \in Consumers PROVE ProcessInv(c)
  BY DEF CommitInv
<1>3. ASSUME UNCHANGED group, NEW c \in Consumers PROVE Unmoved(c)
  BY <1>3 DEF Unmoved
<1>4. CASE Rebalance
  <2>1. DurableGrows /\ committed' = committed /\ position' = committed /\ UNCHANGED local
    BY <1>1, <1>4 DEF Rebalance
  <2>2. ASSUME NEW c \in Consumers PROVE ProcessInv(c)'
    <3>1. \A m \in Msgs : Settled(c, m) => Settled(c, m)'
      BY <2>1 DEF Settled, InBatch, DurableGrows
    <3>2. \A m : Before(m)' = Before(m) /\ Before(m) \subseteq Msgs
      BY DEF Before
    <3>3. BatchSettled(c)' /\ CurSettled(c)'
      BY <1>2, <2>1, <3>1, <3>2 DEF ProcessInv, BatchSettled, CurSettled
    <3>4. PositionSettled(c)'
      BY <2>1, <3>1 DEF PositionSettled, CommitInv, CommittedDurable, Settled
    <3>5. FlushedDurable(c)' /\ ClosingFlushes(c)'
      BY <1>2, <2>1, BatchMsgs DEF ProcessInv, FlushedDurable, ClosingFlushes,
           DurableGrows, TypeOK
    <3> QED
      BY <3>3, <3>4, <3>5 DEF ProcessInv
  <2> QED
    BY <2>1, <2>2, CommittedKeeps DEF CommitInv
<1>5. ASSUME NEW c \in Consumers, NEW S \in SUBSET Touched(batch[c]),
              StoreOffsets(batch[c], S), pc[c] = "commit",
              pc' = [pc EXCEPT ![c] = "alert"],
              UNCHANGED <<owner, position, batch, cur, closing, metricRows>>
       PROVE  CommitInv'
  <2>1. CommittedDurable'
    BY <1>5, CommitKeeps
  <2>2. DurableGrows /\ Alone(c) /\ \A d \in Consumers : Unmoved(d)
    BY <1>1, <1>5 DEF Alone, Unmoved, TypeOK, ProcessTypes
  <2>3. pc'[c] = "alert" /\ batch' = batch /\ closing' = closing
    BY <1>5 DEF TypeOK, ProcessTypes
  <2>4. FlushedDurable(c)' /\ ClosingFlushes(c)'
    BY <1>2, <1>5, <2>3, BatchMsgs
       DEF ProcessInv, FlushedDurable, ClosingFlushes, Durable, TypeOK
  <2> QED
    BY <1>2, <1>5, <2>1, <2>2, <2>3, <2>4, MoveKeeps, OthersKeep DEF TypeOK
<1>6. ASSUME NEW c \in Consumers,
              UNCHANGED <<owner, position, committed, pc, batch, cur, closing, metricRows>>
       PROVE  CommitInv'
  <2>1. DurableGrows /\ \A d \in Consumers : Unmoved(d)
    BY <1>1, <1>6 DEF Unmoved
  <2> QED
    BY <1>2, <1>6, <2>1, IdleKeeps, CommittedKeeps DEF TypeOK, CommitInv
<1>7. ASSUME NEW c \in Consumers, Work(c) PROVE CommitInv'
  <2>1. CASE Start(c)
    <3>1. DurableGrows /\ Unmoved(c) /\ Alone(c) /\ \A d \in Consumers \ {c} : Unmoved(d)
      BY <1>1, <1>3, <2>1 DEF Start, Alone, TypeOK, ProcessTypes
    <3>2. /\ pc[c] = "down" /\ pc'[c] = "poll"
          /\ batch'[c] = batch[c] /\ closing'[c] = closing[c] /\ committed' = committed
      BY <2>1 DEF Start, TypeOK, ProcessTypes
    <3>3. FlushedDurable(c)' /\ ClosingFlushes(c)'
      BY <1>2, <3>2 DEF ProcessInv, FlushedDurable, ClosingFlushes
    <3> QED
      BY <1>2, <3>1, <3>2, <3>3, MoveKeeps, CommittedKeeps, OthersKeep DEF TypeOK, CommitInv
  <2>2. CASE PollValid(c)
    <3>1. PICK m \in Msgs : /\ Polls(c, m) /\ Accepted(m)
                            /\ cur' = [cur EXCEPT ![c] = m]
      BY <2>2 DEF PollValid
    <3>2. /\ pc'[c] = "score" /\ cur'[c] = m /\ batch' = batch /\ closing' = closing
          /\ Alone(c) /\ DurableGrows /\ committed' = committed /\ owner' = owner
      BY <1>1, <2>2, <3>1 DEF PollValid, TypeOK, ProcessTypes, Alone
    <3>3. /\ ~ closing[c]
          /\ \A k \in Msgs : owner'[k[1]] = c /\ k[2] <= position'[k[1]] =>
               Settled(c, k) \/ k = m
          /\ \A d \in Consumers \ {c} : Unmoved(d)
      BY <1>2, <3>1, <3>2, PollsPosition DEF TypeOK
    <3>4. \A k \in Before(m) : Settled(c, k)
      BY <1>2, <3>1, PollsInOrder DEF TypeOK
    <3>5. /\ \A k \in Msgs : Settled(c, k) => Settled(c, k)'
          /\ \A k : Before(k)' = Before(k) /\ Before(k) \subseteq Msgs
      BY <3>2 DEF Settled, InBatch, DurableGrows, Before
    <3>6. BatchSettled(c)'
      BY <1>2, <3>2, <3>5 DEF ProcessInv, BatchSettled
    <3>7. CurSettled(c)'
      BY <3>1, <3>2, <3>4, <3>5 DEF CurSettled, Event
    <3>8. PositionSettled(c)'
      BY <3>2, <3>3, <3>5 DEF PositionSettled
    <3>9. FlushedDurable(c)' /\ ClosingFlushes(c)'
      BY <3>2, <3>3 DEF FlushedDurable, ClosingFlushes
    <3> QED
      BY <3>2, <3>3, <3>6, <3>7, <3>8, <3>9, CommittedKeeps, OthersKeep
         DEF ProcessInv, TypeOK, CommitInv
  <2>3. CASE PollRejected(c)
    <3> DEFINE e(m) == [msg |-> m, kind |-> "rejected"]
    <3>1. PICK m \in Msgs : Polls(c, m) /\ Append1(c, e(m))
      BY <2>3 DEF PollRejected
    <3>2. e(m) \in Entries /\ e(m).msg = m
      BY DEF Entries
    <3>3. /\ closing' = closing /\ owner' = owner /\ metricRows' = metricRows
          /\ Alone(c) /\ DurableGrows /\ committed' = committed
      BY <1>1, <2>3, <3>1 DEF PollRejected, Append1, TypeOK, ProcessTypes, Alone
    <3> HIDE DEF e
    <3>4. /\ ~ closing[c]
          /\ \A k \in Msgs : owner'[k[1]] = c /\ k[2] <= position'[k[1]] =>
               Settled(c, k) \/ k = m
          /\ \A d \in Consumers \ {c} : Unmoved(d)
      BY <1>2, <3>1, <3>3, PollsPosition DEF TypeOK
    <3>5. \A k \in Before(m) : Settled(c, k)
      BY <1>2, <3>1, PollsInOrder DEF TypeOK
    <3>6. ProcessInv(c)'
      BY <1>2, <3>1, <3>2, <3>3, <3>4, <3>5, AppendKeeps DEF TypeOK
    <3> QED
      BY <3>3, <3>4, <3>6, CommittedKeeps, OthersKeep DEF TypeOK, CommitInv
  <2>4. CASE PollTombstone(c)
    <3>1. PICK m \in Msgs : Polls(c, m)
      BY <2>4 DEF PollTombstone
    <3>2. Leave(c) /\ DurableGrows /\ committed' = committed
      BY <1>1, <2>4 DEF PollTombstone
    <3>3. \A d \in Consumers \ {c} : Unmoved(d)
      <4> TAKE d \in Consumers \ {c}
      <4>1. \A k \in Msgs : owner'[k[1]] = d => owner[k[1]] = d
        BY <3>2, LeaveAlone DEF TypeOK
      <4>2. \A k \in Msgs : owner[k[1]] = d => position'[k[1]] = position[k[1]]
        BY <3>1, MsgFacts DEF Polls, TypeOK, GroupTypes
      <4> QED
        BY <4>1, <4>2 DEF Unmoved
    <3> QED
      BY <1>2, <3>2, <3>3, LeaveAlone, LeaveKeeps, CommittedKeeps, OthersKeep
         DEF TypeOK, CommitInv
  <2>5. CASE TimedFlush(c)
    <3>1. DurableGrows /\ Unmoved(c) /\ Alone(c) /\ \A d \in Consumers \ {c} : Unmoved(d)
      BY <1>1, <1>3, <2>5 DEF TimedFlush, Alone, TypeOK, ProcessTypes
    <3>2. /\ pc[c] = "poll" /\ pc'[c] = "save"
          /\ batch'[c] = batch[c] /\ closing'[c] = closing[c] /\ committed' = committed
      BY <2>5 DEF TimedFlush, TypeOK, ProcessTypes
    <3>3. FlushedDurable(c)' /\ ClosingFlushes(c)'
      BY <3>2 DEF FlushedDurable, ClosingFlushes
    <3> QED
      BY <1>2, <3>1, <3>2, <3>3, MoveKeeps, CommittedKeeps, OthersKeep DEF TypeOK, CommitInv
  <2>6. CASE ScoreSucceeds(c)
    <3> DEFINE e(s) == [msg |-> cur[c], kind |-> "scored", score |-> s]
    <3>1. PICK s \in Scores : Append1(c, e(s))
      BY <2>6 DEF ScoreSucceeds
    <3>2. pc[c] = "score" /\ cur[c] \in Msgs
      BY <2>6 DEF ScoreSucceeds, TypeOK, ProcessTypes
    <3>3. e(s) \in Entries /\ e(s).msg = cur[c]
      BY <3>2 DEF Entries
    <3>4. /\ closing' = closing /\ metricRows' = metricRows /\ UNCHANGED group
          /\ Alone(c) /\ DurableGrows
      BY <1>1, <2>6, <3>1 DEF ScoreSucceeds, Append1, TypeOK, ProcessTypes, Alone
    <3> HIDE DEF e
    <3>5. /\ ~ closing[c]
          /\ \A k \in Before(cur[c]) : Settled(c, k)
          /\ \A k \in Msgs : owner[k[1]] = c /\ k[2] <= position[k[1]] =>
               Settled(c, k) \/ k = cur[c]
      BY <1>2, <3>2 DEF ProcessInv, ClosingFlushes, CurSettled, PositionSettled
    <3>6. ProcessInv(c)'
      BY <1>2, <3>1, <3>3, <3>4, <3>5, AppendKeeps DEF TypeOK
    <3> QED
      BY <1>3, <3>4, <3>6, CommittedKeeps, OthersKeep DEF TypeOK, CommitInv
  <2>7. CASE SaveCommits(c)
    <3>1. batch[c] \in Seq(Entries) /\ SaveBatch(batch[c])
      BY <2>7 DEF SaveCommits, TypeOK, ProcessTypes
    <3>2. DurableGrows /\ \A i \in DOMAIN batch[c] : metricRows'[batch[c][i].msg] > 0
      BY <3>1, SaveBatchCounts DEF TypeOK, DurableGrows, Durable
    <3>3. Unmoved(c) /\ Alone(c) /\ \A d \in Consumers \ {c} : Unmoved(d)
      BY <1>3, <2>7 DEF SaveCommits, Alone, TypeOK, ProcessTypes
    <3>4. /\ pc[c] = "save" /\ pc'[c] = "commit"
          /\ batch'[c] = batch[c] /\ closing'[c] = closing[c] /\ committed' = committed
      BY <2>7 DEF SaveCommits, TypeOK, ProcessTypes
    <3>5. FlushedDurable(c)' /\ ClosingFlushes(c)'
      BY <3>2, <3>4 DEF FlushedDurable, ClosingFlushes, Durable
    <3> QED
      BY <1>2, <3>2, <3>3, <3>4, <3>5, MoveKeeps, CommittedKeeps, OthersKeep
         DEF TypeOK, CommitInv
  <2>8. CASE SaveRefused(c)
    <3>1. Leave(c) /\ DurableGrows /\ position' = position /\ committed' = committed
      BY <1>1, <2>8 DEF SaveRefused
    <3> QED
      BY <3>1, LeaveStep
  <2>9. CASE CommitReturns(c)
    <3>1. StoreOffsets(batch[c], Touched(batch[c])) /\ metricRows' = metricRows
      BY <2>9 DEF CommitReturns
    <3> QED
      BY <1>5, <2>9, <3>1 DEF CommitReturns
  <2>10. CASE AlertNotDue(c)
    BY <1>6, <2>10 DEF AlertNotDue
  <2>11. CASE AlertSent(c)
    BY <1>6, <2>11 DEF AlertSent
  <2>12. CASE FlushEnds(c)
    <3>1. CASE Vanish(c)
      <4>1. DurableGrows /\ position' = position /\ committed' = committed
        BY <1>1, <2>12 DEF FlushEnds
      <4> QED
        BY <3>1, <4>1, LeaveStep
    <3>2. CASE /\ ~ closing[c]
               /\ pc' = [pc EXCEPT ![c] = "poll"]
               /\ batch' = [batch EXCEPT ![c] = <<>>]
               /\ UNCHANGED <<cur, closing, owner>>
      <4>1. /\ DurableGrows /\ position' = position /\ committed' = committed
            /\ pc[c] = "alert" /\ pc'[c] = "poll" /\ batch'[c] = <<>> /\ closing' = closing
            /\ Alone(c) /\ \A d \in Consumers : Unmoved(d)
        BY <1>1, <2>12, <3>2 DEF FlushEnds, Alone, Unmoved, TypeOK, ProcessTypes
      <4>2. DOMAIN batch'[c] = {}
        BY <4>1
      <4>3. BatchSettled(c)' /\ FlushedDurable(c)' /\ CurSettled(c)' /\ ClosingFlushes(c)'
        BY <3>2, <4>1, <4>2 DEF BatchSettled, FlushedDurable, CurSettled, ClosingFlushes
      <4>4. \A m \in Msgs : Settled(c, m) => Durable(m)'
        BY <1>2, <4>1, BatchMsgs
           DEF ProcessInv, FlushedDurable, Settled, InBatch, DurableGrows, TypeOK
      <4>5. PositionSettled(c)'
        BY <1>2, <3>2, <4>1, <4>4 DEF ProcessInv, PositionSettled, Unmoved, Settled
      <4> QED
        BY <4>1, <4>3, <4>5, CommittedKeeps, OthersKeep DEF ProcessInv, TypeOK, CommitInv
    <3> QED
      BY <2>12, <3>1, <3>2 DEF FlushEnds
  <2> QED
    BY <1>7, <2>1, <2>2, <2>3, <2>4, <2>5, <2>6, <2>7, <2>8, <2>9, <2>10, <2>11, <2>12 DEF Work
<1>8. ASSUME NEW c \in Consumers, Failure(c) PROVE CommitInv'
  <2>1. CASE Stop(c) \/ Crash(c) \/ ScoreRaises(c) \/ AlertMetricRaises(c)
    <3>1. (Vanish(c) \/ Leave(c)) /\ DurableGrows /\ position' = position
             /\ committed' = committed
      BY <1>1, <2>1 DEF Stop, Crash, ScoreRaises, AlertMetricRaises
    <3> QED
      BY <3>1, LeaveStep
  <2>2. CASE ScoreRetries(c)
    BY <1>6, <2>2 DEF ScoreRetries
  <2>3. CASE SaveRaises(c)
    <3>1. DurableGrows
      BY <1>1, <2>3, SaveBatchCounts
         DEF SaveRaises, TypeOK, ProcessTypes, DurableGrows, Durable
    <3>2. Leave(c) /\ position' = position /\ committed' = committed
      BY <2>3 DEF SaveRaises
    <3> QED
      BY <3>1, <3>2, LeaveStep
  <2>4. CASE CommitReturnsPartly(c)
    <3>1. PICK S \in SUBSET Touched(batch[c]) : StoreOffsets(batch[c], S)
      BY <2>4 DEF CommitReturnsPartly
    <3> QED
      BY <1>5, <2>4, <3>1 DEF CommitReturnsPartly
  <2>5. CASE CommitRaises(c)
    <3>1. PICK S \in SUBSET Touched(batch[c]) : StoreOffsets(batch[c], S)
      BY <2>5 DEF CommitRaises
    <3>2. CommittedDurable' /\ DurableGrows
      BY <1>1, <2>5, <3>1, CommitKeeps DEF CommitRaises
    <3>3. Leave(c) /\ position' = position
      BY <2>5 DEF CommitRaises
    <3> QED
      BY <1>2, <3>2, <3>3, LeaveAlone, LeaveKeeps, OthersKeep DEF TypeOK
  <2>6. CASE AlertPostFails(c)
    BY <1>6, <2>6 DEF AlertPostFails
  <2> QED
    BY <1>8, <2>1, <2>2, <2>3, <2>4, <2>5, <2>6 DEF Failure
<1>9. CASE UNCHANGED vars
  <2>1. /\ UNCHANGED <<group, batch, pc, cur, closing>> /\ metricRows' = metricRows
        /\ committed' = committed
    BY <1>9 DEF vars
  <2>2. DurableGrows /\ \A c \in Consumers : Unmoved(c)
    BY <1>1, <1>3, <2>1
  <2> QED
    BY <1>2, <2>1, <2>2, IdleKeeps, CommittedKeeps DEF TypeOK, CommitInv
<1> QED
  BY <1>4, <1>7, <1>8, <1>9 DEF Next

\* For every log, group, batch size and schedule of failures, a committed
\* offset covers only messages whose metrics row, and with it the whole
\* transaction of save_batch, PostgreSQL holds (consumer/main.py:142-148).
THEOREM CommitSafe == Spec => []CommitInv
<1>1. Init => TypeOK /\ CommitInv
  BY TypeInit, CommitInit, ConstantsAssumption
<1>2. TypeOK /\ CommitInv /\ [Next]_vars => TypeOK' /\ CommitInv'
  BY TypeStep, CommitStep, ConstantsAssumption
<1> QED
  BY <1>1, <1>2, PTL DEF Spec

-----------------------------------------------------------------------------
(* The consumer implements the at-least-once contract.                     *)

\* Recording and acknowledging are never one step, and nothing recorded is
\* ever lost.
LEMMA RecordsOrCommits ==
    ASSUME ConstantsAssumption, TypeOK, [Next]_vars
    PROVE  DurableGrows /\ (metricRows' = metricRows \/ committed' = committed)
<1> USE DEF group, saved
<1>1. ASSUME metricRows' = metricRows PROVE DurableGrows
  BY <1>1 DEF DurableGrows, Durable
<1>2. ASSUME NEW c \in Consumers, SaveBatch(batch[c]) PROVE DurableGrows
  BY <1>2, SaveBatchCounts DEF TypeOK, ProcessTypes, DurableGrows, Durable
<1>3. CASE Rebalance
  BY <1>1, <1>3 DEF Rebalance
<1>4. ASSUME NEW c \in Consumers, Work(c)
      PROVE  DurableGrows /\ (metricRows' = metricRows \/ committed' = committed)
  <2>1. CASE SaveCommits(c)
    BY <1>2, <2>1 DEF SaveCommits
  <2>2. CASE ~ SaveCommits(c)
    <3>1. metricRows' = metricRows
      BY <1>4, <2>2 DEF Work, Start, PollValid, PollRejected, PollTombstone, TimedFlush,
           ScoreSucceeds, SaveRefused, CommitReturns, AlertNotDue, AlertSent, FlushEnds
    <3> QED
      BY <1>1, <3>1
  <2> QED
    BY <2>1, <2>2
<1>5. ASSUME NEW c \in Consumers, Failure(c)
      PROVE  DurableGrows /\ (metricRows' = metricRows \/ committed' = committed)
  <2>1. CASE SaveRaises(c)
    BY <1>1, <1>2, <2>1 DEF SaveRaises
  <2>2. CASE ~ SaveRaises(c)
    <3>1. metricRows' = metricRows
      BY <1>5, <2>2 DEF Failure, Stop, Crash, ScoreRetries, ScoreRaises,
           CommitReturnsPartly, CommitRaises, AlertPostFails, AlertMetricRaises
    <3> QED
      BY <1>1, <3>1
  <2> QED
    BY <2>1, <2>2
<1>6. CASE UNCHANGED vars
  BY <1>1, <1>6 DEF vars
<1> QED
  BY <1>3, <1>4, <1>5, <1>6 DEF Next

\* Every behaviour of the consumer group is one of AtLeastOnce: outcomes are
\* recorded for ever, and only recorded messages are acknowledged
\* (docs/scope.md, criteria 2 and 3).
THEOREM RefinesAtLeastOnce == Spec => ImplementsAtLeastOnce
<1>1. Init => Ingest!Init
  BY DEF Init, Ingest!Init
<1>2. TypeOK /\ TypeOK' /\ CommitInv' /\ [Next]_vars =>
        [Ingest!Next]_<<{m \in Msgs : metricRows[m] > 0}, committed>>
  <2> SUFFICES ASSUME TypeOK, TypeOK', CommitInv', [Next]_vars
               PROVE  Ingest!Record \/ Ingest!Acknowledge
    BY DEF Ingest!Next
  <2>1. DurableGrows /\ (metricRows' = metricRows \/ committed' = committed)
    BY RecordsOrCommits, ConstantsAssumption
  <2>2. CASE committed' = committed
    BY <2>1, <2>2 DEF Ingest!Record, DurableGrows, Durable
  <2>3. CASE metricRows' = metricRows
    <3>1. committed' \in [Partitions -> Nat]
      BY DEF TypeOK, GroupTypes
    <3>2. \A m \in Msgs : m[2] <= committed'[m[1]] => metricRows[m] > 0
      BY <2>3 DEF CommitInv, CommittedDurable, Durable
    <3> QED
      BY <2>3, <3>1, <3>2 DEF Ingest!Acknowledge, Ingest!Covered
  <2> QED
    BY <2>1, <2>2, <2>3
<1> QED
  BY <1>1, <1>2, TypeCorrect, CommitSafe, PTL DEF Spec, ImplementsAtLeastOnce, Ingest!Spec

-----------------------------------------------------------------------------
(***************************************************************************)
(* What the flushes leave behind.                                          *)
(***************************************************************************)

\* What the upsert leaves for each transaction of the batch: the row of the
\* last entry that scores it, and no other.
LEMMA UpsertedFacts ==
    ASSUME ConstantsAssumption, TableTypes, NEW b \in Seq(Entries)
    PROVE  /\ \A i \in ScoredIn(b) : \E r \in Upserted(b) : r.txn = TxnAt(b, i)
           /\ \A r \in scored : \E q \in Upserted(b) : q.txn = r.txn
<1> DEFINE Same(i) == {j \in ScoredIn(b) : TxnAt(b, j) = TxnAt(b, i)}
           Row(i) == [txn |-> TxnAt(b, i), src |-> b[i].msg, version |-> VersionAt(b, i)]
<1>1. ASSUME NEW i \in ScoredIn(b)
      PROVE  \E r \in Upserted(b) : r.txn = TxnAt(b, i)
  <2>1. Same(i) \in SUBSET (1 .. Len(b)) /\ Same(i) # {} /\ Len(b) \in Nat
    BY DEF ScoredIn
  <2>2. PICK l \in Same(i) : \A j \in Same(i) : j <= l
    <3> HIDE DEF Same
    <3> QED
      BY <2>1, LastIndex
  <2>3. l \in ScoredIn(b) /\ TxnAt(b, l) = TxnAt(b, i)
    BY <2>2
  <2>4. \A j \in ScoredIn(b) : TxnAt(b, j) = TxnAt(b, l) => j <= l
    BY <2>2, <2>3
  <2>5. Row(l) \in Upserted(b)
    BY <2>3, <2>4 DEF Upserted
  <2>6. Row(l).txn = TxnAt(b, i)
    BY <2>3
  <2> QED
    BY <2>5, <2>6
<1>2. ASSUME NEW r \in scored PROVE \E q \in Upserted(b) : q.txn = r.txn
  <2>1. CASE \E i \in ScoredIn(b) : TxnAt(b, i) = r.txn
    BY <1>1, <2>1
  <2>2. CASE \A i \in ScoredIn(b) : TxnAt(b, i) # r.txn
    BY <2>2 DEF Upserted
  <2> QED
    BY <2>1, <2>2
<1> QED
  BY <1>1, <1>2

\* What the outbox inserts leave: nothing is lost, and every scored entry of
\* the batch finds a row under its key.
LEMMA AnnouncedFacts ==
    ASSUME ConstantsAssumption, TableTypes, NEW b \in Seq(Entries)
    PROVE  /\ outScored \subseteq Announced(b)
           /\ \A i \in ScoredIn(b) : \E o \in Announced(b) :
                o.txn = TxnAt(b, i) /\ o.version = VersionAt(b, i)
<1> DEFINE Same(i) == {j \in ScoredIn(b) : SameKey(b, i, j)}
           Row(i) == [txn |-> TxnAt(b, i), version |-> VersionAt(b, i), src |-> b[i].msg]
<1>1. outScored \subseteq Announced(b)
  BY DEF Announced
<1>2. ASSUME NEW i \in ScoredIn(b)
      PROVE  \E o \in Announced(b) : o.txn = TxnAt(b, i) /\ o.version = VersionAt(b, i)
  <2>1. CASE \E o \in outScored : o.txn = TxnAt(b, i) /\ o.version = VersionAt(b, i)
    BY <1>1, <2>1
  <2>2. CASE \A o \in outScored : ~ (o.txn = TxnAt(b, i) /\ o.version = VersionAt(b, i))
    <3>1. Same(i) \in SUBSET Nat /\ Same(i) # {}
      BY DEF ScoredIn, SameKey
    <3>2. PICK f \in Same(i) : \A j \in Same(i) : f <= j
      <4> HIDE DEF Same
      <4> QED
        BY <3>1, FirstIndex
    <3>3. f \in ScoredIn(b) /\ TxnAt(b, f) = TxnAt(b, i) /\ VersionAt(b, f) = VersionAt(b, i)
      BY <3>2 DEF SameKey
    <3>4. \A j \in ScoredIn(b) : SameKey(b, f, j) => f <= j
      BY <3>2, <3>3 DEF SameKey
    <3>5. Row(f) \in Announced(b)
      BY <2>2, <3>3, <3>4 DEF Announced
    <3>6. Row(f).txn = TxnAt(b, i) /\ Row(f).version = VersionAt(b, i)
      BY <3>3
    <3> QED
      BY <3>5, <3>6
  <2> QED
    BY <2>1, <2>2
<1> QED
  BY <1>1, <1>2

\* An announced row is old, or that of a scored entry of the batch.
LEMMA AnnouncedOrigin ==
    ASSUME NEW b \in Seq(Entries), NEW o \in Announced(b)
    PROVE  \/ o \in outScored
           \/ \E i \in ScoredIn(b) :
                /\ o.txn = TxnAt(b, i) /\ o.version = VersionAt(b, i) /\ o.src = b[i].msg
                /\ o = [txn |-> TxnAt(b, i), version |-> VersionAt(b, i), src |-> b[i].msg]
                /\ \A j \in ScoredIn(b) : SameKey(b, i, j) => i <= j
                /\ \A r \in outScored : ~ (/\ r.txn = TxnAt(b, i)
                                           /\ r.version = VersionAt(b, i))
BY DEF Announced

\* A row of the upserted table is an untouched one, or a last entry's.
LEMMA UpsertedOrigin ==
    ASSUME NEW b \in Seq(Entries), NEW r \in Upserted(b)
    PROVE  \/ r \in scored /\ \A i \in ScoredIn(b) : TxnAt(b, i) # r.txn
           \/ \E i \in ScoredIn(b) :
                /\ r.txn = TxnAt(b, i) /\ r.version = VersionAt(b, i) /\ r.src = b[i].msg
                /\ r = [txn |-> TxnAt(b, i), src |-> b[i].msg, version |-> VersionAt(b, i)]
                /\ \A j \in ScoredIn(b) : TxnAt(b, j) = TxnAt(b, i) => j <= i
BY DEF Upserted

-----------------------------------------------------------------------------
\* One transaction keeps the keys of both tables unique.
LEMMA KeysStep ==
    ASSUME ConstantsAssumption, TableTypes, KeysAreUnique, NEW b \in Seq(Entries), SaveBatch(b)
    PROVE  KeysAreUnique'
<1>1. scored' = Upserted(b) /\ outScored' = Announced(b)
  BY DEF SaveBatch
<1>2. \A i, j \in ScoredIn(b) : i \in Int /\ j \in Int
  BY DEF ScoredIn
<1>3. ASSUME NEW r1 \in Upserted(b), NEW r2 \in Upserted(b), r1.txn = r2.txn
      PROVE  r1 = r2
  <2>1. CASE r1 \in scored /\ r2 \in scored
    BY <1>3, <2>1 DEF KeysAreUnique
  <2>2. CASE r1 \notin scored \/ r2 \notin scored
    <3>1. \E i \in ScoredIn(b) : TxnAt(b, i) = r1.txn
      BY <1>3, <2>2, UpsertedOrigin
    <3>2. PICK i \in ScoredIn(b) :
            /\ r1 = [txn |-> TxnAt(b, i), src |-> b[i].msg, version |-> VersionAt(b, i)]
            /\ r1.txn = TxnAt(b, i)
            /\ \A j \in ScoredIn(b) : TxnAt(b, j) = TxnAt(b, i) => j <= i
      BY <3>1, UpsertedOrigin
    <3>3. PICK j \in ScoredIn(b) :
            /\ r2 = [txn |-> TxnAt(b, j), src |-> b[j].msg, version |-> VersionAt(b, j)]
            /\ r2.txn = TxnAt(b, j)
            /\ \A k \in ScoredIn(b) : TxnAt(b, k) = TxnAt(b, j) => k <= j
      BY <1>3, <3>1, UpsertedOrigin
    <3>4. i <= j /\ j <= i
      BY <1>3, <3>2, <3>3
    <3>5. i = j
      BY <1>2, <3>4
    <3> QED
      BY <3>2, <3>3, <3>5
  <2> QED
    BY <2>1, <2>2
<1>4. ASSUME NEW o1 \in Announced(b), NEW o2 \in Announced(b),
             o1.txn = o2.txn, o1.version = o2.version
      PROVE  o1 = o2
  <2>1. CASE o1 \in outScored /\ o2 \in outScored
    BY <1>4, <2>1 DEF KeysAreUnique
  <2>2. CASE o1 \notin outScored /\ o2 \notin outScored
    <3>1. PICK i \in ScoredIn(b) :
            /\ o1 = [txn |-> TxnAt(b, i), version |-> VersionAt(b, i), src |-> b[i].msg]
            /\ o1.txn = TxnAt(b, i) /\ o1.version = VersionAt(b, i)
            /\ \A j \in ScoredIn(b) : SameKey(b, i, j) => i <= j
      BY <2>2, AnnouncedOrigin
    <3>2. PICK j \in ScoredIn(b) :
            /\ o2 = [txn |-> TxnAt(b, j), version |-> VersionAt(b, j), src |-> b[j].msg]
            /\ o2.txn = TxnAt(b, j) /\ o2.version = VersionAt(b, j)
            /\ \A k \in ScoredIn(b) : SameKey(b, j, k) => j <= k
      BY <2>2, AnnouncedOrigin
    <3>3. SameKey(b, i, j) /\ SameKey(b, j, i)
      BY <1>4, <3>1, <3>2 DEF SameKey
    <3>4. i <= j /\ j <= i
      BY <3>1, <3>2, <3>3
    <3>5. i = j
      BY <1>2, <3>4
    <3> QED
      BY <3>1, <3>2, <3>5
  <2>3. CASE o1 \in outScored /\ o2 \notin outScored
    BY <1>4, <2>3, AnnouncedOrigin
  <2>4. CASE o1 \notin outScored /\ o2 \in outScored
    BY <1>4, <2>4, AnnouncedOrigin
  <2> QED
    BY <2>1, <2>2, <2>3, <2>4
<1> QED
  BY <1>1, <1>3, <1>4 DEF KeysAreUnique

\* One transaction announces what it decides.
LEMMA AnnouncementStep ==
    ASSUME ConstantsAssumption, TableTypes, DecisionsAreAnnounced,
           NEW b \in Seq(Entries), SaveBatch(b)
    PROVE  DecisionsAreAnnounced'
<1>1. scored' = Upserted(b) /\ outScored' = Announced(b)
  BY DEF SaveBatch
<1>2. ASSUME NEW r \in Upserted(b)
      PROVE  \E o \in Announced(b) : o.txn = r.txn /\ o.version = r.version
  <2>1. CASE r \in scored
    BY <2>1, AnnouncedFacts DEF DecisionsAreAnnounced
  <2>2. CASE r \notin scored
    <3>1. PICK i \in ScoredIn(b) : r.txn = TxnAt(b, i) /\ r.version = VersionAt(b, i)
      BY <2>2, UpsertedOrigin
    <3> QED
      BY <3>1, AnnouncedFacts
  <2> QED
    BY <2>1, <2>2
<1> QED
  BY <1>1, <1>2 DEF DecisionsAreAnnounced

\* How one transaction counts rows: dead letters and metrics of a message
\* that is not valid grow by the same number, and rows appear for the
\* messages of the batch only.
LEMMA SaveBatchRows ==
    ASSUME ConstantsAssumption, TableTypes, NEW b \in Seq(Entries), EntriesMatch(b), SaveBatch(b)
    PROVE  /\ \A m \in Msgs : ~ Accepted(m) /\ rejections[m] = metricRows[m] =>
                rejections'[m] = metricRows'[m]
           /\ \A m \in Msgs : metricRows'[m] > 0 =>
                metricRows[m] > 0 \/ \E i \in DOMAIN b : b[i].msg = m
           /\ \A m \in Msgs : rejections[m] > 0 => rejections'[m] > 0
<1> DEFINE N(m) == Cardinality(Copies(b, m))
           D(m) == Cardinality(Copies(b, m) \cap RejectedIn(b))
<1>1. \A m \in Msgs : N(m) \in Nat /\ D(m) \in Nat
  BY CopiesCount
<1>2. ASSUME NEW m \in Msgs, ~ Accepted(m) PROVE D(m) = N(m)
  <2>1. \A i \in DOMAIN b : b[i].kind \in {"scored", "rejected"}
    BY DEF Entries
  <2>2. Copies(b, m) \subseteq RejectedIn(b)
    BY <1>2, <2>1 DEF Copies, RejectedIn, EntriesMatch
  <2>3. Copies(b, m) \cap RejectedIn(b) = Copies(b, m)
    BY <2>2
  <2> QED
    BY <2>3
<1>3. ASSUME NEW m \in Msgs, \A i \in DOMAIN b : b[i].msg # m PROVE N(m) = 0
  <2>1. Copies(b, m) = {}
    BY <1>3 DEF Copies
  <2> QED
    BY <2>1, FS_EmptySet
<1>4. metricRows \in [Msgs -> Nat] /\ rejections \in [Msgs -> Nat]
  BY DEF TableTypes
<1>5. /\ metricRows' = [m \in Msgs |-> metricRows[m] + N(m)]
      /\ rejections' = [m \in Msgs |-> rejections[m] + D(m)]
  BY DEF SaveBatch
<1> HIDE DEF N, D
<1>6. \A m \in Msgs : /\ metricRows'[m] = metricRows[m] + N(m)
                      /\ rejections'[m] = rejections[m] + D(m)
                      /\ metricRows[m] \in Nat /\ rejections[m] \in Nat
  BY <1>4, <1>5
<1>7. \A m \in Msgs : ~ Accepted(m) /\ rejections[m] = metricRows[m] =>
        rejections'[m] = metricRows'[m]
  BY <1>2, <1>6
<1>8. \A m \in Msgs : metricRows'[m] > 0 =>
        metricRows[m] > 0 \/ \E i \in DOMAIN b : b[i].msg = m
  BY <1>3, <1>6
<1>9. \A m \in Msgs : rejections[m] > 0 => rejections'[m] > 0
  BY <1>1, <1>6
<1> QED
  BY <1>7, <1>8, <1>9

\* One transaction leaves whole outcomes.
LEMMA WholeStep ==
    ASSUME ConstantsAssumption, TableTypes, OutcomesAreWhole,
           NEW b \in Seq(Entries), EntriesMatch(b), SaveBatch(b)
    PROVE  OutcomesAreWhole'
<1>1. /\ scored' = Upserted(b) /\ outScored' = Announced(b)
      /\ outRejected' = outRejected \cup {b[i].msg : i \in RejectedIn(b)}
  BY DEF SaveBatch
<1>2. \A m \in Msgs : Event(m)' = Event(m)
  BY DEF Event
<1>3. /\ \A m \in Msgs : metricRows[m] > 0 => metricRows'[m] > 0
      /\ \A i \in DOMAIN b : metricRows'[b[i].msg] > 0 /\ b[i].msg \in Msgs
  BY SaveBatchCounts DEF Entries
<1>4. ASSUME NEW m \in Msgs, ~ Accepted(m) PROVE rejections'[m] = metricRows'[m]
  BY <1>4, SaveBatchRows DEF OutcomesAreWhole
<1>5. ASSUME NEW m \in Msgs, metricRows'[m] > 0 PROVE Recorded(m)'
  <2>1. CASE Accepted(m) /\ metricRows[m] > 0
    <3>1. /\ \E r \in scored : r.txn = Event(m).txn
          /\ \E o \in outScored : o.txn = Event(m).txn
      BY <2>1 DEF OutcomesAreWhole, Recorded
    <3> QED
      BY <1>1, <1>2, <2>1, <3>1, UpsertedFacts, AnnouncedFacts DEF Recorded
  <2>2. CASE Accepted(m) /\ ~ (metricRows[m] > 0)
    <3>1. PICK i \in DOMAIN b : b[i].msg = m
      BY <1>5, <2>2, SaveBatchRows
    <3>2. i \in ScoredIn(b) /\ TxnAt(b, i) = Event(m).txn
      BY <2>2, <3>1 DEF ScoredIn, TxnAt, EntriesMatch
    <3> QED
      BY <1>1, <1>2, <2>2, <3>2, UpsertedFacts, AnnouncedFacts DEF Recorded
  <2>3. CASE ~ Accepted(m)
    <3>1. rejections'[m] > 0
      BY <1>4, <1>5, <2>3
    <3>2. m \in outRejected'
      <4>1. CASE metricRows[m] > 0
        BY <1>1, <2>3, <4>1 DEF OutcomesAreWhole, Recorded
      <4>2. CASE ~ (metricRows[m] > 0)
        <5>1. PICK i \in DOMAIN b : b[i].msg = m
          BY <1>5, <4>2, SaveBatchRows
        <5>2. b[i].kind \in {"scored", "rejected"} /\ b[i].kind # "scored"
          BY <2>3, <5>1 DEF EntriesMatch, Entries
        <5> QED
          BY <1>1, <5>1, <5>2 DEF RejectedIn
      <4> QED
        BY <4>1, <4>2
    <3> QED
      BY <1>2, <2>3, <3>1, <3>2 DEF Recorded
  <2> QED
    BY <2>1, <2>2, <2>3
<1>6. ASSUME NEW r \in Upserted(b) PROVE metricRows'[r.src] > 0
  <2>1. CASE r \in scored
    <3>1. r.src \in Msgs
      BY <2>1 DEF TableTypes, ScoredRows
    <3> QED
      BY <1>3, <2>1, <3>1 DEF OutcomesAreWhole
  <2>2. CASE r \notin scored
    BY <1>3, <2>2, UpsertedOrigin DEF ScoredIn
  <2> QED
    BY <2>1, <2>2
<1>7. ASSUME NEW o \in Announced(b) PROVE metricRows'[o.src] > 0
  <2>1. CASE o \in outScored
    <3>1. o.src \in Msgs
      BY <2>1 DEF TableTypes, OutboxRows
    <3> QED
      BY <1>3, <2>1, <3>1 DEF OutcomesAreWhole
  <2>2. CASE o \notin outScored
    BY <1>3, <2>2, AnnouncedOrigin DEF ScoredIn
  <2> QED
    BY <2>1, <2>2
<1>8. ASSUME NEW m \in outRejected' PROVE metricRows'[m] > 0
  BY <1>1, <1>3, <1>8 DEF OutcomesAreWhole, RejectedIn, TableTypes
<1> QED
  BY <1>1, <1>2, <1>4, <1>5, <1>6, <1>7, <1>8 DEF OutcomesAreWhole

-----------------------------------------------------------------------------
\* Every batch keeps matching its events, whatever the process does.
BatchesMatch == \A c \in Consumers : EntriesMatch(batch[c])

\* Adding an entry of the right kind keeps a batch matched with its events.
LEMMA AppendMatches ==
    ASSUME ProcessTypes, NEW c \in Consumers, EntriesMatch(batch[c]),
           NEW e \in Entries, Append1(c, e),
           e.kind = "scored" <=> Accepted(e.msg)
    PROVE  EntriesMatch(batch'[c])
<1>1. batch[c] \in Seq(Entries) /\ batch'[c] = Append(batch[c], e)
  BY DEF Append1, ProcessTypes
<1>2. \A i \in DOMAIN batch'[c] : (i \in DOMAIN batch[c] /\ batch'[c][i] = batch[c][i])
                                    \/ batch'[c][i] = e
  BY <1>1
<1> QED
  BY <1>2 DEF EntriesMatch

\* So does emptying it.
LEMMA EmptyMatches == EntriesMatch(<<>>)
<1>1. DOMAIN <<>> = {}
  OBVIOUS
<1> QED
  BY <1>1 DEF EntriesMatch

\* Every step keeps every batch matched with its events.
LEMMA BatchesStep ==
    ASSUME ConstantsAssumption, TypeOK, CommitInv, BatchesMatch, [Next]_vars
    PROVE  BatchesMatch'
<1> USE DEF local
<1>1. \A b : EntriesMatch(b)' = EntriesMatch(b')
  BY DEF EntriesMatch, Event
<1>2. ASSUME batch' = batch PROVE BatchesMatch'
  BY <1>1, <1>2 DEF BatchesMatch
<1>3. ASSUME NEW c \in Consumers, EntriesMatch(batch'[c]),
             \A d \in Consumers \ {c} : batch'[d] = batch[d]
      PROVE  BatchesMatch'
  BY <1>1, <1>3 DEF BatchesMatch
<1>4. ASSUME NEW c \in Consumers, Vanish(c) \/ Leave(c) PROVE BatchesMatch'
  <2>1. CASE FinalFlush(c)
    BY <1>2, <2>1 DEF FinalFlush
  <2>2. CASE Vanish(c)
    <3>1. batch'[c] = <<>> /\ \A d \in Consumers \ {c} : batch'[d] = batch[d]
      BY <2>2 DEF Vanish, TypeOK, ProcessTypes
    <3> QED
      BY <1>3, <3>1, EmptyMatches
  <2> QED
    BY <1>4, <2>1, <2>2 DEF Leave
<1>5. ASSUME NEW c \in Consumers, PollRejected(c) PROVE BatchesMatch'
  <2> DEFINE e(m) == [msg |-> m, kind |-> "rejected"]
  <2>1. PICK m \in Msgs : /\ Event(m).kind \in {"malformed", "unstorable"}
                          /\ Append1(c, e(m))
    BY <1>5 DEF PollRejected
  <2>2. e(m) \in Entries /\ e(m).msg = m /\ e(m).kind = "rejected"
    BY DEF Entries
  <2>3. EntriesMatch(batch'[c])
    <3> HIDE DEF e
    <3> QED
      BY <2>1, <2>2, AppendMatches DEF Accepted, TypeOK, BatchesMatch
  <2>4. \A d \in Consumers \ {c} : batch'[d] = batch[d]
    BY <2>1 DEF Append1, TypeOK, ProcessTypes
  <2> QED
    BY <1>3, <2>3, <2>4
<1>6. ASSUME NEW c \in Consumers, ScoreSucceeds(c) PROVE BatchesMatch'
  <2> DEFINE e(s) == [msg |-> cur[c], kind |-> "scored", score |-> s]
  <2>1. PICK s \in Scores : Append1(c, e(s))
    BY <1>6 DEF ScoreSucceeds
  <2>2. cur[c] \in Msgs /\ Accepted(cur[c])
    BY <1>6 DEF ScoreSucceeds, TypeOK, ProcessTypes, CommitInv, ProcessInv, CurSettled
  <2>3. e(s) \in Entries /\ e(s).msg = cur[c] /\ e(s).kind = "scored"
    BY <2>2 DEF Entries
  <2>4. EntriesMatch(batch'[c])
    <3> HIDE DEF e
    <3> QED
      BY <2>1, <2>2, <2>3, AppendMatches DEF TypeOK, BatchesMatch
  <2>5. \A d \in Consumers \ {c} : batch'[d] = batch[d]
    BY <2>1 DEF Append1, TypeOK, ProcessTypes
  <2> QED
    BY <1>3, <2>4, <2>5
<1>7. ASSUME NEW c \in Consumers, FlushEnds(c) PROVE BatchesMatch'
  <2>1. CASE Vanish(c)
    BY <1>4, <2>1
  <2>2. CASE batch' = [batch EXCEPT ![c] = <<>>]
    <3>1. batch'[c] = <<>> /\ \A d \in Consumers \ {c} : batch'[d] = batch[d]
      BY <2>2 DEF TypeOK, ProcessTypes
    <3> QED
      BY <1>3, <3>1, EmptyMatches
  <2> QED
    BY <1>7, <2>1, <2>2 DEF FlushEnds
<1>8. CASE Rebalance
  BY <1>2, <1>8 DEF Rebalance
<1>9. ASSUME NEW c \in Consumers, Work(c) PROVE BatchesMatch'
  BY <1>2, <1>4, <1>5, <1>6, <1>7, <1>9 DEF Work, Start, PollValid, PollTombstone,
     TimedFlush, SaveCommits, SaveRefused, CommitReturns, AlertNotDue, AlertSent
<1>10. ASSUME NEW c \in Consumers, Failure(c) PROVE BatchesMatch'
  BY <1>2, <1>4, <1>10 DEF Failure, Stop, Crash, ScoreRetries, ScoreRaises, SaveRaises,
     CommitReturnsPartly, CommitRaises, AlertPostFails, AlertMetricRaises
<1>11. CASE UNCHANGED vars
  BY <1>2, <1>11 DEF vars
<1> QED
  BY <1>8, <1>9, <1>10, <1>11 DEF Next

\* The steps of a process leave the five tables alone, or save its batch.
LEMMA ProcessTables ==
    ASSUME ConstantsAssumption, TypeOK, NEW c \in Consumers, Work(c) \/ Failure(c)
    PROVE  UNCHANGED saved \/ SaveBatch(batch[c])
<1>1. CASE Work(c)
  BY <1>1 DEF Work, Start, PollValid, PollRejected, PollTombstone, TimedFlush, ScoreSucceeds,
     SaveCommits, SaveRefused, CommitReturns, AlertNotDue, AlertSent, FlushEnds
<1>2. CASE Failure(c)
  BY <1>2 DEF Failure, Stop, Crash, ScoreRetries, ScoreRaises, SaveRaises,
     CommitReturnsPartly, CommitRaises, AlertPostFails, AlertMetricRaises
<1> QED
  BY <1>1, <1>2

\* The tables change by one transaction of save_batch at a time, or not at all.
LEMMA TablesStep ==
    ASSUME ConstantsAssumption, TypeOK, [Next]_vars
    PROVE  UNCHANGED saved \/ \E c \in Consumers : SaveBatch(batch[c])
<1>1. CASE Rebalance
  BY <1>1 DEF Rebalance
<1>2. ASSUME NEW c \in Consumers, Work(c) \/ Failure(c)
      PROVE  UNCHANGED saved \/ SaveBatch(batch[c])
  BY <1>2, ProcessTables
<1>3. CASE UNCHANGED vars
  BY <1>3 DEF vars, saved
<1> QED
  BY <1>1, <1>2, <1>3 DEF Next

\* The tables are empty at first, and so are the batches.
LEMMA OutcomeInit == ASSUME ConstantsAssumption, Init PROVE OutcomeInv
<1>1. OutcomesAreWhole /\ DecisionsAreAnnounced /\ KeysAreUnique
  BY DEF Init, OutcomesAreWhole, DecisionsAreAnnounced, KeysAreUnique
<1>2. \A c \in Consumers : EntriesMatch(batch[c])
  BY EmptyMatches DEF Init
<1> QED
  BY <1>1, <1>2 DEF OutcomeInv

\* Every step keeps the outcomes whole, announced and unique by key.
LEMMA OutcomeStep ==
    ASSUME ConstantsAssumption, TypeOK, CommitInv, OutcomeInv, [Next]_vars
    PROVE  OutcomeInv'
<1>1. BatchesMatch'
  BY BatchesStep DEF OutcomeInv, BatchesMatch
<1>2. CASE UNCHANGED saved
  <2>1. \A m \in Msgs : Recorded(m)' = Recorded(m)
    BY <1>2 DEF saved, Recorded, Event
  <2>2. OutcomesAreWhole' /\ DecisionsAreAnnounced' /\ KeysAreUnique'
    BY <1>2, <2>1 DEF OutcomeInv, saved, OutcomesAreWhole, DecisionsAreAnnounced,
       KeysAreUnique, Event
  <2> QED
    BY <1>1, <2>2 DEF OutcomeInv, BatchesMatch
<1>3. CASE \E c \in Consumers : SaveBatch(batch[c])
  <2>1. PICK c \in Consumers : SaveBatch(batch[c])
    BY <1>3
  <2>2. TableTypes /\ batch[c] \in Seq(Entries) /\ EntriesMatch(batch[c])
    BY DEF TypeOK, ProcessTypes, OutcomeInv
  <2>3. OutcomesAreWhole' /\ DecisionsAreAnnounced' /\ KeysAreUnique'
    BY <2>1, <2>2, WholeStep, AnnouncementStep, KeysStep DEF OutcomeInv
  <2> QED
    BY <1>1, <2>3 DEF OutcomeInv, BatchesMatch
<1> QED
  BY <1>2, <1>3, TablesStep

\* Decision, metric and outbox row of a message stand or fall together, for
\* every log, group and schedule (save_batch, database.py:139-189).
THEOREM OutcomesWhole == Spec => []OutcomesAreWhole
<1>1. Init => TypeOK /\ CommitInv /\ OutcomeInv
  BY TypeInit, CommitInit, OutcomeInit, ConstantsAssumption
<1>2. TypeOK /\ CommitInv /\ OutcomeInv /\ [Next]_vars => TypeOK' /\ CommitInv' /\ OutcomeInv'
  BY TypeStep, CommitStep, OutcomeStep, ConstantsAssumption
<1>3. OutcomeInv => OutcomesAreWhole
  BY DEF OutcomeInv
<1> QED
  BY <1>1, <1>2, <1>3, PTL DEF Spec

\* Redelivery never leaves two rows under one primary or dedupe key, and no
\* decision is stored without having been announced (database.py:37-86,
\* 178-189).
THEOREM KeysAndAnnouncements == Spec => [](KeysAreUnique /\ DecisionsAreAnnounced)
<1>1. Init => TypeOK /\ CommitInv /\ OutcomeInv
  BY TypeInit, CommitInit, OutcomeInit, ConstantsAssumption
<1>2. TypeOK /\ CommitInv /\ OutcomeInv /\ [Next]_vars => TypeOK' /\ CommitInv' /\ OutcomeInv'
  BY TypeStep, CommitStep, OutcomeStep, ConstantsAssumption
<1>3. OutcomeInv => KeysAreUnique /\ DecisionsAreAnnounced
  BY DEF OutcomeInv
<1> QED
  BY <1>1, <1>2, <1>3, PTL DEF Spec

\* "Source offsets advance only after that database transaction commits"
\* (docs/scope.md:44): a committed offset covers no message whose decision or
\* dead letter, metric and outbox row are not all stored.
THEOREM OffsetsCover == Spec => []OffsetsCoverRecorded
<1>1. CommitInv /\ OutcomesAreWhole => OffsetsCoverRecorded
  BY DEF CommitInv, CommittedDurable, Durable, OutcomesAreWhole, OffsetsCoverRecorded
<1> QED
  BY <1>1, CommitSafe, OutcomesWhole, PTL
-----------------------------------------------------------------------------
(* Alerts.                                                                 *)

\* The alerts still to come for m: places of batches being flushed.
LEMMA UnalertedFacts ==
    ASSUME NEW m
    PROVE  \A x : x \in Unalerted(m) <=>
             \E d \in Consumers : \E i \in DOMAIN batch[d] :
               /\ x = <<d, i>> /\ Flushed(d)
               /\ batch[d][i].msg = m /\ i >= alertIdx[d]
BY DEF Unalerted, Copies

\* A process that goes no further back than it was has no more to alert.
LEMMA UnalertedShrinks ==
    ASSUME TypeOK, TypeOK', NEW m,
           \A d \in Consumers : Flushed(d)' =>
             Flushed(d) /\ batch'[d] = batch[d] /\ alertIdx[d] <= alertIdx'[d]
    PROVE  Unalerted(m)' \subseteq Unalerted(m)
<1>1. ASSUME NEW x \in Unalerted(m)' PROVE x \in Unalerted(m)
  <2>1. PICK d \in Consumers : \E i \in DOMAIN batch'[d] :
               /\ x = <<d, i>> /\ Flushed(d)'
               /\ batch'[d][i].msg = m /\ i >= alertIdx'[d]
    BY <1>1 DEF Unalerted, Copies
  <2>2. /\ Flushed(d) /\ batch'[d] = batch[d] /\ alertIdx[d] <= alertIdx'[d]
        /\ batch[d] \in Seq(Entries) /\ alertIdx[d] \in Nat /\ alertIdx'[d] \in Nat
    BY <2>1 DEF TypeOK, ProcessTypes
  <2>3. PICK i \in DOMAIN batch[d] : x = <<d, i>> /\ batch[d][i].msg = m /\ i >= alertIdx'[d]
    BY <2>1, <2>2
  <2>4. i >= alertIdx[d]
    BY <2>2, <2>3
  <2> QED
    BY <2>2, <2>3, <2>4, UnalertedFacts
<1> QED
  BY <1>1

\* One transaction adds a row of the metric for each copy of a message.
LEMMA MetricGrows ==
    ASSUME TypeOK, NEW b \in Seq(Entries), SaveBatch(b)
    PROVE  \A m \in Msgs : /\ metricRows[m] \in Nat /\ Cardinality(Copies(b, m)) \in Nat
                           /\ metricRows'[m] = metricRows[m] + Cardinality(Copies(b, m))
<1> DEFINE N(m) == Cardinality(Copies(b, m))
<1>1. metricRows \in [Msgs -> Nat] /\ metricRows' = [m \in Msgs |-> metricRows[m] + N(m)]
  BY DEF TypeOK, TableTypes, SaveBatch
<1>2. \A m \in Msgs : N(m) \in Nat
  BY CopiesCount
<1> HIDE DEF N
<1>3. \A m \in Msgs : metricRows[m] \in Nat /\ metricRows'[m] = metricRows[m] + N(m)
  BY <1>1
<1> QED
  BY <1>2, <1>3 DEF N

\* Rows of the metric are append-only.
LEMMA RowsGrow ==
    ASSUME ConstantsAssumption, TypeOK, [Next]_vars
    PROVE  \A m \in Msgs : metricRows[m] <= metricRows'[m]
<1>1. \A m \in Msgs : metricRows[m] \in Nat
  BY DEF TypeOK, TableTypes
<1>2. CASE UNCHANGED saved
  BY <1>1, <1>2 DEF saved
<1>3. CASE \E c \in Consumers : SaveBatch(batch[c])
  <2>1. PICK c \in Consumers : SaveBatch(batch[c])
    BY <1>3
  <2>2. batch[c] \in Seq(Entries)
    BY DEF TypeOK, ProcessTypes
  <2> QED
    BY <2>1, <2>2, MetricGrows
<1> QED
  BY <1>2, <1>3, TablesStep

\* A step that sends nothing, and puts nobody into the alert loop who was not
\* in it already, keeps the account of the alerts.
LEMMA SilentKeeps ==
    ASSUME TypeOK, TypeOK', AlertInv, UNCHANGED <<alertsSent, alertMetrics>>,
           \A m \in Msgs : metricRows[m] <= metricRows'[m],
           \A d \in Consumers : Flushed(d)' =>
             Flushed(d) /\ batch'[d] = batch[d] /\ alertIdx[d] <= alertIdx'[d]
    PROVE  AlertInv'
<1> SUFFICES ASSUME NEW m \in Msgs
             PROVE  /\ IsFiniteSet(Unalerted(m)')
                    /\ alertsSent'[m] + Cardinality(Unalerted(m)') <= metricRows'[m]
                    /\ alertMetrics'[m] <= alertsSent'[m]
  BY DEF AlertInv
<1> DEFINE U == Unalerted(m)
           V == Unalerted(m)'
<1>1. V \subseteq U
  BY UnalertedShrinks
<1>2. /\ IsFiniteSet(U) /\ alertsSent[m] + Cardinality(U) <= metricRows[m]
      /\ alertMetrics[m] <= alertsSent[m]
  BY DEF AlertInv
<1>3. /\ metricRows[m] \in Nat /\ metricRows'[m] \in Nat /\ alertsSent[m] \in Nat
      /\ alertsSent' = alertsSent /\ alertMetrics' = alertMetrics
      /\ metricRows[m] <= metricRows'[m]
  BY DEF TypeOK, TableTypes, AuditTypes
<1> HIDE DEF U, V
<1>4. IsFiniteSet(V) /\ Cardinality(V) <= Cardinality(U)
  BY <1>1, <1>2, FS_Subset
<1>5. Cardinality(V) \in Nat /\ Cardinality(U) \in Nat
  BY <1>2, <1>4, FS_CardinalityType
<1>6. alertsSent'[m] + Cardinality(V) <= metricRows'[m]
  BY <1>2, <1>3, <1>4, <1>5
<1> QED
  BY <1>2, <1>3, <1>4, <1>6 DEF V

\* The save brings in the alerts of the batch, and a row for each of them.
LEMMA SaveKeepsAlerts ==
    ASSUME TypeOK, TypeOK', AlertInv, NEW c \in Consumers, SaveCommits(c)
    PROVE  AlertInv'
<1> SUFFICES ASSUME NEW m \in Msgs
             PROVE  /\ IsFiniteSet(Unalerted(m)')
                    /\ alertsSent'[m] + Cardinality(Unalerted(m)') <= metricRows'[m]
                    /\ alertMetrics'[m] <= alertsSent'[m]
  BY DEF AlertInv
<1> DEFINE U == Unalerted(m)
           V == Unalerted(m)'
           K == Copies(batch[c], m)
           P == {c} \X K
<1>1. V \subseteq U \cup P
  <2>1. ASSUME NEW x \in V PROVE x \in U \cup P
    <3>1. PICK d \in Consumers : \E i \in DOMAIN batch'[d] :
               /\ x = <<d, i>> /\ Flushed(d)'
               /\ batch'[d][i].msg = m /\ i >= alertIdx'[d]
      BY <2>1 DEF Unalerted, Copies
    <3>2. batch' = batch /\ alertIdx' = alertIdx /\ pc' = [pc EXCEPT ![c] = "commit"]
      BY DEF SaveCommits
    <3>3. PICK i \in DOMAIN batch[d] : x = <<d, i>> /\ batch[d][i].msg = m /\ i >= alertIdx[d]
      BY <3>1, <3>2
    <3>4. CASE d = c
      BY <3>3, <3>4 DEF Copies
    <3>5. CASE d # c
      <4>1. Flushed(d)
        BY <3>1, <3>2, <3>5 DEF Flushed, TypeOK, ProcessTypes
      <4> QED
        BY <3>3, <4>1, UnalertedFacts
    <3> QED
      BY <3>4, <3>5
  <2> QED
    BY <2>1
<1>2. /\ IsFiniteSet(U) /\ alertsSent[m] + Cardinality(U) <= metricRows[m]
      /\ alertMetrics[m] <= alertsSent[m]
  BY DEF AlertInv
<1>3. batch[c] \in Seq(Entries)
  BY DEF TypeOK, ProcessTypes
<1>4. /\ metricRows[m] \in Nat /\ Cardinality(K) \in Nat /\ alertsSent[m] \in Nat
      /\ metricRows'[m] = metricRows[m] + Cardinality(K)
      /\ alertsSent' = alertsSent /\ alertMetrics' = alertMetrics
  BY <1>3, MetricGrows DEF SaveCommits, TypeOK, AuditTypes, audit
<1>5. IsFiniteSet(K)
  <2>1. Len(batch[c]) \in Nat /\ DOMAIN batch[c] = 1 .. Len(batch[c])
    BY <1>3
  <2>2. IsFiniteSet(DOMAIN batch[c]) /\ K \subseteq DOMAIN batch[c]
    BY <2>1, FS_Interval DEF Copies
  <2> QED
    BY <2>2, FS_Subset
<1> HIDE DEF U, V, K
<1>6. IsFiniteSet({c}) /\ Cardinality({c}) = 1
  BY FS_Singleton
<1>7. IsFiniteSet(P) /\ Cardinality(P) = Cardinality({c}) * Cardinality(K)
  BY <1>5, <1>6, FS_Product
<1>8. Cardinality(P) = Cardinality(K)
  BY <1>4, <1>6, <1>7
<1> HIDE DEF P
<1>9. /\ IsFiniteSet(U \cup P) /\ IsFiniteSet(U \cap P)
      /\ Cardinality(U \cup P) = Cardinality(U) + Cardinality(P) - Cardinality(U \cap P)
  BY <1>2, <1>7, FS_Union, FS_Subset
<1>10. IsFiniteSet(V) /\ Cardinality(V) <= Cardinality(U \cup P)
  BY <1>1, <1>9, FS_Subset
<1>11. /\ Cardinality(U) \in Nat /\ Cardinality(U \cap P) \in Nat
       /\ Cardinality(U \cup P) \in Nat /\ Cardinality(V) \in Nat
  BY <1>2, <1>9, <1>10, FS_CardinalityType
<1>12. Cardinality(V) <= Cardinality(U) + Cardinality(K)
  BY <1>4, <1>8, <1>9, <1>10, <1>11
<1>13. alertsSent'[m] + Cardinality(V) <= metricRows'[m]
  BY <1>2, <1>4, <1>11, <1>12
<1> QED
  BY <1>2, <1>4, <1>10, <1>13 DEF V

\* A delivered alert is one of those that were to come, and comes no more.
LEMMA DeliveryKeepsAlerts ==
    ASSUME TypeOK, TypeOK', AlertInv, NEW c \in Consumers, AlertDue(c),
           metricRows' = metricRows,
           \A d \in Consumers : Flushed(d)' =>
             Flushed(d) /\ batch'[d] = batch[d] /\ alertIdx[d] <= alertIdx'[d],
           Flushed(c)' => alertIdx'[c] = alertIdx[c] + 1,
           alertsSent' = [alertsSent EXCEPT ![batch[c][alertIdx[c]].msg] = @ + 1],
           \A m \in Msgs : \/ alertMetrics'[m] = alertMetrics[m]
                           \/ /\ m = batch[c][alertIdx[c]].msg
                              /\ alertMetrics'[m] = alertMetrics[m] + 1
    PROVE  AlertInv'
<1> SUFFICES ASSUME NEW m \in Msgs
             PROVE  /\ IsFiniteSet(Unalerted(m)')
                    /\ alertsSent'[m] + Cardinality(Unalerted(m)') <= metricRows'[m]
                    /\ alertMetrics'[m] <= alertsSent'[m]
  BY DEF AlertInv
<1> DEFINE U == Unalerted(m)
           V == Unalerted(m)'
           x == <<c, alertIdx[c]>>
           n == batch[c][alertIdx[c]].msg
<1>1. V \subseteq U
  BY UnalertedShrinks
<1>2. /\ IsFiniteSet(U) /\ alertsSent[m] + Cardinality(U) <= metricRows[m]
      /\ alertMetrics[m] <= alertsSent[m]
  BY DEF AlertInv
<1>3. /\ metricRows[m] \in Nat /\ alertsSent[m] \in Nat /\ alertMetrics[m] \in Nat
      /\ alertsSent'[m] = IF m = n THEN alertsSent[m] + 1 ELSE alertsSent[m]
      /\ alertMetrics'[m] = alertMetrics[m] \/ (m = n /\ alertMetrics'[m] = alertMetrics[m] + 1)
  BY DEF TypeOK, TableTypes, AuditTypes
<1>4. alertIdx[c] \in DOMAIN batch[c] /\ alertIdx[c] \in Nat
  BY AlertDueFacts DEF TypeOK, ProcessTypes
<1>5. m = n => x \in U
  <2>1. Flushed(c)
    BY DEF AlertDue, Flushed
  <2>2. alertIdx[c] >= alertIdx[c]
    BY <1>4
  <2> QED
    BY <1>4, <2>1, <2>2, UnalertedFacts
<1>6. x \notin V
  <2> SUFFICES ASSUME x \in V PROVE FALSE
    OBVIOUS
  <2>1. PICK d \in Consumers : \E i \in DOMAIN batch'[d] :
               x = <<d, i>> /\ Flushed(d)' /\ i >= alertIdx'[d]
    BY DEF Unalerted, Copies
  <2>2. PICK i \in DOMAIN batch'[d] : x = <<d, i>> /\ i >= alertIdx'[d]
    BY <2>1
  <2>3. d = c /\ i = alertIdx[c]
    BY <2>2
  <2>4. alertIdx[c] >= alertIdx[c] + 1
    BY <2>1, <2>2, <2>3
  <2> QED
    BY <1>4, <2>4
<1>7. alertMetrics'[m] <= alertsSent'[m]
  BY <1>2, <1>3
<1> HIDE DEF U, V, x, n
<1>8. IsFiniteSet(V) /\ Cardinality(V) <= Cardinality(U)
  BY <1>1, <1>2, FS_Subset
<1>9. Cardinality(V) \in Nat /\ Cardinality(U) \in Nat
  BY <1>2, <1>8, FS_CardinalityType
<1>10. m = n => Cardinality(V) < Cardinality(U)
  <2>1. m = n => V # U
    BY <1>5, <1>6
  <2>2. Cardinality(U) = Cardinality(V) => U = V
    BY <1>1, <1>2, FS_Subset
  <2> QED
    BY <1>8, <1>9, <2>1, <2>2
<1>11. alertsSent'[m] + Cardinality(V) <= metricRows'[m]
  BY <1>2, <1>3, <1>8, <1>9, <1>10
<1> QED
  BY <1>7, <1>8, <1>11 DEF V

\* Whoever leaves the loop has no alerts to come, and the others keep theirs.
LEMMA LeaveUnflushed ==
    ASSUME TypeOK, NEW c \in Consumers, Vanish(c) \/ Leave(c)
    PROVE  /\ ~ Flushed(c)'
           /\ \A d \in Consumers : Flushed(d)' =>
                Flushed(d) /\ batch'[d] = batch[d] /\ alertIdx[d] <= alertIdx'[d]
<1>1. \A d \in Consumers : alertIdx[d] <= alertIdx[d]
  BY DEF TypeOK, ProcessTypes
<1>2. CASE FinalFlush(c)
  BY <1>1, <1>2 DEF FinalFlush, Flushed, TypeOK, ProcessTypes
<1>3. CASE Vanish(c)
  BY <1>1, <1>3 DEF Vanish, Flushed, TypeOK, ProcessTypes
<1> QED
  BY <1>2, <1>3 DEF Leave

\* Nobody is to be alerted at first.
LEMMA AlertInit == ASSUME ConstantsAssumption, Init PROVE AlertInv
<1>1. ASSUME NEW m \in Msgs PROVE Unalerted(m) = {}
  <2>1. \A d \in Consumers : ~ Flushed(d)
    BY DEF Init, Flushed
  <2> QED
    BY <2>1, UnalertedFacts
<1>2. IsFiniteSet({}) /\ Cardinality({}) = 0
  BY FS_EmptySet
<1>3. \A m \in Msgs : alertsSent[m] = 0 /\ metricRows[m] = 0 /\ alertMetrics[m] = 0
  BY DEF Init
<1>4. ASSUME NEW m \in Msgs
      PROVE  /\ IsFiniteSet(Unalerted(m))
             /\ alertsSent[m] + Cardinality(Unalerted(m)) <= metricRows[m]
             /\ alertMetrics[m] <= alertsSent[m]
  <2>1. IsFiniteSet(Unalerted(m)) /\ Cardinality(Unalerted(m)) = 0
    BY <1>1, <1>2
  <2>2. alertsSent[m] = 0 /\ metricRows[m] = 0 /\ alertMetrics[m] = 0
    BY <1>3
  <2> HIDE <1>1, <1>3
  <2> QED
    BY <2>1, <2>2
<1> QED
  BY <1>4 DEF AlertInv

\* Every step keeps the account of the alerts.
LEMMA AlertStep ==
    ASSUME ConstantsAssumption, TypeOK, AlertInv, [Next]_vars
    PROVE  AlertInv'
<1> DEFINE Quiet == \A d \in Consumers : Flushed(d)' =>
                      Flushed(d) /\ batch'[d] = batch[d] /\ alertIdx[d] <= alertIdx'[d]
<1>1. TypeOK' /\ \A m \in Msgs : metricRows[m] <= metricRows'[m]
  BY TypeStep, RowsGrow
<1>2. \A d \in Consumers : alertIdx[d] \in Nat /\ alertIdx[d] <= alertIdx[d]
  BY DEF TypeOK, ProcessTypes
<1>3. ASSUME Quiet, UNCHANGED <<alertsSent, alertMetrics>> PROVE AlertInv'
  BY <1>1, <1>3, SilentKeeps
<1>4. ASSUME NEW c \in Consumers, Vanish(c) \/ Leave(c) PROVE Quiet
  BY <1>4, LeaveUnflushed
<1>5. ASSUME UNCHANGED <<batch, alertIdx>>, \A d \in Consumers : Flushed(d)' => Flushed(d) PROVE Quiet
  BY <1>2, <1>5
<1>6. ASSUME NEW c \in Consumers, NEW l \in {"poll", "score", "save"}, UNCHANGED alertIdx,
             \A d \in Consumers \ {c} : batch'[d] = batch[d],
             pc' = [pc EXCEPT ![c] = l]
      PROVE  Quiet
  BY <1>2, <1>6 DEF Flushed, TypeOK, ProcessTypes
<1>7. ASSUME NEW c \in Consumers, UNCHANGED <<pc, batch>>, alertIdx' = [alertIdx EXCEPT ![c] = @ + 1]
      PROVE  Quiet
  BY <1>2, <1>7 DEF Flushed, TypeOK, ProcessTypes
<1>8. CASE Rebalance
  BY <1>3, <1>5, <1>8 DEF Rebalance, local, audit, Flushed
<1>9. ASSUME NEW c \in Consumers, Work(c) PROVE AlertInv'
  <2>1. CASE Start(c)
    BY <1>3, <1>6, <2>1 DEF Start, audit
  <2>2. CASE PollValid(c)
    BY <1>3, <1>6, <2>2 DEF PollValid, audit
  <2>3. CASE PollRejected(c)
    <3>1. PICK e : Append1(c, e)
      BY <2>3 DEF PollRejected
    <3>2. Quiet
      BY <1>6, <2>3, <3>1 DEF PollRejected, Append1, TypeOK, ProcessTypes
    <3> QED
      BY <1>3, <2>3, <3>2 DEF PollRejected, audit
  <2>4. CASE PollTombstone(c)
    BY <1>3, <1>4, <2>4 DEF PollTombstone, audit
  <2>5. CASE TimedFlush(c)
    BY <1>3, <1>6, <2>5 DEF TimedFlush, audit
  <2>6. CASE ScoreSucceeds(c)
    <3>1. PICK e : Append1(c, e)
      BY <2>6 DEF ScoreSucceeds
    <3>2. Quiet
      BY <1>6, <2>6, <3>1 DEF ScoreSucceeds, Append1, TypeOK, ProcessTypes
    <3> QED
      BY <1>3, <2>6, <3>2 DEF ScoreSucceeds, audit
  <2>7. CASE SaveCommits(c)
    BY <1>1, <2>7, SaveKeepsAlerts
  <2>8. CASE SaveRefused(c)
    BY <1>3, <1>4, <2>8 DEF SaveRefused, audit
  <2>9. CASE CommitReturns(c)
    <3>1. \A d \in Consumers : Flushed(d)' => Flushed(d)
      BY <2>9 DEF CommitReturns, Flushed, TypeOK, ProcessTypes
    <3> QED
      BY <1>3, <1>5, <2>9, <3>1 DEF CommitReturns, audit
  <2>10. CASE AlertNotDue(c)
    BY <1>3, <1>7, <2>10 DEF AlertNotDue, audit
  <2>11. CASE AlertSent(c)
    <3>1. AlertDue(c) /\ metricRows' = metricRows /\ UNCHANGED <<pc, batch>>
      BY <2>11 DEF AlertSent, saved
    <3>2. alertIdx' = [alertIdx EXCEPT ![c] = @ + 1]
      BY <2>11 DEF AlertSent
    <3>3. Quiet /\ alertIdx'[c] = alertIdx[c] + 1
      BY <1>7, <3>1, <3>2 DEF TypeOK, ProcessTypes
    <3>4. /\ alertsSent' = [alertsSent EXCEPT ![batch[c][alertIdx[c]].msg] = @ + 1]
          /\ alertMetrics' = [alertMetrics EXCEPT ![batch[c][alertIdx[c]].msg] = @ + 1]
      BY <2>11 DEF AlertSent
    <3>5. \A m \in Msgs : \/ alertMetrics'[m] = alertMetrics[m]
                          \/ /\ m = batch[c][alertIdx[c]].msg
                             /\ alertMetrics'[m] = alertMetrics[m] + 1
      BY <3>4 DEF TypeOK, AuditTypes
    <3> QED
      BY <1>1, <3>1, <3>3, <3>4, <3>5, DeliveryKeepsAlerts
  <2>12. CASE FlushEnds(c)
    <3>1. CASE Vanish(c)
      BY <1>3, <1>4, <2>12, <3>1 DEF FlushEnds, audit
    <3>2. CASE /\ pc' = [pc EXCEPT ![c] = "poll"]
               /\ batch' = [batch EXCEPT ![c] = <<>>]
               /\ alertIdx' = [alertIdx EXCEPT ![c] = 1]
      <4>1. Quiet
        BY <1>2, <3>2 DEF Flushed, TypeOK, ProcessTypes
      <4> QED
        BY <1>3, <2>12, <4>1 DEF FlushEnds, audit
    <3> QED
      BY <2>12, <3>1, <3>2 DEF FlushEnds
  <2> QED
    BY <1>9, <2>1, <2>2, <2>3, <2>4, <2>5, <2>6, <2>7, <2>8, <2>9, <2>10, <2>11, <2>12 DEF Work
<1>10. ASSUME NEW c \in Consumers, Failure(c) PROVE AlertInv'
  <2>1. CASE Stop(c) \/ Crash(c) \/ ScoreRaises(c) \/ SaveRaises(c) \/ CommitRaises(c)
    <3>1. Vanish(c) \/ Leave(c)
      BY <2>1 DEF Stop, Crash, ScoreRaises, SaveRaises, CommitRaises
    <3>2. UNCHANGED <<alertsSent, alertMetrics>>
      BY <2>1 DEF Stop, Crash, ScoreRaises, SaveRaises, CommitRaises, audit
    <3> QED
      BY <1>3, <1>4, <3>1, <3>2
  <2>2. CASE ScoreRetries(c)
    BY <1>3, <1>5, <2>2 DEF ScoreRetries, Flushed
  <2>3. CASE CommitReturnsPartly(c)
    <3>1. \A d \in Consumers : Flushed(d)' => Flushed(d)
      BY <2>3 DEF CommitReturnsPartly, Flushed, TypeOK, ProcessTypes
    <3> QED
      BY <1>3, <1>5, <2>3, <3>1 DEF CommitReturnsPartly, audit
  <2>4. CASE AlertPostFails(c)
    <3>1. AlertDue(c) /\ UNCHANGED <<pc, batch, metricRows, alertMetrics>>
      BY <2>4 DEF AlertPostFails, saved
    <3>2. alertIdx' = [alertIdx EXCEPT ![c] = @ + 1]
      BY <2>4 DEF AlertPostFails
    <3>3. Quiet /\ alertIdx'[c] = alertIdx[c] + 1
      BY <1>7, <3>1, <3>2 DEF TypeOK, ProcessTypes
    <3>4. CASE alertsSent' = alertsSent
      BY <1>3, <3>1, <3>3, <3>4
    <3>5. CASE alertsSent' = [alertsSent EXCEPT ![batch[c][alertIdx[c]].msg] = @ + 1]
      BY <1>1, <3>1, <3>3, <3>5, DeliveryKeepsAlerts
    <3> QED
      BY <2>4, <3>4, <3>5 DEF AlertPostFails
  <2>5. CASE AlertMetricRaises(c)
    <3>1. AlertDue(c) /\ metricRows' = metricRows /\ Leave(c) /\ alertMetrics' = alertMetrics
      BY <2>5 DEF AlertMetricRaises, saved
    <3>2. Quiet /\ ~ Flushed(c)'
      BY <3>1, LeaveUnflushed
    <3>3. alertsSent' = [alertsSent EXCEPT ![batch[c][alertIdx[c]].msg] = @ + 1]
      BY <2>5 DEF AlertMetricRaises
    <3> QED
      BY <1>1, <3>1, <3>2, <3>3, DeliveryKeepsAlerts
  <2> QED
    BY <1>10, <2>1, <2>2, <2>3, <2>4, <2>5 DEF Failure
<1>11. CASE UNCHANGED vars
  BY <1>3, <1>5, <1>11 DEF vars, Flushed
<1> QED
  BY <1>8, <1>9, <1>10, <1>11 DEF Next

\* An analyst is alerted only about a stored decision, at most once for each
\* time it was stored, and an alert that is counted was delivered, however
\* many processes flush at once and whatever fails (main.py:149-161).
THEOREM AlertsFollow == Spec => []AlertsFollowRecords
<1>1. Init => TypeOK /\ AlertInv
  BY TypeInit, AlertInit, ConstantsAssumption
<1>2. TypeOK /\ AlertInv /\ [Next]_vars => TypeOK' /\ AlertInv'
  BY TypeStep, AlertStep, ConstantsAssumption
<1>3. TypeOK /\ AlertInv => AlertsFollowRecords
  <2> SUFFICES ASSUME TypeOK, AlertInv, NEW m \in Msgs
               PROVE  alertsSent[m] <= metricRows[m] /\ alertMetrics[m] <= alertsSent[m]
    BY DEF AlertsFollowRecords
  <2>1. /\ Cardinality(Unalerted(m)) \in Nat
        /\ alertsSent[m] + Cardinality(Unalerted(m)) <= metricRows[m]
        /\ alertMetrics[m] <= alertsSent[m]
    BY FS_CardinalityType DEF AlertInv
  <2>2. alertsSent[m] \in Nat /\ metricRows[m] \in Nat
    BY DEF TypeOK, TableTypes, AuditTypes
  <2> QED
    BY <2>1, <2>2
<1> QED
  BY <1>1, <1>2, <1>3, PTL DEF Spec

-----------------------------------------------------------------------------
(* Order: what redelivery and regressing offsets need failures for.        *)

\* The partitions and offsets of the messages a process holds.
LEMMA BatchParts ==
    ASSUME ConstantsAssumption, ProcessTypes, NEW c \in Consumers, NEW i \in DOMAIN batch[c]
    PROVE  /\ batch[c][i].msg \in Msgs
           /\ batch[c][i].msg[1] \in Partitions
           /\ batch[c][i].msg[2] \in Nat
BY BatchMsgs, MsgFacts

\* A process that is left alone, in the partitions it reads, stays in order.
LEMMA OrderIdle ==
    ASSUME ConstantsAssumption, TypeOK, TypeOK', NEW d \in Consumers,
           BatchInOrder(d), CurInOrder(d),
           batch'[d] = batch[d], cur'[d] = cur[d], pc'[d] = pc[d],
           \A p \in Partitions : owner[p] = d =>
             owner'[p] = d /\ committed'[p] = committed[p] /\ position'[p] = position[p]
    PROVE  BatchInOrder(d)' /\ CurInOrder(d)'
<1>1. BatchInOrder(d)'
  <2>1. ASSUME NEW i \in DOMAIN batch[d]
        PROVE  LET m == batch[d][i].msg
               IN  /\ owner'[m[1]] = d
                   /\ committed'[m[1]] = committed[m[1]] /\ position'[m[1]] = position[m[1]]
    BY BatchParts DEF BatchInOrder, TypeOK
  <2> QED
    BY <2>1 DEF BatchInOrder
<1>2. CurInOrder(d)'
  <2> SUFFICES ASSUME pc[d] = "score" PROVE CurInOrder(d)'
    BY DEF CurInOrder
  <2>1. cur[d][1] \in Partitions /\ owner[cur[d][1]] = d
    BY MsgFacts DEF TypeOK, ProcessTypes, CurInOrder
  <2> QED
    BY <2>1 DEF CurInOrder
<1> QED
  BY <1>1, <1>2

\* Nothing is stored twice by a step that stores nothing, keeps what was
\* committed, and lets go of no message that is not.
LEMMA StoredKeeps ==
    ASSUME StoredOnce, metricRows' = metricRows,
           \A m \in Msgs : m[2] <= committed[m[1]] => m[2] <= committed'[m[1]],
           \A c \in Consumers : Flushed(c) =>
             \/ Flushed(c)' /\ batch'[c] = batch[c]
             \/ \A i \in DOMAIN batch[c] :
                  batch[c][i].msg[2] <= committed'[batch[c][i].msg[1]]
    PROVE  StoredOnce'
<1> SUFFICES ASSUME NEW m \in Msgs
             PROVE  /\ metricRows[m] <= 1
                    /\ metricRows[m] > 0 => \/ m[2] <= committed'[m[1]]
                                            \/ \E c \in Consumers : Flushed(c)' /\ InBatch(c, m)'
  BY DEF StoredOnce
<1>1. metricRows[m] <= 1
  BY DEF StoredOnce
<1>2. ASSUME metricRows[m] > 0, ~ (m[2] <= committed'[m[1]])
      PROVE  \E c \in Consumers : Flushed(c)' /\ InBatch(c, m)'
  <2>1. PICK c \in Consumers : Flushed(c) /\ InBatch(c, m)
    BY <1>2 DEF StoredOnce
  <2>2. PICK i \in DOMAIN batch[c] : batch[c][i].msg = m
    BY <2>1 DEF InBatch
  <2>3. Flushed(c)' /\ batch'[c] = batch[c]
    BY <1>2, <2>1, <2>2
  <2> QED
    BY <2>1, <2>3 DEF InBatch
<1> QED
  BY <1>1, <1>2

\* A process that keeps its batch and its partitions, and moves on to any
\* place but the alert loop or a score, stays in order.
LEMMA OrderMoves ==
    ASSUME ConstantsAssumption, TypeOK, TypeOK', NEW c \in Consumers, BatchInOrder(c),
           batch'[c] = batch[c], pc[c] # "alert", pc'[c] \notin {"alert", "score"},
           owner' = owner, committed' = committed,
           \A p \in Partitions : position[p] <= position'[p]
    PROVE  BatchInOrder(c)' /\ CurInOrder(c)'
<1>1. ASSUME NEW i \in DOMAIN batch[c]
      PROVE  LET m == batch[c][i].msg
             IN  /\ owner[m[1]] = c /\ m[2] <= position'[m[1]] /\ committed[m[1]] < m[2]
  <2>1. /\ batch[c][i].msg[1] \in Partitions /\ batch[c][i].msg[2] \in Nat
    BY BatchParts DEF TypeOK
  <2>2. /\ position[batch[c][i].msg[1]] \in Nat /\ position'[batch[c][i].msg[1]] \in Nat
        /\ position[batch[c][i].msg[1]] <= position'[batch[c][i].msg[1]]
    BY <2>1 DEF TypeOK, GroupTypes
  <2>3. /\ owner[batch[c][i].msg[1]] = c /\ batch[c][i].msg[2] <= position[batch[c][i].msg[1]]
        /\ committed[batch[c][i].msg[1]] < batch[c][i].msg[2]
    BY DEF BatchInOrder
  <2>4. batch[c][i].msg[2] <= position'[batch[c][i].msg[1]]
    BY <2>1, <2>2, <2>3
  <2> QED
    BY <2>3, <2>4
<1>2. BatchInOrder(c)'
  BY <1>1 DEF BatchInOrder
<1> QED
  BY <1>2 DEF CurInOrder

\* A message that joins the batch of its reader, as the last of its
\* partition, leaves it in order.
LEMMA OrderAppends ==
    ASSUME ConstantsAssumption, TypeOK, TypeOK', NEW c \in Consumers, BatchInOrder(c),
           NEW e \in Entries, Append1(c, e), pc[c] # "alert",
           owner' = owner, committed' = committed,
           \A p \in Partitions : position[p] <= position'[p],
           owner[e.msg[1]] = c, committed[e.msg[1]] < e.msg[2], e.msg[2] <= position'[e.msg[1]],
           \A i \in DOMAIN batch[c] : batch[c][i].msg[1] = e.msg[1] => batch[c][i].msg[2] < e.msg[2]
    PROVE  BatchInOrder(c)' /\ CurInOrder(c)'
<1> DEFINE n == Len(batch[c]) + 1
<1>1. /\ batch[c] \in Seq(Entries) /\ batch'[c] = Append(batch[c], e)
      /\ pc'[c] \in {"save", "poll"}
  BY DEF Append1, TypeOK, ProcessTypes
<1>2. /\ Len(batch[c]) \in Nat /\ DOMAIN batch[c] = 1 .. Len(batch[c])
      /\ DOMAIN batch'[c] = 1 .. n /\ batch'[c][n] = e
      /\ \A i \in DOMAIN batch[c] : batch'[c][i] = batch[c][i]
  BY <1>1
<1>3. \A i \in DOMAIN batch'[c] : i \in DOMAIN batch[c] \/ (i = n /\ i \notin DOMAIN batch[c])
  BY <1>2
<1>4. ASSUME NEW i \in DOMAIN batch[c]
      PROVE  LET m == batch[c][i].msg
             IN  /\ owner[m[1]] = c /\ m[2] <= position'[m[1]] /\ committed[m[1]] < m[2]
  <2>1. /\ batch[c][i].msg[1] \in Partitions /\ batch[c][i].msg[2] \in Nat
    BY BatchParts DEF TypeOK
  <2>2. /\ position[batch[c][i].msg[1]] \in Nat /\ position'[batch[c][i].msg[1]] \in Nat
        /\ position[batch[c][i].msg[1]] <= position'[batch[c][i].msg[1]]
    BY <2>1 DEF TypeOK, GroupTypes
  <2>3. /\ owner[batch[c][i].msg[1]] = c /\ batch[c][i].msg[2] <= position[batch[c][i].msg[1]]
        /\ committed[batch[c][i].msg[1]] < batch[c][i].msg[2]
    BY DEF BatchInOrder
  <2>4. batch[c][i].msg[2] <= position'[batch[c][i].msg[1]]
    BY <2>1, <2>2, <2>3
  <2> QED
    BY <2>3, <2>4
<1>5. ASSUME NEW i \in DOMAIN batch'[c]
      PROVE  LET m == batch'[c][i].msg
             IN  /\ owner[m[1]] = c /\ m[2] <= position'[m[1]] /\ committed[m[1]] < m[2]
  <2>1. CASE i \in DOMAIN batch[c]
    <3>1. batch'[c][i] = batch[c][i]
      BY <1>2, <2>1
    <3> QED
      BY <1>4, <2>1, <3>1
  <2>2. CASE i = n
    <3>1. batch'[c][i] = e
      BY <1>2, <2>2
    <3> QED
      BY <3>1
  <2> QED
    BY <1>3, <2>1, <2>2
<1>6. ASSUME NEW i \in DOMAIN batch'[c], NEW j \in DOMAIN batch'[c],
             i < j, batch'[c][i].msg[1] = batch'[c][j].msg[1]
      PROVE  batch'[c][i].msg[2] < batch'[c][j].msg[2]
  <2>1. CASE j \in DOMAIN batch[c]
    <3>1. i \in DOMAIN batch[c]
      BY <1>2, <1>6, <2>1
    <3>2. batch'[c][i] = batch[c][i] /\ batch'[c][j] = batch[c][j]
      BY <1>2, <2>1, <3>1
    <3> QED
      BY <1>6, <2>1, <3>1, <3>2 DEF BatchInOrder
  <2>2. CASE j = n
    <3>1. i \in DOMAIN batch[c]
      BY <1>2, <1>6, <2>2
    <3>2. batch'[c][i] = batch[c][i] /\ batch'[c][j] = e
      BY <1>2, <2>2, <3>1
    <3> QED
      BY <1>6, <3>1, <3>2
  <2> QED
    BY <1>3, <2>1, <2>2
<1>7. BatchInOrder(c)'
  BY <1>1, <1>5, <1>6 DEF BatchInOrder
<1> QED
  BY <1>1, <1>7 DEF CurInOrder

\* The last process of a group that is alone takes the whole group down.
LEMMA OrderVanishes ==
    ASSUME ConstantsAssumption, TypeOK, TypeOK', Orderly, Solitary,
           NEW c \in Consumers, Vanish(c), committed' = committed, metricRows' = metricRows,
           \A p \in Partitions : position[p] <= position'[p],
           pc[c] \in {"poll", "save", "alert"}
    PROVE  Orderly'
<1>1. Solitary' /\ \A d \in Consumers : d = c
  BY DEF Solitary
<1>2. batch'[c] = <<>> /\ pc'[c] = "down"
  BY DEF Vanish, TypeOK, ProcessTypes
<1>3. \A p \in Partitions : owner'[p] = NoOne
  <2> TAKE p \in Partitions
  <2>1. owner[p] \in Consumers \cup {NoOne}
    BY DEF TypeOK, GroupTypes
  <2>2. owner'[p] = IF owner[p] = c THEN NoOne ELSE owner[p]
    BY DEF Vanish
  <2> QED
    BY <1>1, <2>1, <2>2
<1>4. \A p \in Partitions : committed'[p] <= position'[p]
  BY DEF TypeOK, GroupTypes, Orderly, OneReader
<1>5. OneReader'
  BY <1>1, <1>3, <1>4 DEF OneReader
<1>6. BatchInOrder(c)' /\ CurInOrder(c)'
  <2>1. DOMAIN batch'[c] = {}
    BY <1>2
  <2> QED
    BY <1>2, <2>1 DEF BatchInOrder, CurInOrder
<1>7. StoredOnce'
  <2>1. \A d \in Consumers : Flushed(d) => \A i \in DOMAIN batch[d] :
          batch[d][i].msg[2] <= committed[batch[d][i].msg[1]]
    BY <1>1 DEF Flushed, Orderly, BatchInOrder
  <2> QED
    BY <2>1, StoredKeeps DEF Orderly
<1> QED
  BY <1>1, <1>5, <1>6, <1>7 DEF Orderly

\* So does its final flush keep the order.
LEMMA OrderLeaves ==
    ASSUME ConstantsAssumption, TypeOK, TypeOK', Orderly, Solitary,
           NEW c \in Consumers, Leave(c), committed' = committed, metricRows' = metricRows,
           \A p \in Partitions : position[p] <= position'[p],
           pc[c] \in {"poll", "save"}
    PROVE  Orderly'
<1>1. CASE FinalFlush(c)
  <2>1. Solitary' /\ \A d \in Consumers : d = c
    BY DEF Solitary
  <2>2. batch' = batch /\ owner' = owner /\ pc'[c] = "save"
    BY <1>1 DEF FinalFlush, TypeOK, ProcessTypes
  <2>3. BatchInOrder(c)' /\ CurInOrder(c)'
    BY <2>2, OrderMoves DEF Orderly
  <2>4. \A p \in Partitions : committed'[p] <= position'[p]
    BY DEF TypeOK, GroupTypes, Orderly, OneReader
  <2>5. OneReader'
    BY <2>1, <2>2, <2>4 DEF OneReader, Orderly
  <2>6. StoredOnce'
    <3>1. \A d \in Consumers : ~ Flushed(d)
      BY <2>1 DEF Flushed
    <3> QED
      BY <3>1, StoredKeeps DEF Orderly
  <2> QED
    BY <2>1, <2>3, <2>5, <2>6 DEF Orderly
<1>2. CASE Vanish(c)
  BY <1>2, OrderVanishes
<1> QED
  BY <1>1, <1>2 DEF Leave

\* A poll goes one record further in a partition that its reader owns.
LEMMA PollsForward ==
    ASSUME ConstantsAssumption, TypeOK, NEW c \in Consumers, NEW m \in Msgs, Polls(c, m)
    PROVE  /\ pc[c] = "poll" /\ owner[m[1]] = c /\ m[1] \in Partitions
           /\ position'[m[1]] = m[2] /\ position[m[1]] < m[2]
           /\ \A p \in Partitions : p # m[1] => position'[p] = position[p]
           /\ \A p \in Partitions : position[p] <= position'[p]
<1>1. m[1] \in Partitions /\ m[2] \in Nat
  BY MsgFacts
<1>2. \A p \in Partitions : position[p] \in Nat
  BY DEF TypeOK, GroupTypes
<1>3. /\ position' = [position EXCEPT ![m[1]] = m[2]] /\ m[2] = position[m[1]] + 1
      /\ position \in [Partitions -> Nat]
  BY DEF Polls, TypeOK, GroupTypes
<1>4. \A p \in Partitions : position'[p] = IF p = m[1] THEN m[2] ELSE position[p]
  BY <1>3
<1>5. \A p \in Partitions : position[p] <= position'[p]
  BY <1>1, <1>2, <1>3, <1>4
<1> QED
  BY <1>1, <1>2, <1>3, <1>4, <1>5 DEF Polls

\* A poll that does not end the loop keeps the order: the reader's part of it
\* follows from what it does with the record.
LEMMA OrderPolls ==
    ASSUME ConstantsAssumption, TypeOK, TypeOK', Orderly, NEW c \in Consumers,
           NEW m \in Msgs, Polls(c, m),
           BatchInOrder(c)' /\ CurInOrder(c)',
           UNCHANGED <<owner, committed, closing, metricRows>>,
           \A d \in Consumers \ {c} :
             batch'[d] = batch[d] /\ cur'[d] = cur[d] /\ pc'[d] = pc[d]
    PROVE  Orderly'
<1>1. ASSUME NEW d \in Consumers \ {c} PROVE BatchInOrder(d)' /\ CurInOrder(d)'
  <2>1. \A p \in Partitions : owner[p] = d =>
          owner'[p] = d /\ committed'[p] = committed[p] /\ position'[p] = position[p]
    BY PollsForward
  <2> QED
    BY <1>1, <2>1, OrderIdle DEF Orderly
<1>2. \A p \in Partitions : committed'[p] <= position'[p]
  <2>1. \A p \in Partitions : position[p] <= position'[p]
    BY PollsForward
  <2> QED
    BY <2>1 DEF Orderly, OneReader, TypeOK, GroupTypes
<1>3. OneReader'
  BY <1>2 DEF Orderly, OneReader, Solitary
<1>4. StoredOnce'
  <2>1. \A d \in Consumers : Flushed(d) => Flushed(d)' /\ batch'[d] = batch[d]
    BY PollsForward DEF Flushed
  <2> QED
    BY <2>1, StoredKeeps DEF Orderly
<1> QED
  BY <1>1, <1>3, <1>4 DEF Orderly

\* A step of one process that keeps the group's offsets and stores nothing.
LEMMA OrderLocal ==
    ASSUME ConstantsAssumption, TypeOK, TypeOK', Orderly, NEW c \in Consumers,
           BatchInOrder(c)' /\ CurInOrder(c)',
           UNCHANGED <<owner, position, committed, closing, metricRows>>,
           \A d \in Consumers \ {c} :
             batch'[d] = batch[d] /\ cur'[d] = cur[d] /\ pc'[d] = pc[d],
           Flushed(c) => \/ Flushed(c)' /\ batch'[c] = batch[c]
                         \/ pc[c] = "alert"
    PROVE  Orderly'
<1>1. ASSUME NEW d \in Consumers \ {c} PROVE BatchInOrder(d)' /\ CurInOrder(d)'
  BY <1>1, OrderIdle DEF Orderly
<1>2. OneReader'
  BY DEF Orderly, OneReader, Solitary
<1>3. StoredOnce'
  <2>1. pc[c] = "alert" => \A i \in DOMAIN batch[c] :
          batch[c][i].msg[2] <= committed[batch[c][i].msg[1]]
    BY DEF Orderly, BatchInOrder
  <2>2. \A d \in Consumers : Flushed(d) =>
          \/ Flushed(d)' /\ batch'[d] = batch[d]
          \/ \A i \in DOMAIN batch[d] : batch[d][i].msg[2] <= committed'[batch[d][i].msg[1]]
    BY <2>1 DEF Flushed
  <2> QED
    BY <2>2, StoredKeeps DEF Orderly
<1> QED
  BY <1>1, <1>2, <1>3 DEF Orderly

\* What a reader saves was not stored before, and is stored once.
LEMMA OrderSaves ==
    ASSUME ConstantsAssumption, TypeOK, TypeOK', Orderly, NEW c \in Consumers, SaveCommits(c)
    PROVE  Orderly'
<1> DEFINE b == batch[c]
<1>1. /\ pc[c] = "save" /\ SaveBatch(b) /\ b \in Seq(Entries)
      /\ pc' = [pc EXCEPT ![c] = "commit"]
      /\ UNCHANGED <<owner, position, committed, batch, cur, closing>>
  BY DEF SaveCommits, TypeOK, ProcessTypes, group
<1>2. /\ pc'[c] = "commit" /\ \A d \in Consumers \ {c} : pc'[d] = pc[d]
  BY <1>1 DEF TypeOK, ProcessTypes
<1>3. ASSUME NEW d \in Consumers PROVE BatchInOrder(d)' /\ CurInOrder(d)'
  <2>1. CASE d = c
    BY <1>1, <1>2, <2>1, OrderMoves DEF Orderly, TypeOK, GroupTypes
  <2>2. CASE d # c
    BY <1>1, <1>2, <2>2, OrderIdle DEF Orderly
  <2> QED
    BY <2>1, <2>2
<1>4. OneReader'
  BY <1>1 DEF Orderly, OneReader, Solitary
<1>5. \A m \in Msgs : /\ metricRows[m] \in Nat /\ Cardinality(Copies(b, m)) \in Nat
                      /\ metricRows'[m] = metricRows[m] + Cardinality(Copies(b, m))
  <2> HIDE DEF b
  <2> QED
    BY <1>1, MetricGrows
<1>6. ASSUME NEW m \in Msgs, NEW i \in DOMAIN b, b[i].msg = m
      PROVE  /\ metricRows[m] = 0
             /\ Cardinality(Copies(b, m)) = 1
  <2>1. owner[m[1]] = c /\ committed[m[1]] < m[2]
    BY <1>1, <1>6 DEF Orderly, BatchInOrder
  <2>2. ~ (m[2] <= committed[m[1]])
    BY <2>1, MsgFacts DEF TypeOK, GroupTypes
  <2>3. ASSUME NEW d \in Consumers, Flushed(d), InBatch(d, m) PROVE FALSE
    <3>1. owner[m[1]] = d
      BY <2>3 DEF InBatch, Orderly, BatchInOrder
    <3> QED
      BY <1>1, <2>1, <2>3, <3>1 DEF Flushed
  <2>4. ~ (metricRows[m] > 0)
    BY <2>2, <2>3 DEF Orderly, StoredOnce
  <2>5. Copies(b, m) = {i}
    <3>1. \A j \in DOMAIN b : b[j].msg = m => ~ (i < j) /\ ~ (j < i)
      <4> TAKE j \in DOMAIN b
      <4>1. m[2] \in Nat
        BY MsgFacts
      <4> QED
        BY <1>6, <4>1 DEF Orderly, BatchInOrder
    <3>2. \A j \in DOMAIN b : j \in Nat
      BY <1>1
    <3>3. \A j \in DOMAIN b : b[j].msg = m => j = i
      BY <3>1, <3>2
    <3> QED
      BY <1>6, <3>3 DEF Copies
  <2>6. Cardinality(Copies(b, m)) = 1
    BY <2>5, FS_Singleton
  <2>7. metricRows[m] = 0
    BY <1>5, <2>4
  <2> QED
    BY <2>6, <2>7
<1>7. ASSUME NEW m \in Msgs, \A i \in DOMAIN b : b[i].msg # m
      PROVE  metricRows'[m] = metricRows[m]
  <2>1. Copies(b, m) = {}
    BY <1>7 DEF Copies
  <2>2. Cardinality(Copies(b, m)) = 0
    BY <2>1, FS_EmptySet
  <2> QED
    BY <1>5, <2>2
<1>8. ASSUME NEW m \in Msgs
      PROVE  /\ metricRows'[m] <= 1
             /\ metricRows'[m] > 0 => \/ m[2] <= committed'[m[1]]
                                      \/ \E d \in Consumers : Flushed(d)' /\ InBatch(d, m)'
  <2>1. CASE \E i \in DOMAIN b : b[i].msg = m
    <3>1. metricRows'[m] <= 1
      BY <1>5, <1>6, <2>1
    <3>2. Flushed(c)' /\ InBatch(c, m)'
      BY <1>1, <1>2, <2>1 DEF Flushed, InBatch
    <3> QED
      BY <3>1, <3>2
  <2>2. CASE \A i \in DOMAIN b : b[i].msg # m
    <3>1. metricRows'[m] = metricRows[m]
      BY <1>7, <2>2
    <3>2. \A d \in Consumers : Flushed(d) => Flushed(d)' /\ batch'[d] = batch[d]
      BY <1>1, <1>2 DEF Flushed
    <3>3. /\ metricRows[m] <= 1
          /\ metricRows[m] > 0 => \/ m[2] <= committed[m[1]]
                                  \/ \E d \in Consumers : Flushed(d) /\ InBatch(d, m)
      BY DEF Orderly, StoredOnce
    <3>4. \A d \in Consumers : Flushed(d) /\ InBatch(d, m) => Flushed(d)' /\ InBatch(d, m)'
      BY <3>2 DEF InBatch
    <3> QED
      BY <1>1, <3>1, <3>3, <3>4
  <2> QED
    BY <2>1, <2>2
<1>9. StoredOnce'
  BY <1>8 DEF StoredOnce
<1> QED
  BY <1>3, <1>4, <1>9 DEF Orderly

\* Where a batch is in order, what it commits for a partition is the greatest
\* offset it holds there.
LEMMA LastPolledIsGreatest ==
    ASSUME NEW b \in Seq(Entries), NEW p \in Touched(b),
           \A i \in DOMAIN b : b[i].msg[2] \in Nat,
           \A i, j \in DOMAIN b : i < j /\ b[i].msg[1] = b[j].msg[1] => b[i].msg[2] < b[j].msg[2]
    PROVE  \E i \in DOMAIN b :
             /\ b[i].msg[1] = p /\ LastPolled(b, p) = b[i].msg[2]
             /\ \A j \in DOMAIN b : b[j].msg[1] = p => b[j].msg[2] <= b[i].msg[2]
<1> DEFINE T == {i \in DOMAIN b : b[i].msg[1] = p}
<1>1. Len(b) \in Nat /\ T \in SUBSET (1 .. Len(b)) /\ T # {}
  BY DEF Touched
<1>2. \E i \in T : \A j \in T : j <= i
  BY <1>1, LastIndex
<1>3. \E i \in DOMAIN b : /\ b[i].msg[1] = p
                          /\ \A j \in DOMAIN b : b[j].msg[1] = p => j <= i
  BY <1>2
<1> DEFINE Q(i) == /\ b[i].msg[1] = p
                   /\ \A j \in DOMAIN b : b[j].msg[1] = p => j <= i
           k == CHOOSE i \in DOMAIN b : Q(i)
<1>4. /\ k \in DOMAIN b /\ b[k].msg[1] = p
      /\ \A j \in DOMAIN b : b[j].msg[1] = p => j <= k
  BY <1>3
<1>5. LastPolled(b, p) = b[k].msg[2]
  BY DEF LastPolled
<1> HIDE DEF k
<1>6. ASSUME NEW j \in DOMAIN b, b[j].msg[1] = p PROVE b[j].msg[2] <= b[k].msg[2]
  <2>1. j \in Nat /\ k \in Nat /\ j <= k
    BY <1>1, <1>4, <1>6
  <2>2. CASE j = k
    BY <2>2
  <2>3. CASE j < k
    <3>1. b[j].msg[2] < b[k].msg[2]
      BY <1>4, <1>6, <2>3
    <3>2. b[j].msg[2] \in Nat /\ b[k].msg[2] \in Nat
      BY <1>4
    <3> QED
      BY <3>1, <3>2
  <2> QED
    BY <2>1, <2>2, <2>3
<1> QED
  BY <1>4, <1>5, <1>6

\* A commit that returns moves the offsets of its reader's partitions on, up
\* to the last message of the batch.
LEMMA CommitAdvances ==
    ASSUME ConstantsAssumption, TypeOK, Orderly, NEW c \in Consumers, CommitReturns(c)
    PROVE  /\ \A p \in Partitions : committed[p] <= committed'[p] /\ committed'[p] <= position[p]
           /\ \A p \in Partitions : owner[p] # c => committed'[p] = committed[p]
           /\ \A i \in DOMAIN batch[c] : batch[c][i].msg[2] <= committed'[batch[c][i].msg[1]]
<1> DEFINE b == batch[c]
<1>1. pc[c] = "commit" /\ StoreOffsets(b, Touched(b)) /\ b \in Seq(Entries)
  BY DEF CommitReturns, TypeOK, ProcessTypes
<1>2. \A p \in Partitions : /\ committed'[p] = IF p \in Touched(b) THEN LastPolled(b, p) ELSE committed[p]
                            /\ committed[p] \in Nat /\ position[p] \in Nat /\ committed[p] <= position[p]
  BY <1>1 DEF StoreOffsets, TypeOK, GroupTypes, Orderly, OneReader
<1>3. \A i \in DOMAIN b :
        /\ b[i].msg[1] \in Partitions /\ b[i].msg[2] \in Nat
        /\ owner[b[i].msg[1]] = c /\ b[i].msg[2] <= position[b[i].msg[1]]
        /\ committed[b[i].msg[1]] < b[i].msg[2]
  BY <1>1, BatchParts DEF TypeOK, Orderly, BatchInOrder
<1>4. \A i, j \in DOMAIN b : i < j /\ b[i].msg[1] = b[j].msg[1] => b[i].msg[2] < b[j].msg[2]
  BY DEF Orderly, BatchInOrder
<1> HIDE DEF b
<1>5. ASSUME NEW p \in Touched(b)
      PROVE  \E i \in DOMAIN b :
               /\ b[i].msg[1] = p /\ LastPolled(b, p) = b[i].msg[2]
               /\ \A j \in DOMAIN b : b[j].msg[1] = p => b[j].msg[2] <= b[i].msg[2]
  BY <1>1, <1>3, <1>4, LastPolledIsGreatest
<1>6. ASSUME NEW p \in Partitions
      PROVE  /\ committed[p] <= committed'[p] /\ committed'[p] <= position[p]
             /\ owner[p] # c => committed'[p] = committed[p]
  <2>1. CASE p \in Touched(b)
    <3>1. PICK i \in DOMAIN b : b[i].msg[1] = p /\ LastPolled(b, p) = b[i].msg[2]
      BY <1>5, <2>1
    <3> QED
      BY <1>2, <1>3, <2>1, <3>1
  <2>2. CASE p \notin Touched(b)
    BY <1>2, <2>2
  <2> QED
    BY <2>1, <2>2
<1>7. ASSUME NEW i \in DOMAIN b PROVE b[i].msg[2] <= committed'[b[i].msg[1]]
  <2>1. b[i].msg[1] \in Touched(b)
    BY DEF Touched
  <2> QED
    BY <1>2, <1>3, <1>5, <2>1
<1> QED
  BY <1>6, <1>7 DEF b

\* So a commit keeps the order.
LEMMA OrderCommits ==
    ASSUME ConstantsAssumption, TypeOK, TypeOK', Orderly, NEW c \in Consumers, CommitReturns(c)
    PROVE  Orderly'
<1>1. /\ pc[c] = "commit" /\ pc' = [pc EXCEPT ![c] = "alert"]
      /\ UNCHANGED <<owner, position, batch, cur, closing, metricRows>>
  BY DEF CommitReturns, saved
<1>2. /\ pc'[c] = "alert" /\ \A d \in Consumers \ {c} : pc'[d] = pc[d]
  BY <1>1 DEF TypeOK, ProcessTypes
<1>3. /\ \A p \in Partitions : committed[p] <= committed'[p] /\ committed'[p] <= position[p]
      /\ \A p \in Partitions : owner[p] # c => committed'[p] = committed[p]
      /\ \A i \in DOMAIN batch[c] : batch[c][i].msg[2] <= committed'[batch[c][i].msg[1]]
  BY CommitAdvances
<1>4. BatchInOrder(c)' /\ CurInOrder(c)'
  BY <1>1, <1>2, <1>3 DEF Orderly, BatchInOrder, CurInOrder
<1>5. ASSUME NEW d \in Consumers \ {c} PROVE BatchInOrder(d)' /\ CurInOrder(d)'
  BY <1>1, <1>2, <1>3, <1>5, OrderIdle DEF Orderly
<1>6. OneReader'
  BY <1>1, <1>3 DEF Orderly, OneReader, Solitary
<1>7. StoredOnce'
  <2>1. \A m \in Msgs : m[2] <= committed[m[1]] => m[2] <= committed'[m[1]]
    <3> TAKE m \in Msgs
    <3>1. m[1] \in Partitions /\ m[2] \in Nat
      BY MsgFacts
    <3>2. committed[m[1]] \in Nat /\ committed'[m[1]] \in Nat /\ committed[m[1]] <= committed'[m[1]]
      BY <1>3, <3>1 DEF TypeOK, GroupTypes
    <3> QED
      BY <3>1, <3>2
  <2>2. \A d \in Consumers : Flushed(d) => Flushed(d)' /\ batch'[d] = batch[d]
    BY <1>1, <1>2 DEF Flushed
  <2> QED
    BY <1>1, <2>1, <2>2, StoredKeeps DEF Orderly
<1> QED
  BY <1>4, <1>5, <1>6, <1>7 DEF Orderly

\* A rebalance that no failure caused finds every batch empty: all partitions
\* have lost their reader at once.
LEMMA OrderRebalances ==
    ASSUME ConstantsAssumption, TypeOK, TypeOK', Orderly, Rebalance,
           \E p \in Partitions : owner[p] = NoOne
    PROVE  Orderly'
<1>1. /\ position' = committed
      /\ UNCHANGED <<committed, pc, batch, cur, closing, metricRows>>
      /\ \A p \in Partitions : owner'[p] \in Consumers
  BY DEF Rebalance, local, saved
<1>2. \A p \in Partitions : owner[p] \notin Consumers
  BY DEF Orderly, OneReader, ConstantsAssumption
<1>3. \A d \in Consumers : \A i \in DOMAIN batch[d] : FALSE
  BY <1>2, BatchParts DEF Orderly, BatchInOrder, TypeOK
<1>4. ASSUME NEW d \in Consumers, pc[d] = "score" PROVE FALSE
  <2>1. cur[d] \in Msgs
    BY <1>4 DEF TypeOK, ProcessTypes
  <2>2. cur[d][1] \in Partitions
    BY <2>1, MsgFacts
  <2>3. owner[cur[d][1]] = d
    BY <1>4 DEF Orderly, CurInOrder
  <2> QED
    BY <1>2, <2>2, <2>3
<1>5. \A d \in Consumers : BatchInOrder(d)' /\ CurInOrder(d)'
  BY <1>1, <1>3, <1>4 DEF BatchInOrder, CurInOrder
<1>6. OneReader'
  <2>1. \A p \in Partitions : owner'[p] # NoOne /\ committed'[p] <= position'[p]
    BY <1>1 DEF ConstantsAssumption, TypeOK, GroupTypes
  <2> QED
    BY <1>1, <2>1 DEF Orderly, OneReader, Solitary
<1>7. StoredOnce'
  BY <1>1, StoredKeeps DEF Orderly, Flushed
<1> QED
  BY <1>5, <1>6, <1>7 DEF Orderly

\* What a process does of its own accord keeps the order, and only the poison
\* in the log can take it down.
LEMMA OrderWorks ==
    ASSUME ConstantsAssumption, TypeOK, TypeOK', Undisturbed, Orderly,
           NEW c \in Consumers, Work(c)
    PROVE  Orderly'
<1>1. \A p \in Partitions : position[p] <= position[p]
  BY DEF TypeOK, GroupTypes
<1>2. BatchInOrder(c) /\ CurInOrder(c)
  BY DEF Orderly
<1>3. CASE Start(c)
  <2>1. /\ pc'[c] = "poll" /\ \A d \in Consumers \ {c} : pc'[d] = pc[d]
        /\ pc[c] = "down"
    BY <1>3 DEF Start, TypeOK, ProcessTypes
  <2>2. UNCHANGED <<owner, position, committed, batch, cur, closing, metricRows>>
    BY <1>3 DEF Start, group, saved
  <2>3. BatchInOrder(c)' /\ CurInOrder(c)'
    BY <1>1, <1>2, <2>1, <2>2, OrderMoves
  <2> QED
    BY <2>1, <2>2, <2>3, OrderLocal DEF Flushed
<1>4. CASE PollValid(c)
  <2>1. PICK m \in Msgs : Polls(c, m) /\ cur' = [cur EXCEPT ![c] = m]
    BY <1>4 DEF PollValid
  <2>2. /\ pc'[c] = "score" /\ cur'[c] = m /\ batch' = batch
        /\ \A d \in Consumers \ {c} : pc'[d] = pc[d] /\ cur'[d] = cur[d]
        /\ UNCHANGED <<owner, committed, closing, metricRows>>
    BY <1>4, <2>1 DEF PollValid, saved, TypeOK, ProcessTypes
  <2>3. /\ pc[c] = "poll" /\ owner[m[1]] = c /\ m[1] \in Partitions
        /\ position'[m[1]] = m[2] /\ position[m[1]] < m[2]
        /\ \A p \in Partitions : position[p] <= position'[p]
    BY <2>1, PollsForward
  <2>4. committed[m[1]] < m[2] /\ m[2] \in Nat
    BY <2>3, MsgFacts DEF TypeOK, GroupTypes, Orderly, OneReader
  <2>5. ASSUME NEW i \in DOMAIN batch[c]
        PROVE  /\ owner[batch[c][i].msg[1]] = c
               /\ batch[c][i].msg[2] <= position'[batch[c][i].msg[1]]
               /\ committed[batch[c][i].msg[1]] < batch[c][i].msg[2]
               /\ batch[c][i].msg[1] = m[1] => batch[c][i].msg[2] < m[2]
    <3>1. /\ batch[c][i].msg[1] \in Partitions /\ batch[c][i].msg[2] \in Nat
      BY BatchParts DEF TypeOK
    <3>2. /\ position[batch[c][i].msg[1]] \in Nat /\ position'[batch[c][i].msg[1]] \in Nat
          /\ position[batch[c][i].msg[1]] <= position'[batch[c][i].msg[1]]
      BY <2>3, <3>1 DEF TypeOK, GroupTypes
    <3>3. /\ owner[batch[c][i].msg[1]] = c /\ committed[batch[c][i].msg[1]] < batch[c][i].msg[2]
          /\ batch[c][i].msg[2] <= position[batch[c][i].msg[1]]
      BY <1>2, <2>3 DEF BatchInOrder
    <3> QED
      BY <2>3, <2>4, <3>1, <3>2, <3>3
  <2>6. BatchInOrder(c)'
    BY <1>2, <2>2, <2>5 DEF BatchInOrder
  <2>7. CurInOrder(c)'
    BY <2>2, <2>3, <2>4, <2>5 DEF CurInOrder
  <2> QED
    BY <2>1, <2>2, <2>6, <2>7, OrderPolls
<1>5. CASE PollRejected(c)
  <2> DEFINE e(m) == [msg |-> m, kind |-> "rejected"]
  <2>1. PICK m \in Msgs : Polls(c, m) /\ Append1(c, e(m))
    BY <1>5 DEF PollRejected
  <2>2. e(m) \in Entries /\ e(m).msg = m
    BY DEF Entries
  <2>3. /\ UNCHANGED <<owner, committed, cur, closing, metricRows>>
        /\ \A d \in Consumers \ {c} : batch'[d] = batch[d] /\ pc'[d] = pc[d]
    BY <1>5, <2>1 DEF PollRejected, Append1, saved, TypeOK, ProcessTypes
  <2>4. /\ pc[c] = "poll" /\ owner[m[1]] = c /\ m[1] \in Partitions
        /\ position'[m[1]] = m[2] /\ position[m[1]] < m[2]
        /\ \A p \in Partitions : position[p] <= position'[p]
    BY <2>1, PollsForward
  <2>5. /\ committed[m[1]] < m[2] /\ m[2] <= position'[m[1]]
    BY <2>4, MsgFacts DEF TypeOK, GroupTypes, Orderly, OneReader
  <2>6. ASSUME NEW i \in DOMAIN batch[c], batch[c][i].msg[1] = m[1]
        PROVE  batch[c][i].msg[2] < m[2]
    <3>1. /\ batch[c][i].msg[2] \in Nat /\ position[m[1]] \in Nat /\ m[2] \in Nat
          /\ batch[c][i].msg[2] <= position[m[1]]
      BY <1>2, <2>4, <2>6, BatchParts, MsgFacts DEF TypeOK, GroupTypes, BatchInOrder
    <3> QED
      BY <2>4, <3>1
  <2>7. BatchInOrder(c)' /\ CurInOrder(c)'
    <3> HIDE DEF e
    <3> QED
      BY <1>2, <2>1, <2>2, <2>3, <2>4, <2>5, <2>6, OrderAppends
  <2> QED
    BY <2>1, <2>3, <2>7, OrderPolls
<1>6. CASE PollTombstone(c)
  <2>1. PICK m \in Msgs : Polls(c, m) /\ Event(m).kind = "tombstone"
    BY <1>6 DEF PollTombstone
  <2>2. Solitary
    BY <2>1 DEF Undisturbed
  <2>3. Leave(c) /\ UNCHANGED <<committed, metricRows>>
    BY <1>6 DEF PollTombstone, saved
  <2>4. pc[c] = "poll" /\ \A p \in Partitions : position[p] <= position'[p]
    BY <2>1, PollsForward
  <2> QED
    BY <2>2, <2>3, <2>4, OrderLeaves
<1>7. CASE TimedFlush(c)
  <2>1. /\ pc'[c] = "save" /\ \A d \in Consumers \ {c} : pc'[d] = pc[d]
        /\ pc[c] = "poll"
    BY <1>7 DEF TimedFlush, TypeOK, ProcessTypes
  <2>2. UNCHANGED <<owner, position, committed, batch, cur, closing, metricRows>>
    BY <1>7 DEF TimedFlush, group, saved
  <2>3. BatchInOrder(c)' /\ CurInOrder(c)'
    BY <1>1, <1>2, <2>1, <2>2, OrderMoves
  <2> QED
    BY <2>1, <2>2, <2>3, OrderLocal DEF Flushed
<1>8. CASE ScoreSucceeds(c)
  <2> DEFINE e(s) == [msg |-> cur[c], kind |-> "scored", score |-> s]
  <2>1. PICK s \in Scores : Append1(c, e(s))
    BY <1>8 DEF ScoreSucceeds
  <2>2. pc[c] = "score" /\ cur[c] \in Msgs
    BY <1>8 DEF ScoreSucceeds, TypeOK, ProcessTypes
  <2>3. e(s) \in Entries /\ e(s).msg = cur[c]
    BY <2>2 DEF Entries
  <2>4. /\ UNCHANGED <<owner, position, committed, closing, metricRows>>
        /\ \A d \in Consumers \ {c} : batch'[d] = batch[d] /\ pc'[d] = pc[d] /\ cur'[d] = cur[d]
    BY <1>8, <2>1 DEF ScoreSucceeds, Append1, group, saved, TypeOK, ProcessTypes
  <2>5. /\ owner[cur[c][1]] = c /\ committed[cur[c][1]] < cur[c][2]
        /\ cur[c][2] = position[cur[c][1]]
        /\ \A i \in DOMAIN batch[c] : batch[c][i].msg[1] = cur[c][1] =>
             batch[c][i].msg[2] < cur[c][2]
    BY <1>2, <2>2 DEF CurInOrder
  <2>6. cur[c][2] <= position'[cur[c][1]]
    BY <2>2, <2>4, <2>5, MsgFacts
  <2>7. BatchInOrder(c)' /\ CurInOrder(c)'
    <3> HIDE DEF e
    <3> QED
      BY <1>1, <1>2, <2>1, <2>2, <2>3, <2>4, <2>5, <2>6, OrderAppends
  <2> QED
    BY <2>2, <2>4, <2>7, OrderLocal DEF Flushed
<1>9. CASE SaveCommits(c)
  BY <1>9, OrderSaves
<1>10. CASE SaveRefused(c)
  <2>1. PICK i \in DOMAIN batch[c] : Event(batch[c][i].msg).kind \in {"poisoned", "unstorable"}
    BY <1>10 DEF SaveRefused, Refused
  <2>2. batch[c][i].msg \in Msgs
    BY BatchMsgs DEF TypeOK
  <2>3. Solitary
    BY <2>1, <2>2 DEF Undisturbed
  <2>4. Leave(c) /\ UNCHANGED <<position, committed, metricRows>> /\ pc[c] = "save"
    BY <1>10 DEF SaveRefused, saved
  <2> QED
    BY <1>1, <2>3, <2>4, OrderLeaves
<1>11. CASE CommitReturns(c)
  BY <1>11, OrderCommits
<1>12. CASE AlertNotDue(c) \/ AlertSent(c)
  <2>1. UNCHANGED <<owner, position, committed, pc, batch, cur, closing, metricRows>>
    BY <1>12 DEF AlertNotDue, AlertSent, group, saved
  <2>2. BatchInOrder(c)' /\ CurInOrder(c)'
    BY <1>2, <2>1, OrderIdle
  <2> QED
    BY <2>1, <2>2, OrderLocal DEF Flushed
<1>13. CASE FlushEnds(c)
  <2>1. pc[c] = "alert" /\ UNCHANGED <<position, committed, metricRows>>
    BY <1>13 DEF FlushEnds, saved
  <2>2. CASE closing[c]
    <3>1. Solitary /\ Vanish(c)
      BY <1>13, <2>2 DEF FlushEnds, Orderly, OneReader
    <3> QED
      BY <1>1, <2>1, <3>1, OrderVanishes
  <2>3. CASE ~ closing[c]
    <3>1. /\ batch'[c] = <<>> /\ pc'[c] = "poll" /\ UNCHANGED <<cur, closing, owner>>
          /\ \A d \in Consumers \ {c} : batch'[d] = batch[d] /\ pc'[d] = pc[d]
      BY <1>13, <2>3 DEF FlushEnds, TypeOK, ProcessTypes
    <3>2. BatchInOrder(c)' /\ CurInOrder(c)'
      <4>1. DOMAIN batch'[c] = {}
        BY <3>1
      <4> QED
        BY <3>1, <4>1 DEF BatchInOrder, CurInOrder
    <3> QED
      BY <2>1, <3>1, <3>2, OrderLocal
  <2> QED
    BY <2>2, <2>3
<1> QED
  BY <1>3, <1>4, <1>5, <1>6, <1>7, <1>8, <1>9, <1>10, <1>11, <1>12, <1>13 DEF Work

\* Nothing is in any batch at first, and no partition has a reader.
LEMMA OrderInit == ASSUME ConstantsAssumption, Init PROVE OrderInv
<1>1. OneReader
  BY DEF Init, OneReader
<1>2. StoredOnce
  BY DEF Init, StoredOnce
<1>3. \A c \in Consumers : BatchInOrder(c) /\ CurInOrder(c)
  BY DEF Init, BatchInOrder, CurInOrder
<1> QED
  BY <1>1, <1>2, <1>3 DEF OrderInv, Orderly

\* A step that leaves the count of failures at nought is no failure.
LEMMA CalmStep ==
    ASSUME TypeOK, [Next]_vars, faults' = 0
    PROVE  /\ faults = 0
           /\ \/ UNCHANGED vars
              \/ Rebalance /\ \E p \in Partitions : owner[p] = NoOne
              \/ \E c \in Consumers : Work(c)
<1>1. faults \in Nat
  BY DEF TypeOK, AuditTypes
<1>2. ~ Fault
  BY <1>1 DEF Fault
<1>3. CASE Rebalance
  <2>1. (\E p \in Partitions : owner[p] = NoOne) /\ faults' = faults
    BY <1>2, <1>3 DEF Rebalance
  <2> QED
    BY <1>3, <2>1
<1>4. ASSUME NEW c \in Consumers, Work(c) PROVE faults' = faults
  BY <1>4 DEF Work, Start, PollValid, PollRejected, PollTombstone, TimedFlush, ScoreSucceeds,
     SaveCommits, SaveRefused, CommitReturns, AlertNotDue, AlertSent, FlushEnds
<1>5. ASSUME NEW c \in Consumers, Failure(c) PROVE FALSE
  BY <1>2, <1>5 DEF Failure, Stop, Crash, ScoreRetries, ScoreRaises, SaveRaises,
     CommitReturnsPartly, CommitRaises, AlertPostFails, AlertMetricRaises
<1>6. CASE UNCHANGED vars
  BY <1>6 DEF vars
<1> QED
  BY <1>3, <1>4, <1>5, <1>6 DEF Next

\* While nothing fails, every step keeps the order.
LEMMA OrderStep ==
    ASSUME ConstantsAssumption, TypeOK, OrderInv, [Next]_vars
    PROVE  OrderInv'
<1> SUFFICES ASSUME Undisturbed', faults' = 0 PROVE Orderly'
  BY DEF OrderInv
<1>1. TypeOK' /\ Undisturbed
  BY TypeStep DEF Undisturbed, Solitary, Event
<1>2. /\ faults = 0
      /\ \/ UNCHANGED vars
         \/ Rebalance /\ \E p \in Partitions : owner[p] = NoOne
         \/ \E c \in Consumers : Work(c)
  BY CalmStep
<1>3. Orderly
  BY <1>1, <1>2 DEF OrderInv
<1>4. CASE UNCHANGED vars
  BY <1>3, <1>4 DEF vars, Orderly, OneReader, StoredOnce, Solitary, BatchInOrder, CurInOrder,
     Flushed, InBatch
<1>5. CASE Rebalance /\ \E p \in Partitions : owner[p] = NoOne
  BY <1>1, <1>3, <1>5, OrderRebalances
<1>6. CASE \E c \in Consumers : Work(c)
  BY <1>1, <1>3, <1>6, OrderWorks
<1> QED
  BY <1>2, <1>4, <1>5, <1>6

\* The offsets dictionary of flush keeps the message polled last, and not the
\* greatest offset it holds (main.py:143-148): while nothing fails the two are
\* the same, and no committed offset ever goes back.
THEOREM OffsetsAdvance == Spec => OffsetsRegressOnlyOnFaults
<1>1. Init => TypeOK /\ OrderInv
  BY TypeInit, OrderInit, ConstantsAssumption
<1>2. TypeOK /\ OrderInv /\ [Next]_vars => TypeOK' /\ OrderInv'
  BY TypeStep, OrderStep, ConstantsAssumption
<1>3. TypeOK /\ OrderInv /\ [Next]_vars =>
        [Undisturbed /\ faults' = 0 => \A p \in Partitions : committed'[p] >= committed[p]]_vars
  <2> SUFFICES ASSUME TypeOK, OrderInv, [Next]_vars, Undisturbed, faults' = 0,
                      NEW p \in Partitions
               PROVE  committed'[p] >= committed[p]
    OBVIOUS
  <2>1. /\ faults = 0
        /\ \/ UNCHANGED vars
           \/ Rebalance /\ \E q \in Partitions : owner[q] = NoOne
           \/ \E c \in Consumers : Work(c)
    BY CalmStep
  <2>2. Orderly /\ committed[p] \in Nat
    BY <2>1 DEF OrderInv, TypeOK, GroupTypes
  <2>3. CASE UNCHANGED committed
    BY <2>2, <2>3
  <2>4. ASSUME NEW c \in Consumers, Work(c) PROVE UNCHANGED committed \/ CommitReturns(c)
    BY <2>4 DEF Work, Start, PollValid, PollRejected, PollTombstone, TimedFlush, ScoreSucceeds,
       SaveCommits, SaveRefused, AlertNotDue, AlertSent, FlushEnds, group
  <2>5. ASSUME NEW c \in Consumers, CommitReturns(c) PROVE committed'[p] >= committed[p]
    <3>1. committed[p] <= committed'[p]
      BY <2>2, <2>5, CommitAdvances, ConstantsAssumption
    <3> QED
      BY <3>1
  <2>6. CASE UNCHANGED vars \/ Rebalance
    BY <2>3, <2>6 DEF vars, Rebalance
  <2> QED
    BY <2>1, <2>3, <2>4, <2>5, <2>6
<1> QED
  BY <1>1, <1>2, <1>3, PTL DEF Spec, OffsetsRegressOnlyOnFaults

\* While nothing fails, a message leaves at most one row of the metric and
\* one dead letter, and its row is one that a batch being flushed or the
\* committed offset accounts for: redelivery, and with it duplication, needs
\* a failure (database.py:150-176, main.py:142-148).
THEOREM CalmStoresOnce ==
    Spec => [](Undisturbed /\ faults = 0 => StoredOnce)
<1>1. Init => TypeOK /\ OrderInv
  BY TypeInit, OrderInit, ConstantsAssumption
<1>2. TypeOK /\ OrderInv /\ [Next]_vars => TypeOK' /\ OrderInv'
  BY TypeStep, OrderStep, ConstantsAssumption
<1>3. OrderInv => (Undisturbed /\ faults = 0 => StoredOnce)
  BY DEF OrderInv, Orderly
<1> QED
  BY <1>1, <1>2, <1>3, PTL DEF Spec
-----------------------------------------------------------------------------
(***************************************************************************)
(* Nothing beyond the end of a log: what its producer has not appended is   *)
(* neither in memory, nor in a table, nor committed.                        *)
(***************************************************************************)

\* A process works on its own memory.
LEMMA OthersStay ==
    ASSUME TypeOK, NEW c \in Consumers, Work(c) \/ Failure(c), NEW d \in Consumers \ {c}
    PROVE  pc'[d] = pc[d] /\ batch'[d] = batch[d] /\ cur'[d] = cur[d]
<1>1. CASE Vanish(c) \/ Leave(c)
  BY <1>1 DEF Leave, FinalFlush, Vanish, TypeOK, ProcessTypes
<1>2. CASE ~ (Vanish(c) \/ Leave(c))
  <2>1. CASE Work(c)
    BY <1>2, <2>1 DEF Work, Start, PollValid, PollRejected, PollTombstone, TimedFlush,
       ScoreSucceeds, SaveCommits, SaveRefused, CommitReturns, AlertNotDue, AlertSent,
       FlushEnds, Append1, TypeOK, ProcessTypes
  <2>2. CASE Failure(c)
    BY <1>2, <2>2 DEF Failure, Stop, Crash, ScoreRetries, ScoreRaises, SaveRaises,
       CommitReturnsPartly, CommitRaises, AlertPostFails, AlertMetricRaises,
       TypeOK, ProcessTypes
  <2> QED
    BY <2>1, <2>2
<1> QED
  BY <1>1, <1>2

\* What a process holds after a step it held before, or has just polled.
Holds(c, m) == InBatch(c, m) \/ (pc[c] = "score" /\ cur[c] = m)

LEMMA AppendHolds ==
    ASSUME ProcessTypes, NEW c \in Consumers, NEW e \in Entries, Append1(c, e),
           NEW m, Holds(c, m)'
    PROVE  InBatch(c, m) \/ m = e.msg
<1>1. /\ batch[c] \in Seq(Entries) /\ batch'[c] = Append(batch[c], e) /\ pc'[c] # "score"
  BY DEF Append1, ProcessTypes
<1>2. PICK i \in DOMAIN batch'[c] : batch'[c][i].msg = m
  BY <1>1 DEF Holds, InBatch
<1>3. CASE i \in DOMAIN batch[c]
  BY <1>1, <1>2, <1>3 DEF InBatch
<1>4. CASE i = Len(batch[c]) + 1
  BY <1>1, <1>2, <1>4
<1> QED
  BY <1>1, <1>3, <1>4

LEMMA HoldsStep ==
    ASSUME ConstantsAssumption, TypeOK, NEW c \in Consumers, Work(c) \/ Failure(c),
           NEW m, Holds(c, m)'
    PROVE  Holds(c, m) \/ (m \in Msgs /\ m[2] = position'[m[1]])
<1>1. CASE Vanish(c) \/ Leave(c)
  <2>1. pc'[c] # "score" /\ batch'[c] \in {batch[c], <<>>}
    BY <1>1 DEF Leave, FinalFlush, Vanish, TypeOK, ProcessTypes
  <2> QED
    BY <2>1 DEF Holds, InBatch
<1>2. CASE PollValid(c)
  <2>1. PICK k \in Msgs : Polls(c, k) /\ cur' = [cur EXCEPT ![c] = k]
    BY <1>2 DEF PollValid
  <2>2. k[2] = position'[k[1]]
    BY <2>1, MsgFacts DEF Polls, TypeOK, GroupTypes
  <2>3. cur'[c] = k /\ batch' = batch
    BY <1>2, <2>1 DEF PollValid, TypeOK, ProcessTypes
  <2> QED
    BY <2>2, <2>3 DEF Holds, InBatch
<1>3. CASE PollRejected(c)
  <2>1. PICK k \in Msgs : Polls(c, k) /\ Append1(c, [msg |-> k, kind |-> "rejected"])
    BY <1>3 DEF PollRejected
  <2>2. k[2] = position'[k[1]]
    BY <2>1, MsgFacts DEF Polls, TypeOK, GroupTypes
  <2>3. [msg |-> k, kind |-> "rejected"] \in Entries
    BY DEF Entries
  <2>4. InBatch(c, m) \/ m = k
    BY <2>1, <2>3, AppendHolds DEF TypeOK
  <2> QED
    BY <2>2, <2>4 DEF Holds
<1>4. CASE ScoreSucceeds(c)
  <2>1. PICK s \in Scores : Append1(c, [msg |-> cur[c], kind |-> "scored", score |-> s])
    BY <1>4 DEF ScoreSucceeds
  <2>2. pc[c] = "score" /\ cur[c] \in Msgs
    BY <1>4 DEF ScoreSucceeds, TypeOK, ProcessTypes
  <2>3. [msg |-> cur[c], kind |-> "scored", score |-> s] \in Entries
    BY <2>2 DEF Entries
  <2>4. InBatch(c, m) \/ m = cur[c]
    BY <2>1, <2>3, AppendHolds DEF TypeOK
  <2> QED
    BY <2>2, <2>4 DEF Holds
<1>5. CASE ~ (Vanish(c) \/ Leave(c)) /\ ~ PollValid(c) /\ ~ PollRejected(c) /\ ~ ScoreSucceeds(c)
  <2>1. batch'[c] \in {batch[c], <<>>} /\ (pc'[c] = "score" => pc[c] = "score" /\ cur'[c] = cur[c])
    <3>1. CASE Work(c)
      BY <1>5, <3>1 DEF Work, Start, PollTombstone, TimedFlush, SaveCommits, SaveRefused,
         CommitReturns, AlertNotDue, AlertSent, FlushEnds, TypeOK, ProcessTypes
    <3>2. CASE Failure(c)
      BY <1>5, <3>2 DEF Failure, Stop, Crash, ScoreRetries, ScoreRaises, SaveRaises,
         CommitReturnsPartly, CommitRaises, AlertPostFails, AlertMetricRaises,
         TypeOK, ProcessTypes
    <3> QED
      BY <3>1, <3>2
  <2> QED
    BY <2>1 DEF Holds, InBatch
<1> QED
  BY <1>1, <1>2, <1>3, <1>4, <1>5

\* A committed offset stays, or becomes that of a message in a batch.
LEMMA OffsetsStep ==
    ASSUME ConstantsAssumption, TypeOK, NEW c \in Consumers, Work(c) \/ Failure(c),
           NEW p \in Partitions
    PROVE  \/ committed'[p] = committed[p]
           \/ \E i \in DOMAIN batch[c] : batch[c][i].msg[1] = p /\ committed'[p] = batch[c][i].msg[2]
<1>1. CASE committed' = committed
  BY <1>1
<1>2. CASE \E S \in SUBSET Touched(batch[c]) : StoreOffsets(batch[c], S)
  <2>1. PICK S \in SUBSET Touched(batch[c]) : StoreOffsets(batch[c], S)
    BY <1>2
  <2>2. committed'[p] = IF p \in S THEN LastPolled(batch[c], p) ELSE committed[p]
    BY <2>1 DEF StoreOffsets
  <2>3. batch[c] \in Seq(Entries)
    BY DEF TypeOK, ProcessTypes
  <2>4. CASE p \in S
    <3>1. \E i \in DOMAIN batch[c] :
            batch[c][i].msg[1] = p /\ LastPolled(batch[c], p) = batch[c][i].msg[2]
      BY <2>3, <2>4, LastPolledIsBatched
    <3> QED
      BY <2>2, <2>4, <3>1
  <2> QED
    BY <2>2, <2>4
<1>3. committed' = committed \/ \E S \in SUBSET Touched(batch[c]) : StoreOffsets(batch[c], S)
  <2>1. CASE Work(c)
    BY <2>1 DEF Work, Start, PollValid, PollRejected, PollTombstone, TimedFlush, ScoreSucceeds,
       SaveCommits, SaveRefused, CommitReturns, AlertNotDue, AlertSent, FlushEnds, group
  <2>2. CASE Failure(c)
    BY <2>2 DEF Failure, Stop, Crash, ScoreRetries, ScoreRaises, SaveRaises,
       CommitReturnsPartly, CommitRaises, AlertPostFails, AlertMetricRaises, group
  <2> QED
    BY <2>1, <2>2
<1> QED
  BY <1>1, <1>2, <1>3

\* A process that polls no further than the end of a log keeps what is behind
\* it there: the database and the committed offsets only get what it holds.
LEMMA WithinStep ==
    ASSUME ConstantsAssumption, TypeOK, BatchesMatch, NEW end \in [Partitions -> Nat],
           Within(end), NEW c \in Consumers, Work(c) \/ Failure(c),
           \A p \in Partitions : position'[p] <= end[p]
    PROVE  Within(end)'
<1>1. \A m \in Msgs, d \in Consumers : Holds(d, m) => m[2] <= end[m[1]]
  BY DEF Within, Holds, InBatch
<1>2. \A m \in Msgs : m[2] = position'[m[1]] => m[2] <= end[m[1]]
  BY MsgFacts
<1>3. \A m \in Msgs, d \in Consumers : Holds(d, m)' => m[2] <= end[m[1]]
  <2> TAKE m \in Msgs, d \in Consumers
  <2>1. CASE d = c
    BY <1>1, <1>2, <2>1, HoldsStep
  <2>2. CASE d # c
    BY <1>1, <2>2, OthersStay DEF Holds, InBatch
  <2> QED
    BY <2>1, <2>2
<1>4. \A p \in Partitions : committed'[p] <= end[p]
  <2> TAKE p \in Partitions
  <2>1. CASE committed'[p] = committed[p]
    BY <2>1 DEF Within
  <2>2. CASE \E i \in DOMAIN batch[c] :
               batch[c][i].msg[1] = p /\ committed'[p] = batch[c][i].msg[2]
    BY <2>2 DEF Within
  <2> QED
    BY <2>1, <2>2, OffsetsStep
<1>5. \A m \in Msgs : metricRows'[m] > 0 => m[2] <= end[m[1]]
  <2>1. CASE UNCHANGED saved
    BY <2>1 DEF saved, Within
  <2>2. CASE SaveBatch(batch[c])
    <3>1. TableTypes /\ batch[c] \in Seq(Entries) /\ EntriesMatch(batch[c])
      BY DEF TypeOK, ProcessTypes, BatchesMatch
    <3>2. \A m \in Msgs : metricRows'[m] > 0 =>
            metricRows[m] > 0 \/ \E i \in DOMAIN batch[c] : batch[c][i].msg = m
      BY <2>2, <3>1, SaveBatchRows
    <3> QED
      BY <3>2 DEF Within
  <2> QED
    BY <2>1, <2>2, ProcessTables
<1>6. TypeOK'
  <2>1. Next
    BY DEF Next
  <2> QED
    BY <2>1, TypeStep
<1>7. \A d \in Consumers : pc'[d] = "score" => cur'[d][2] <= end[cur'[d][1]]
  BY <1>3, <1>6 DEF Holds, TypeOK, ProcessTypes
<1>8. \A d \in Consumers : \A i \in DOMAIN batch'[d] :
        batch'[d][i].msg[2] <= end[batch'[d][i].msg[1]]
  <2> TAKE d \in Consumers
  <2> TAKE i \in DOMAIN batch'[d]
  <2>1. batch'[d] \in Seq(Entries)
    BY <1>6 DEF TypeOK, ProcessTypes
  <2>2. batch'[d][i].msg \in Msgs
    BY <2>1 DEF Entries
  <2> QED
    BY <1>3, <2>2 DEF Holds, InBatch
<1> QED
  BY <1>4, <1>5, <1>7, <1>8 DEF Within

\* Consumers restart from committed offsets.
LEMMA WithinRebalance ==
    ASSUME NEW end \in [Partitions -> Nat], Within(end), Rebalance
    PROVE  Within(end)'
BY DEF Within, Rebalance, local, saved
\* What is behind an end is behind a later one.
LEMMA WithinGrows ==
    ASSUME ConstantsAssumption, TypeOK, NEW end \in [Partitions -> Nat],
           NEW later \in [Partitions -> Nat], \A p \in Partitions : end[p] <= later[p],
           Within(end)
    PROVE  Within(later)
<1>1. \A p \in Partitions : position[p] <= later[p] /\ committed[p] <= later[p]
  BY DEF Within, TypeOK, GroupTypes
<1>2. \A m \in Msgs : m[2] <= end[m[1]] => m[2] <= later[m[1]]
  BY MsgFacts
<1>3. \A c \in Consumers : pc[c] = "score" => cur[c][2] <= later[cur[c][1]]
  BY <1>2 DEF Within, TypeOK, ProcessTypes
<1>4. ASSUME NEW c \in Consumers, NEW i \in DOMAIN batch[c]
      PROVE  batch[c][i].msg[2] <= later[batch[c][i].msg[1]]
  <2>1. batch[c][i].msg \in Msgs
    BY BatchMsgs DEF TypeOK
  <2> QED
    BY <1>2, <2>1 DEF Within
<1> QED
  BY <1>1, <1>2, <1>3, <1>4 DEF Within
=============================================================================
