--------------------------- MODULE PipelineProofs ---------------------------
(***************************************************************************)
(* Theorems about Pipeline.  The invariants of the two components carry    *)
(* over, lemma by lemma, from their proof modules (In! and Out! below);    *)
(* what is new here is the table they share.                               *)
(***************************************************************************)
EXTENDS Pipeline, FiniteSetTheorems, TLAPS

-----------------------------------------------------------------------------
(***************************************************************************)
(* Constants and finite sets.                                              *)
(***************************************************************************)

\* The raw topic is finite: finitely many partitions of finite logs.
LEMMA MsgsFinite == IsFiniteSet(In!Msgs) /\ IsFiniteSet(Refusals)
<1> DEFINE S == {{p} \X (1 .. Len(Raw[p])) : p \in Partitions}
           f == [p \in Partitions |-> {p} \X (1 .. Len(Raw[p]))]
<1>1. f \in Surjection(Partitions, S)
  BY DEF Surjection
<1>2. IsFiniteSet(S)
  BY <1>1, FS_Surjection, PipelineAssumption
<1>3. ASSUME NEW p \in Partitions PROVE IsFiniteSet({p} \X (1 .. Len(Raw[p])))
  <2>1. Len(Raw[p]) \in Nat
    BY PipelineAssumption DEF In!ConstantsAssumption
  <2>2. IsFiniteSet(1 .. Len(Raw[p]))
    BY <2>1, FS_Interval
  <2>3. IsFiniteSet({p})
    BY FS_Singleton
  <2> QED
    BY <2>2, <2>3, FS_Product
<1>4. IsFiniteSet(UNION S)
  BY <1>2, <1>3, FS_UNION
<1>5. IsFiniteSet(In!Msgs)
  BY <1>4 DEF In!Msgs
<1> QED
  BY <1>5, FS_Subset DEF Refusals

\* The bound on the rows is a number, so what OutboxPublisher assumes holds.
LEMMA Bounds ==
    /\ Cardinality(Txns \X In!Versions) \in Nat /\ Cardinality(Refusals) \in Nat
    /\ MaxRetired \in Nat /\ MaxRows \in Nat
    /\ In!ConstantsAssumption /\ Out!OutboxAssumption
<1>1. IsFiniteSet(Txns \X In!Versions)
  BY PipelineAssumption, FS_Product
<1>2. Cardinality(Txns \X In!Versions) \in Nat /\ Cardinality(Refusals) \in Nat
  BY <1>1, MsgsFinite, FS_CardinalityType
<1>3. MaxRows \in Nat
  BY <1>2, PipelineAssumption DEF MaxRows
<1>4. In!ConstantsAssumption
  BY PipelineAssumption
<1>5. Out!OutboxAssumption
  <2>1. MaxFaults \in Nat
    BY <1>4 DEF In!ConstantsAssumption
  <2>2. Rows \subseteq Nat
    BY <1>3 DEF Rows
  <2> QED
    BY <2>1, <2>2, PipelineAssumption DEF Out!OutboxAssumption, IsFiniteSet, Out!IsFiniteSet
<1> QED
  BY <1>2, <1>3, <1>4, <1>5, PipelineAssumption

\* Counting the elements up to each of them numbers a finite set of naturals.
LEMMA Ranks ==
    ASSUME NEW n \in Nat, NEW F \in SUBSET (1 .. n)
    PROVE  /\ IsFiniteSet(F) /\ Cardinality(F) \in Nat
           /\ \A i \in F : Cardinality({j \in F : j <= i}) \in 1 .. Cardinality(F)
           /\ \A k \in 1 .. Cardinality(F) : \E i \in F : Cardinality({j \in F : j <= i}) = k
           /\ \A i, k \in F : Cardinality({j \in F : j <= i}) = Cardinality({j \in F : j <= k})
                                => i = k
<1> DEFINE C == Cardinality(F)
           rank == [i \in F |-> Cardinality({j \in F : j <= i})]
<1>1. IsFiniteSet(F) /\ C \in Nat
  <2>1. IsFiniteSet(1 .. n)
    BY FS_Interval
  <2>2. IsFiniteSet(F)
    BY <2>1, FS_Subset
  <2> QED
    BY <2>2, FS_CardinalityType
<1>2. ASSUME NEW i \in F PROVE rank[i] \in 1 .. C
  <2>1. {j \in F : j <= i} \in SUBSET F /\ i \in {j \in F : j <= i}
    OBVIOUS
  <2>2. /\ IsFiniteSet({j \in F : j <= i})
        /\ Cardinality({j \in F : j <= i}) <= C
    BY <1>1, <2>1, FS_Subset
  <2>3. Cardinality({j \in F : j <= i}) \in Nat /\ Cardinality({j \in F : j <= i}) # 0
    BY <2>1, <2>2, FS_CardinalityType, FS_EmptySet
  <2> QED
    BY <1>1, <2>2, <2>3
<1>3. ASSUME NEW i \in F, NEW k \in F, i < k PROVE rank[i] # rank[k]
  <2> DEFINE A == {j \in F : j <= i}
             B == {j \in F : j <= k}
  <2>1. A \in SUBSET B /\ k \in B /\ k \notin A
    <3>1. i \in Nat /\ k \in Nat /\ \A j \in F : j \in Nat
      OBVIOUS
    <3>2. \A j \in F : j <= i => j <= k
      BY <1>3, <3>1
    <3>3. k \in B /\ k \notin A
      BY <1>3, <3>1
    <3> QED
      BY <3>2, <3>3
  <2>2. IsFiniteSet(B)
    BY <1>1, FS_Subset
  <2>3. Cardinality(A) # Cardinality(B)
    BY <2>1, <2>2, FS_Subset
  <2> QED
    BY <2>3
<1>4. rank \in Injection(F, 1 .. C)
  <2>1. rank \in [F -> 1 .. C]
    BY <1>2
  <2>2. ASSUME NEW i \in F, NEW k \in F, rank[i] = rank[k] PROVE i = k
    <3> HIDE DEF rank
    <3>1. ~ (i < k) /\ ~ (k < i)
      BY <1>3, <2>2
    <3> QED
      BY <3>1
  <2> HIDE DEF rank
  <2> QED
    BY <2>1, <2>2 DEF Injection, IsInjective
<1>5. IsFiniteSet(1 .. C) /\ Cardinality(1 .. C) = C
  BY <1>1, FS_Interval
<1>6. rank \in Surjection(F, 1 .. C)
  <2> HIDE DEF rank
  <2> QED
    BY <1>4, <1>5, FS_Injection
<1>7. \A k \in 1 .. C : \E i \in F : rank[i] = k
  <2> HIDE DEF rank
  <2> QED
    BY <1>6 DEF Surjection
<1>8. \A i, k \in F : rank[i] = rank[k] => i = k
  <2> HIDE DEF rank
  <2> QED
    BY <1>4 DEF Injection, IsInjective
<1>9. \A i \in F : rank[i] = Cardinality({j \in F : j <= i})
  OBVIOUS
<1> HIDE DEF rank
<1> QED
  BY <1>1, <1>2, <1>7, <1>8, <1>9

\* InOrder lists each row of S once, if the batch asks for all of them.
LEMMA InOrderFacts ==
    ASSUME NEW b \in Seq(In!Entries), NEW S, \A x \in S : \E i \in DOMAIN b : RowOf(b[i]) = x
    PROVE  /\ InOrder(b, S) \in Seq(S)
           /\ IsFiniteSet(S) /\ Cardinality(S) \in Nat /\ Len(InOrder(b, S)) = Cardinality(S)
           /\ \A x \in S : \E k \in 1 .. Len(InOrder(b, S)) : InOrder(b, S)[k] = x
           /\ \A k, l \in 1 .. Len(InOrder(b, S)) :
                InOrder(b, S)[k] = InOrder(b, S)[l] => k = l
<1> DEFINE Row(i) == RowOf(b[i])
           F == {i \in DOMAIN b : Row(i) \in S /\ \A j \in DOMAIN b : Row(j) = Row(i) => i <= j}
           C == Cardinality(F)
           Rank(i) == Cardinality({j \in F : j <= i})
           nth(k) == CHOOSE i \in F : Rank(i) = k
<1>0. InOrder(b, S) = [k \in 1 .. C |-> Row(nth(k))]
  BY DEF InOrder
<1>1. Len(b) \in Nat /\ DOMAIN b = 1 .. Len(b)
  OBVIOUS
<1>2. ASSUME NEW x \in S PROVE \E i \in F : Row(i) = x
  <2> DEFINE T == {i \in DOMAIN b : Row(i) = x}
  <2>1. T \in SUBSET Nat /\ T # {}
    BY <1>1
  <2>2. \E i \in T : \A j \in T : i <= j
    <3> HIDE DEF T
    <3> QED
      BY <2>1, Bounds, In!FirstIndex
  <2> HIDE DEF Row
  <2> QED
    BY <2>2
<1>3. \A i \in F : i \in DOMAIN b /\ Row(i) \in S
  OBVIOUS
<1>4. ASSUME NEW i \in F, NEW k \in F, Row(i) = Row(k) PROVE i = k
  <2>1. i <= k /\ k <= i
    BY <1>4
  <2>2. i \in Nat /\ k \in Nat
    BY <1>1
  <2> QED
    BY <2>1, <2>2
<1>5. F \in SUBSET (1 .. Len(b))
  BY <1>1
<1> HIDE DEF F, Row
<1>6. /\ IsFiniteSet(F) /\ C \in Nat
      /\ \A i \in F : Rank(i) \in 1 .. C
      /\ \A k \in 1 .. C : \E i \in F : Rank(i) = k
      /\ \A i, k \in F : Rank(i) = Rank(k) => i = k
  BY <1>1, <1>5, Ranks
<1> HIDE DEF C, Rank
<1>7. \A k \in 1 .. C : nth(k) \in F /\ Rank(nth(k)) = k
  BY <1>6
<1>8. \A i \in F : nth(Rank(i)) = i
  BY <1>6, <1>7
<1> HIDE DEF nth
<1>9. IsFiniteSet(S) /\ Cardinality(S) = C
  <2> DEFINE f == [i \in F |-> Row(i)]
  <2>1. f \in [F -> S]
    BY <1>3
  <2>2. f \in Injection(F, S)
    BY <1>4, <2>1 DEF Injection, IsInjective
  <2>3. f \in Surjection(F, S)
    BY <1>2, <2>1 DEF Surjection
  <2>4. ExistsBijection(F, S)
    BY <2>2, <2>3 DEF ExistsBijection, Bijection
  <2> QED
    BY <1>6, <2>4, FS_Bijection DEF C
<1>10. InOrder(b, S) \in Seq(S) /\ Len(InOrder(b, S)) = C
  BY <1>0, <1>3, <1>6, <1>7
<1>11. \A k \in 1 .. C : InOrder(b, S)[k] = Row(nth(k))
  BY <1>0
<1>12. ASSUME NEW x \in S PROVE \E k \in 1 .. C : InOrder(b, S)[k] = x
  BY <1>2, <1>6, <1>8, <1>11
<1>13. ASSUME NEW k \in 1 .. C, NEW l \in 1 .. C, InOrder(b, S)[k] = InOrder(b, S)[l]
       PROVE  k = l
  BY <1>4, <1>7, <1>11, <1>13
<1> QED
  BY <1>6, <1>9, <1>10, <1>12, <1>13

\* Rows of the two topics differ, and a row tells what it was made from.
LEMMA RowsDiffer ==
    /\ \A o, q \in In!OutboxRows : ScoredRow(o) = ScoredRow(q) => o = q
    /\ \A m, n : RejectedRow(m) = RejectedRow(n) => m = n
    /\ \A o, m : ScoredRow(o) # RejectedRow(m)
    /\ \A o : /\ ScoredRow(o).topic = "scored" /\ ScoredRow(o).txn = o.txn
              /\ ScoredRow(o).version = o.version /\ ScoredRow(o).src = o.src
    /\ \A m : RejectedRow(m).topic = "rejected" /\ RejectedRow(m).src = m
<1>1. \A o : /\ ScoredRow(o).topic = "scored" /\ ScoredRow(o).txn = o.txn
             /\ ScoredRow(o).version = o.version /\ ScoredRow(o).src = o.src
  BY DEF ScoredRow
<1>2. \A m : RejectedRow(m).topic = "rejected" /\ RejectedRow(m).src = m
  BY DEF RejectedRow
<1>3. \A o, q \in In!OutboxRows : ScoredRow(o) = ScoredRow(q) => o = q
  <2> SUFFICES ASSUME NEW o \in In!OutboxRows, NEW q \in In!OutboxRows,
                      ScoredRow(o) = ScoredRow(q)
               PROVE  o = q
    OBVIOUS
  <2>1. o.txn = q.txn /\ o.version = q.version /\ o.src = q.src
    BY <1>1
  <2> QED
    BY <2>1 DEF In!OutboxRows
<1>4. \A m, n : RejectedRow(m) = RejectedRow(n) => m = n
  BY <1>2
<1>5. \A o, m : ScoredRow(o) # RejectedRow(m)
  BY <1>1, <1>2
<1> QED
  BY <1>1, <1>2, <1>3, <1>4, <1>5

\* The rows of dedupe keys are finitely many, and leave room for the retired.
LEMMA KeysCount ==
    ASSUME NEW O \in SUBSET Sources, NEW R \in SUBSET Refusals,
           \A o, q \in O : o.txn = q.txn /\ o.version = q.version => o = q
    PROVE  /\ IsFiniteSet(RowsOf(O, R))
           /\ Cardinality(RowsOf(O, R)) \in Nat
           /\ Cardinality(RowsOf(O, R)) + MaxRetired <= MaxRows
<1> DEFINE A == {ScoredRow(o) : o \in O}
           B == {RejectedRow(m) : m \in R}
           K == Txns \X In!Versions
           f == [x \in A |-> <<x.txn, x.version>>]
           g == [x \in B |-> x.src]
<1>1. \A o \in O : o \in In!OutboxRows /\ o.txn \in Txns /\ o.version \in In!Versions
  BY DEF Sources, In!OutboxRows
<1>2. IsFiniteSet(A) /\ Cardinality(A) <= Cardinality(K) /\ Cardinality(A) \in Nat
  <2>1. f \in [A -> K]
    BY <1>1, RowsDiffer
  <2>2. ASSUME NEW x \in A, NEW y \in A, f[x] = f[y] PROVE x = y
    <3>1. PICK o \in O : x = ScoredRow(o)
      OBVIOUS
    <3>2. PICK q \in O : y = ScoredRow(q)
      OBVIOUS
    <3>3. o.txn = q.txn /\ o.version = q.version
      BY <2>2, <3>1, <3>2, RowsDiffer
    <3> QED
      BY <3>1, <3>2, <3>3
  <2>3. f \in Injection(A, K)
    BY <2>1, <2>2 DEF Injection, IsInjective
  <2>4. IsFiniteSet(K)
    BY PipelineAssumption, FS_Product
  <2> HIDE DEF A, K, f
  <2> QED
    BY <2>3, <2>4, FS_Injection, FS_CardinalityType
<1>3. IsFiniteSet(B) /\ Cardinality(B) <= Cardinality(Refusals) /\ Cardinality(B) \in Nat
  <2>1. g \in [B -> Refusals]
    BY RowsDiffer
  <2>2. ASSUME NEW x \in B, NEW y \in B, g[x] = g[y] PROVE x = y
    BY <2>2, RowsDiffer
  <2>3. g \in Injection(B, Refusals)
    BY <2>1, <2>2 DEF Injection, IsInjective
  <2> HIDE DEF B, g
  <2> QED
    BY <2>3, MsgsFinite, FS_Injection, FS_CardinalityType
<1>4. RowsOf(O, R) = A \cup B /\ A \cap B = {}
  BY RowsDiffer DEF RowsOf
<1> HIDE DEF A, B
<1>5. IsFiniteSet(A \cup B) /\ Cardinality(A \cup B) = Cardinality(A) + Cardinality(B)
  <2>1. Cardinality(A \cap B) = 0
    BY <1>4, FS_EmptySet
  <2>2. Cardinality(A \cup B) = Cardinality(A) + Cardinality(B) - Cardinality(A \cap B)
    BY <1>2, <1>3, FS_Union
  <2> QED
    BY <1>2, <1>3, <2>1, <2>2, FS_Union
<1> QED
  BY <1>2, <1>3, <1>4, <1>5, Bounds DEF MaxRows

-----------------------------------------------------------------------------
(***************************************************************************)
(* Consumers: the rows they insert, and the keys they come with.           *)
(***************************************************************************)

\* An entry of a batch that is saved leaves a key, and a row about its message.
LEMMA EntryKeys ==
    ASSUME In!TypeOK, NEW b \in Seq(In!Entries), In!EntriesMatch(b), In!SaveBatch(b)
    PROVE  /\ outScored \subseteq outScored' /\ outRejected \subseteq outRejected'
           /\ \A o \in outScored' \ outScored : \E i \in DOMAIN b :
                o \in Sources /\ o.src = b[i].msg /\ RowOf(b[i]) = ScoredRow(o)
           /\ \A m \in outRejected' \ outRejected : \E i \in DOMAIN b :
                m \in Refusals /\ m = b[i].msg /\ RowOf(b[i]) = RejectedRow(m)
           /\ \A i \in DOMAIN b :
                IF In!Accepted(b[i].msg)
                  THEN \E o \in outScored' : o.txn = In!Event(b[i].msg).txn
                  ELSE b[i].msg \in outRejected'
<1>1. In!TableTypes /\ In!ConstantsAssumption
  BY Bounds DEF In!TypeOK
<1>2. /\ outScored' = In!Announced(b)
      /\ outRejected' = outRejected \cup {b[i].msg : i \in In!RejectedIn(b)}
  BY DEF In!SaveBatch
<1>3. /\ outScored \subseteq In!Announced(b)
      /\ \A i \in In!ScoredIn(b) : \E o \in In!Announced(b) :
           o.txn = In!TxnAt(b, i) /\ o.version = In!VersionAt(b, i)
  BY <1>1, In!AnnouncedFacts
<1>4. ASSUME NEW o \in outScored' \ outScored
      PROVE  \E i \in DOMAIN b : o \in Sources /\ o.src = b[i].msg /\ RowOf(b[i]) = ScoredRow(o)
  <2>1. o \in In!Announced(b) /\ o \notin outScored
    BY <1>2
  <2>2. PICK i \in In!ScoredIn(b) :
          o = [txn |-> In!TxnAt(b, i), version |-> In!VersionAt(b, i), src |-> b[i].msg]
    BY <1>1, <2>1, In!AnnouncedOrigin
  <2>3. /\ i \in DOMAIN b /\ b[i].msg \in In!Msgs /\ In!TxnAt(b, i) \in Txns
        /\ In!TxnAt(b, i) = In!Event(b[i].msg).txn /\ In!VersionAt(b, i) \in In!Versions
    BY <1>1, In!ScoredInFacts
  <2>4. b[i].kind = "scored" /\ In!Accepted(b[i].msg)
    BY <2>3 DEF In!ScoredIn, In!EntriesMatch
  <2>5. o \in Sources
    BY <2>2, <2>3, <2>4 DEF Sources, In!OutboxRows
  <2>6. RowOf(b[i]) = ScoredRow(o)
    BY <2>2, <2>3, <2>4 DEF RowOf, In!VersionAt
  <2> QED
    BY <2>2, <2>3, <2>5, <2>6
<1>5. ASSUME NEW m \in outRejected' \ outRejected
      PROVE  \E i \in DOMAIN b : m \in Refusals /\ m = b[i].msg /\ RowOf(b[i]) = RejectedRow(m)
  <2>1. PICK i \in In!RejectedIn(b) : m = b[i].msg
    BY <1>2
  <2>2. i \in DOMAIN b /\ b[i].kind = "rejected" /\ b[i].msg \in In!Msgs
    BY DEF In!RejectedIn, In!Entries
  <2>3. ~ In!Accepted(b[i].msg)
    BY <2>2 DEF In!EntriesMatch
  <2> QED
    BY <2>1, <2>2, <2>3 DEF Refusals, RowOf
<1>6. ASSUME NEW i \in DOMAIN b
      PROVE  IF In!Accepted(b[i].msg)
               THEN \E o \in outScored' : o.txn = In!Event(b[i].msg).txn
               ELSE b[i].msg \in outRejected'
  <2>1. CASE In!Accepted(b[i].msg)
    <3>1. i \in In!ScoredIn(b)
      BY <2>1 DEF In!EntriesMatch, In!ScoredIn
    <3>2. In!TxnAt(b, i) = In!Event(b[i].msg).txn
      BY DEF In!TxnAt
    <3> QED
      BY <1>2, <1>3, <2>1, <3>1, <3>2
  <2>2. CASE ~ In!Accepted(b[i].msg)
    <3>1. b[i].kind # "scored" /\ b[i] \in In!Entries
      BY <2>2 DEF In!EntriesMatch
    <3>2. i \in In!RejectedIn(b)
      BY <3>1 DEF In!RejectedIn, In!Entries
    <3> QED
      BY <1>2, <2>2, <3>2
  <2> QED
    BY <2>1, <2>2
<1> QED
  BY <1>2, <1>3, <1>4, <1>5, <1>6

\* What a step of c inserts is about messages of its batch, and recorded.
Step(c) == In!Work(c) \/ In!Failure(c)
NewRows == KeyRows' \ KeyRows

LEMMA StepKeys ==
    ASSUME ComponentInv, outScored \subseteq Sources, outRejected \subseteq Refusals,
           NEW c \in Consumers, Step(c)
    PROVE  /\ outScored \subseteq outScored' /\ outRejected \subseteq outRejected'
           /\ outScored' \subseteq Sources /\ outRejected' \subseteq Refusals
           /\ KeyRows \subseteq KeyRows'
           /\ \A x \in NewRows : \E i \in DOMAIN batch[c] :
                RowOf(batch[c][i]) = x /\ x.src = batch[c][i].msg
           /\ \A x \in NewRows : metricRows'[x.src] > 0
<1>1. /\ In!TypeOK /\ In!ConstantsAssumption /\ In!TableTypes
      /\ batch[c] \in Seq(In!Entries) /\ In!EntriesMatch(batch[c])
  BY Bounds DEF ComponentInv, In!TypeOK, In!ProcessTypes
<1>2. UNCHANGED In!saved \/ In!SaveBatch(batch[c])
  BY <1>1, Bounds, In!ProcessTables DEF Step
<1>3. CASE UNCHANGED In!saved
  <2>1. outScored' = outScored /\ outRejected' = outRejected
    BY <1>3 DEF In!saved
  <2>2. KeyRows' = KeyRows
    BY <2>1 DEF KeyRows
  <2> QED
    BY <2>1, <2>2 DEF NewRows
<1>4. CASE In!SaveBatch(batch[c])
  <2>1. /\ outScored \subseteq outScored' /\ outRejected \subseteq outRejected'
        /\ \A o \in outScored' \ outScored : \E i \in DOMAIN batch[c] :
             o \in Sources /\ o.src = batch[c][i].msg /\ RowOf(batch[c][i]) = ScoredRow(o)
        /\ \A m \in outRejected' \ outRejected : \E i \in DOMAIN batch[c] :
             m \in Refusals /\ m = batch[c][i].msg /\ RowOf(batch[c][i]) = RejectedRow(m)
    BY <1>1, <1>4, EntryKeys
  <2>2. outScored' \subseteq Sources /\ outRejected' \subseteq Refusals
    BY <2>1
  <2>3. KeyRows \subseteq KeyRows'
    BY <2>1 DEF KeyRows, RowsOf
  <2>4. ASSUME NEW x \in NewRows
        PROVE  \E i \in DOMAIN batch[c] : RowOf(batch[c][i]) = x /\ x.src = batch[c][i].msg
    <3>1. \/ \E o \in outScored' \ outScored : x = ScoredRow(o)
          \/ \E m \in outRejected' \ outRejected : x = RejectedRow(m)
      BY DEF NewRows, KeyRows, RowsOf
    <3>2. CASE \E o \in outScored' \ outScored : x = ScoredRow(o)
      BY <2>1, <3>2, RowsDiffer
    <3>3. CASE \E m \in outRejected' \ outRejected : x = RejectedRow(m)
      BY <2>1, <3>3, RowsDiffer
    <3> QED
      BY <3>1, <3>2, <3>3
  <2>5. \A i \in DOMAIN batch[c] : metricRows'[batch[c][i].msg] > 0
    BY <1>1, <1>4, In!SaveBatchCounts
  <2>6. \A x \in NewRows : metricRows'[x.src] > 0
    BY <2>4, <2>5
  <2> QED
    BY <2>1, <2>2, <2>3, <2>4, <2>6
<1> QED
  BY <1>2, <1>3, <1>4

\* A finite table has finitely many deleted rows, and no more rows than keys
\* and deleted rows.
LEMMA DeletedFinite == IsFiniteSet(Deleted) /\ Cardinality(Deleted) \in Nat
<1>1. IsFiniteSet(Rows)
  BY Bounds, FS_Interval DEF Rows
<1>2. IsFiniteSet(Deleted)
  BY <1>1, FS_Subset DEF Deleted
<1> QED
  BY <1>2, FS_CardinalityType

Consumes(c) == Consume(c, In!Work(c)) \/ Consume(c, In!Failure(c))

\* What a step of c does to the table: the rows of its new keys are appended,
\* each once and pending, and there is room for them.
LEMMA OutboxGrows ==
    ASSUME ComponentInv, In!KeysAreUnique', TableInv, KeyInv, NEW c \in Consumers, Consumes(c)
    PROVE  /\ outbox' \in Seq(Contents) /\ Len(outbox') \in Nat
           /\ Len(outbox) <= Len(outbox') /\ Len(outbox') <= MaxRows
           /\ \A r \in DOMAIN outbox : r \in DOMAIN outbox' /\ outbox'[r] = outbox[r]
           /\ \A r \in DOMAIN outbox' \ DOMAIN outbox : outbox'[r] \in NewRows
           /\ \A x \in NewRows : \E r \in DOMAIN outbox' \ DOMAIN outbox : outbox'[r] = x
           /\ \A q, r \in DOMAIN outbox' \ DOMAIN outbox : outbox'[q] = outbox'[r] => q = r
           /\ Len(outbox') = Cardinality(Deleted) + Cardinality(KeyRows')
<1> DEFINE s == InOrder(batch[c], NewRows)
           N == Len(outbox)
<1>1. /\ outScored' \subseteq Sources /\ outRejected' \subseteq Refusals
      /\ KeyRows \subseteq KeyRows'
      /\ \A x \in NewRows : \E i \in DOMAIN batch[c] : RowOf(batch[c][i]) = x
  <2>1. Step(c)
    BY DEF Consumes, Consume, Step
  <2> QED
    BY <2>1, StepKeys DEF TableInv
<1>2. batch[c] \in Seq(In!Entries)
  BY DEF ComponentInv, In!TypeOK, In!ProcessTypes
<1>3. outbox' = outbox \o s
  BY DEF Consumes, Consume, Inserted, NewRows
<1>4. /\ s \in Seq(NewRows)
      /\ IsFiniteSet(NewRows) /\ Cardinality(NewRows) \in Nat /\ Len(s) = Cardinality(NewRows)
      /\ \A x \in NewRows : \E k \in 1 .. Len(s) : s[k] = x
      /\ \A k, l \in 1 .. Len(s) : s[k] = s[l] => k = l
  BY <1>1, <1>2, InOrderFacts
<1>5. NewRows \subseteq Contents
  BY <1>1 DEF NewRows, KeyRows, RowsOf, Contents
<1>6. s \in Seq(Contents) /\ outbox \in Seq(Contents) /\ N \in Nat /\ Len(s) \in Nat
  BY <1>4, <1>5 DEF TableInv
<1> HIDE DEF s
<1>7. /\ outbox' \in Seq(Contents) /\ Len(outbox') = N + Len(s)
      /\ \A r \in 1 .. N : outbox'[r] = outbox[r]
      /\ \A k \in 1 .. Len(s) : outbox'[N + k] = s[k]
  BY <1>3, <1>6
<1>8. /\ DOMAIN outbox = 1 .. N /\ DOMAIN outbox' = 1 .. (N + Len(s))
      /\ \A r \in DOMAIN outbox' \ DOMAIN outbox : r - N \in 1 .. Len(s) /\ r = N + (r - N)
      /\ \A k \in 1 .. Len(s) : N + k \in DOMAIN outbox' \ DOMAIN outbox
  <2>1. DOMAIN outbox = 1 .. N /\ DOMAIN outbox' = 1 .. (N + Len(s))
    BY <1>6, <1>7
  <2>2. \A r \in 1 .. (N + Len(s)) : r \notin 1 .. N => r - N \in 1 .. Len(s) /\ r = N + (r - N)
    BY <1>6
  <2>3. \A k \in 1 .. Len(s) : N + k \in 1 .. (N + Len(s)) /\ N + k \notin 1 .. N
    BY <1>6
  <2> QED
    BY <2>1, <2>2, <2>3
<1>9. \A r \in DOMAIN outbox : r \in DOMAIN outbox' /\ outbox'[r] = outbox[r]
  BY <1>6, <1>7, <1>8
<1>10. \A r \in DOMAIN outbox' \ DOMAIN outbox : outbox'[r] = s[r - N] /\ r - N \in 1 .. Len(s)
  BY <1>7, <1>8
<1>11. \A r \in DOMAIN outbox' \ DOMAIN outbox : outbox'[r] \in NewRows
  BY <1>4, <1>10
<1>12. \A x \in NewRows : \E r \in DOMAIN outbox' \ DOMAIN outbox : outbox'[r] = x
  BY <1>4, <1>7, <1>8
<1>13. \A q, r \in DOMAIN outbox' \ DOMAIN outbox : outbox'[q] = outbox'[r] => q = r
  BY <1>4, <1>8, <1>10
<1>14. /\ IsFiniteSet(KeyRows') /\ Cardinality(KeyRows') \in Nat
       /\ Cardinality(KeyRows') + MaxRetired <= MaxRows
  <2>1. \A o, q \in outScored' : o.txn = q.txn /\ o.version = q.version => o = q
    BY DEF In!KeysAreUnique
  <2> QED
    BY <1>1, <2>1, KeysCount DEF KeyRows
<1>15. Cardinality(KeyRows') = Cardinality(KeyRows) + Cardinality(NewRows)
  <2>1. IsFiniteSet(KeyRows) /\ Cardinality(KeyRows) \in Nat
    BY <1>1, <1>14, FS_Subset, FS_CardinalityType
  <2>2. KeyRows' = KeyRows \cup NewRows /\ KeyRows \cap NewRows = {}
    BY <1>1 DEF NewRows
  <2>3. Cardinality(KeyRows \cap NewRows) = 0
    BY <2>2, FS_EmptySet
  <2>4. Cardinality(KeyRows \cup NewRows)
          = Cardinality(KeyRows) + Cardinality(NewRows) - Cardinality(KeyRows \cap NewRows)
    BY <1>4, <2>1, FS_Union
  <2> QED
    BY <1>4, <2>1, <2>2, <2>3, <2>4
<1>16. Len(outbox') = Cardinality(Deleted) + Cardinality(KeyRows')
  <2>1. N = Cardinality(Deleted) + Cardinality(KeyRows) /\ Cardinality(KeyRows) \in Nat
    BY <1>1, <1>14, FS_Subset, FS_CardinalityType DEF KeyInv
  <2> QED
    BY <1>4, <1>7, <1>15, <2>1, DeletedFinite
<1>17. Len(outbox') <= MaxRows
  BY <1>14, <1>16, DeletedFinite, Bounds DEF KeyInv
<1> QED
  BY <1>4, <1>6, <1>7, <1>9, <1>11, <1>12, <1>13, <1>16, <1>17

\* ... and to the columns of its rows: the new ones are pending.
LEMMA StatusGrows ==
    ASSUME Out!TypeOK, TableInv, NEW c \in Consumers, Consumes(c),
           outbox' \in Seq(Contents), Len(outbox) <= Len(outbox'), Len(outbox') <= MaxRows
    PROVE  /\ UNCHANGED <<produced, delivery, publisher>>
           /\ status' \in [Rows -> {"absent", "pending", "published", "deleted"}]
           /\ \A r \in Rows : IF r \in DOMAIN outbox' \ DOMAIN outbox
                                THEN status[r] = "absent" /\ status'[r] = "pending"
                                ELSE status'[r] = status[r]
           /\ \A r \in Rows : status'[r] = "absent" <=> r > Len(outbox')
           /\ Deleted' = Deleted
<1>1. /\ UNCHANGED <<produced, delivery, publisher>>
      /\ outbox' = outbox \o Inserted(c)
      /\ status' = [r \in Rows |-> IF r \in Len(outbox) + 1 .. Len(outbox')
                                     THEN "pending" ELSE status[r]]
  BY DEF Consumes, Consume
<1>2. status \in [Rows -> {"absent", "pending", "published", "deleted"}]
  BY DEF Out!TypeOK
<1>3. Rows \subseteq Nat /\ Len(outbox) \in Nat
  BY Bounds DEF Rows, TableInv
<1>4. \A r \in Rows : r \in DOMAIN outbox <=> r <= Len(outbox)
  BY Bounds DEF Rows, TableInv
<1>5. \A r \in Rows : r \in DOMAIN outbox' <=> r <= Len(outbox')
  <2>1. DOMAIN outbox' = 1 .. Len(outbox') /\ Len(outbox') \in Nat
    OBVIOUS
  <2> QED
    BY <1>3, <2>1, Bounds DEF Rows
<1>6. Len(outbox') \in Nat
  OBVIOUS
<1>7. ASSUME NEW r \in Rows
      PROVE  /\ IF r \in DOMAIN outbox' \ DOMAIN outbox
                  THEN status[r] = "absent" /\ status'[r] = "pending"
                  ELSE status'[r] = status[r]
             /\ status'[r] = "absent" <=> r > Len(outbox')
  <2>1. status[r] = "absent" <=> r > Len(outbox)
    BY DEF TableInv
  <2>2. status'[r] = IF r \in Len(outbox) + 1 .. Len(outbox') THEN "pending" ELSE status[r]
    BY <1>1
  <2>3. r \in Nat
    BY <1>3
  <2>4. r \in Len(outbox) + 1 .. Len(outbox') <=> r \in DOMAIN outbox' \ DOMAIN outbox
    BY <1>3, <1>4, <1>5, <1>6, <2>3
  <2>5. CASE r \in DOMAIN outbox' \ DOMAIN outbox
    BY <1>3, <1>4, <1>5, <1>6, <2>1, <2>2, <2>3, <2>4, <2>5
  <2>6. CASE r \notin DOMAIN outbox' \ DOMAIN outbox
    <3>1. status'[r] = status[r]
      BY <2>2, <2>4, <2>6
    <3>2. r > Len(outbox) <=> r > Len(outbox')
      BY <1>3, <1>4, <1>5, <1>6, <2>3, <2>6
    <3> QED
      BY <2>1, <2>6, <3>1, <3>2
  <2> QED
    BY <2>5, <2>6
<1>8. status' \in [Rows -> {"absent", "pending", "published", "deleted"}]
  BY <1>1, <1>2
<1>9. Deleted' = Deleted
  BY <1>7 DEF Deleted
<1> QED
  BY <1>1, <1>7, <1>8, <1>9

\* The consumers' half of the components: their own lemmas, in the pipeline.
GroupInv == /\ In!TypeOK /\ In!CommitInv /\ In!KeysAreUnique
            /\ \A c \in Consumers : In!EntriesMatch(batch[c])
TopicInv == Out!TypeOK /\ Out!LeaseInv /\ Out!RowInv

LEMMA Halves == ComponentInv <=> GroupInv /\ TopicInv
BY DEF ComponentInv, GroupInv, TopicInv

LEMMA GroupStep ==
    ASSUME GroupInv, In!Rebalance \/ \E c \in Consumers : Step(c)
    PROVE  /\ GroupInv'
           /\ \A m \in In!Msgs : metricRows[m] > 0 => metricRows'[m] > 0
<1>1. In!ConstantsAssumption /\ [In!Next]_In!vars
  BY Bounds DEF In!Next, Step
<1>2. In!TypeOK'
  BY <1>1, In!TypeStep DEF GroupInv
<1>3. In!CommitInv'
  BY <1>1, <1>2, In!CommitStep DEF GroupInv
<1>4. In!BatchesMatch'
  BY <1>1, In!BatchesStep DEF GroupInv, In!BatchesMatch
<1>5. In!KeysAreUnique'
  <2>1. CASE UNCHANGED In!saved
    BY <2>1 DEF In!saved, In!KeysAreUnique, GroupInv
  <2>2. CASE \E c \in Consumers : In!SaveBatch(batch[c])
    <3>1. PICK c \in Consumers : In!SaveBatch(batch[c])
      BY <2>2
    <3>2. In!TableTypes /\ batch[c] \in Seq(In!Entries)
      BY DEF GroupInv, In!TypeOK, In!ProcessTypes
    <3> QED
      BY <1>1, <3>1, <3>2, In!KeysStep DEF GroupInv
  <2> QED
    BY <1>1, <2>1, <2>2, In!TablesStep DEF GroupInv
<1>6. In!DurableGrows
  BY <1>1, In!RecordsOrCommits DEF GroupInv
<1>7. \A m \in In!Msgs : metricRows[m] > 0 => metricRows'[m] > 0
  BY <1>6 DEF In!DurableGrows, In!Durable
<1> QED
  BY <1>2, <1>3, <1>4, <1>5, <1>7 DEF GroupInv, In!BatchesMatch

\* A step of c keeps the components, and reads no further than is produced.
LEMMA ConsumeComponents ==
    ASSUME ComponentInv, SourceInv, TableInv, KeyInv, NEW c \in Consumers, Consumes(c)
    PROVE  ComponentInv' /\ SourceInv' /\ TableInv'
<1>1. Step(c) /\ UNCHANGED <<produced, delivery, publisher>>
  BY DEF Consumes, Consume, Step
<1>2. GroupInv'
  BY <1>1, GroupStep, Halves
<1>3. In!KeysAreUnique'
  BY <1>2 DEF GroupInv
<1>4. /\ outbox' \in Seq(Contents) /\ Len(outbox) <= Len(outbox') /\ Len(outbox') <= MaxRows
  BY <1>3, OutboxGrows
<1>5. Out!TypeOK /\ Out!LeaseInv /\ Out!RowInv
  BY DEF ComponentInv
<1>6. /\ status' \in [Rows -> {"absent", "pending", "published", "deleted"}]
      /\ \A r \in Rows : status'[r] \in {status[r], "pending"}
      /\ \A r \in Rows : status'[r] = "absent" <=> r > Len(outbox')
      /\ \A r \in Rows : status'[r] = "absent" => status[r] = "absent"
  BY <1>4, <1>5, StatusGrows
<1>7. UNCHANGED <<claim, backoff, attempts, Out!leases, copies, Out!local, pfaults>>
  BY <1>1 DEF delivery, publisher, Out!leases, Out!local
<1>8. TopicInv'
  <2>1. Out!OutboxAssumption
    BY Bounds
  <2> QED
    BY <1>5, <1>6, <1>7, <2>1, Out!InsertsKeep DEF TopicInv
<1>9. SourceInv'
  <2>1. produced \in [Partitions -> Nat] /\ In!Within(produced)
    BY DEF SourceInv
  <2>2. \A p \in Partitions : position'[p] <= produced[p]
    BY DEF Consumes, Consume
  <2>3. In!TypeOK /\ In!BatchesMatch /\ In!ConstantsAssumption
    BY Bounds DEF ComponentInv, In!BatchesMatch
  <2>4. In!Work(c) \/ In!Failure(c)
    BY <1>1 DEF Step
  <2> QED
    BY <1>1, <2>1, <2>2, <2>3, <2>4, In!WithinStep DEF SourceInv, In!Within
<1>10. outScored' \subseteq Sources /\ outRejected' \subseteq Refusals
  BY <1>1, StepKeys DEF TableInv
<1>11. Out!Pristine'
  BY <1>1, <1>6 DEF TableInv, Out!Pristine, delivery
<1> QED
  BY <1>2, <1>4, <1>6, <1>8, <1>9, <1>10, <1>11, Halves DEF TableInv, ComponentInv, GroupInv, TopicInv

\* Rows of two keys about one subject, under one version, are one row.
LEMMA OneRowPerSubject ==
    ASSUME NEW O \in SUBSET Sources, NEW R \in SUBSET Refusals,
           \A o, q \in O : o.txn = q.txn /\ o.version = q.version => o = q,
           NEW x \in RowsOf(O, R), NEW y \in RowsOf(O, R), Subject(x.src) = Subject(y.src),
           x.topic = "scored" => x.version = y.version
    PROVE  x = y
<1>1. \A o \in O : Subject(o.src).topic = "scored" /\ Subject(o.src).of = o.txn
  <2> TAKE o \in O
  <2>1. Subject(o.src) = [topic |-> "scored", of |-> o.txn]
    BY DEF Sources, Subject
  <2> QED
    BY <2>1
<1>2. \A m \in R : Subject(m).topic = "rejected" /\ Subject(m).of = m
  <2> TAKE m \in R
  <2>1. Subject(m) = [topic |-> "rejected", of |-> m]
    BY DEF Refusals, Subject
  <2> QED
    BY <2>1
<1>3. \A o \in O, m \in R : Subject(o.src) # Subject(m)
  <2> SUFFICES ASSUME NEW o \in O, NEW m \in R, Subject(o.src) = Subject(m) PROVE FALSE
    OBVIOUS
  <2>1. Subject(o.src).topic = "scored" /\ Subject(m).topic = "rejected"
    BY <1>1, <1>2
  <2> QED
    BY <2>1
<1>4. CASE (\E o \in O : x = ScoredRow(o)) /\ (\E q \in O : y = ScoredRow(q))
  <2>1. PICK o \in O : x = ScoredRow(o)
    BY <1>4
  <2>2. PICK q \in O : y = ScoredRow(q)
    BY <1>4
  <2>3. Subject(o.src).of = Subject(q.src).of /\ o.version = q.version
    BY <2>1, <2>2, RowsDiffer
  <2>4. o.txn = q.txn
    BY <1>1, <2>3
  <2> QED
    BY <2>1, <2>2, <2>3, <2>4
<1>5. CASE (\E m \in R : x = RejectedRow(m)) /\ (\E n \in R : y = RejectedRow(n))
  <2>1. PICK m \in R : x = RejectedRow(m)
    BY <1>5
  <2>2. PICK n \in R : y = RejectedRow(n)
    BY <1>5
  <2>3. Subject(m).of = Subject(n).of
    BY <2>1, <2>2, RowsDiffer
  <2> QED
    BY <1>2, <2>1, <2>2, <2>3
<1>6. CASE \/ (\E o \in O : x = ScoredRow(o)) /\ (\E n \in R : y = RejectedRow(n))
           \/ (\E m \in R : x = RejectedRow(m)) /\ (\E q \in O : y = ScoredRow(q))
  BY <1>3, <1>6, RowsDiffer
<1> QED
  BY <1>4, <1>5, <1>6 DEF RowsOf

\* A step of c keeps one row for each key, and announces no outcome again
\* whose row is still there.
LEMMA ConsumeKeys ==
    ASSUME ComponentInv, ComponentInv', TableInv, TableInv', KeyInv,
           ReannouncedOnlyAfterRetention, NEW c \in Consumers, Consumes(c)
    PROVE  KeyInv' /\ ReannouncedOnlyAfterRetention'
<1>1. In!KeysAreUnique' /\ Step(c) /\ Out!TypeOK
  BY DEF ComponentInv, Consumes, Consume, Step
<1>2. /\ outbox' \in Seq(Contents) /\ Len(outbox') \in Nat
      /\ Len(outbox) <= Len(outbox') /\ Len(outbox') <= MaxRows
      /\ \A r \in DOMAIN outbox : r \in DOMAIN outbox' /\ outbox'[r] = outbox[r]
      /\ \A r \in DOMAIN outbox' \ DOMAIN outbox : outbox'[r] \in NewRows
      /\ \A x \in NewRows : \E r \in DOMAIN outbox' \ DOMAIN outbox : outbox'[r] = x
      /\ \A q, r \in DOMAIN outbox' \ DOMAIN outbox : outbox'[q] = outbox'[r] => q = r
      /\ Len(outbox') = Cardinality(Deleted) + Cardinality(KeyRows')
  BY <1>1, OutboxGrows
<1>3. /\ \A r \in Rows : IF r \in DOMAIN outbox' \ DOMAIN outbox
                           THEN status[r] = "absent" /\ status'[r] = "pending"
                           ELSE status'[r] = status[r]
      /\ Deleted' = Deleted
  BY <1>1, <1>2, StatusGrows
<1>4. KeyRows \subseteq KeyRows' /\ KeyRows' = KeyRows \cup NewRows /\ KeyRows \cap NewRows = {}
  <2>1. KeyRows \subseteq KeyRows'
    BY <1>1, StepKeys DEF TableInv
  <2> QED
    BY <2>1 DEF NewRows
<1>5. /\ DOMAIN outbox' \subseteq Rows /\ DOMAIN outbox \subseteq DOMAIN outbox'
      /\ \A q, r \in DOMAIN outbox' : q < r /\ r \in DOMAIN outbox => q \in DOMAIN outbox
  <2>1. DOMAIN outbox' = 1 .. Len(outbox')
    BY <1>2
  <2>2. DOMAIN outbox = 1 .. Len(outbox) /\ Len(outbox) \in Nat
    BY DEF TableInv
  <2> QED
    BY <1>2, <2>1, <2>2, Bounds DEF Rows
<1>6. ASSUME NEW r \in DOMAIN outbox', status'[r] # "deleted"
      PROVE  outbox'[r] \in KeyRows' /\ (r \in DOMAIN outbox => outbox'[r] \in KeyRows)
  <2>1. CASE r \in DOMAIN outbox
    <3>1. status'[r] = status[r] /\ outbox'[r] = outbox[r]
      BY <1>2, <1>3, <1>5, <2>1
    <3> QED
      BY <1>4, <1>6, <2>1, <3>1 DEF KeyInv
  <2>2. CASE r \notin DOMAIN outbox
    BY <1>2, <1>4, <2>2
  <2> QED
    BY <2>1, <2>2
<1>7. ASSUME NEW k \in KeyRows'
      PROVE  \E r \in DOMAIN outbox' : status'[r] # "deleted" /\ outbox'[r] = k
  <2>1. CASE k \in KeyRows
    <3>1. PICK r \in DOMAIN outbox : status[r] # "deleted" /\ outbox[r] = k
      BY <2>1 DEF KeyInv
    <3> QED
      BY <1>2, <1>3, <1>5, <3>1
  <2>2. CASE k \in NewRows
    <3>1. PICK r \in DOMAIN outbox' \ DOMAIN outbox : outbox'[r] = k
      BY <1>2, <2>2
    <3> QED
      BY <1>3, <1>5, <3>1
  <2> QED
    BY <1>4, <2>1, <2>2
<1>8. KeyInv'
  BY <1>2, <1>3, <1>6, <1>7 DEF KeyInv
<1>9. ASSUME NEW q \in DOMAIN outbox', NEW r \in DOMAIN outbox', q < r,
             Subject(outbox'[q].src) = Subject(outbox'[r].src),
             outbox'[q].topic = "scored" => outbox'[q].version = outbox'[r].version
      PROVE  status'[q] = "deleted"
  <2>1. CASE r \in DOMAIN outbox
    <3>1. q \in DOMAIN outbox
      BY <1>5, <1>9, <2>1
    <3>2. outbox'[q] = outbox[q] /\ outbox'[r] = outbox[r] /\ status'[q] = status[q]
      BY <1>2, <1>3, <1>5, <2>1, <3>1
    <3> QED
      BY <1>9, <2>1, <3>1, <3>2 DEF ReannouncedOnlyAfterRetention
  <2>2. CASE r \notin DOMAIN outbox
    <3> SUFFICES ASSUME status'[q] # "deleted" PROVE FALSE
      OBVIOUS
    <3>1. outbox'[r] \in NewRows
      BY <1>2, <2>2
    <3>2. outbox'[q] \in KeyRows' /\ outbox'[r] \in KeyRows'
      BY <1>4, <1>6, <3>1
    <3>3. /\ outScored' \subseteq Sources /\ outRejected' \subseteq Refusals
          /\ \A o, p \in outScored' : o.txn = p.txn /\ o.version = p.version => o = p
      BY <1>1 DEF TableInv, In!KeysAreUnique
    <3>4. outbox'[q] = outbox'[r]
      BY <1>9, <3>2, <3>3, OneRowPerSubject DEF KeyRows
    <3>5. q \notin DOMAIN outbox
      BY <1>4, <1>6, <3>1, <3>4
    <3>6. q = r
      BY <1>2, <2>2, <3>4, <3>5
    <3>7. q \in Nat
      BY <1>5, Bounds DEF Rows
    <3> QED
      BY <1>9, <3>6, <3>7
  <2> QED
    BY <2>1, <2>2
<1>10. ReannouncedOnlyAfterRetention'
  BY <1>9 DEF ReannouncedOnlyAfterRetention, Subject, In!Event
<1> QED
  BY <1>8, <1>10

\* A row is about a message of the raw topic.
LEMMA ContentSrc == \A x \in Contents : x.src \in In!Msgs
BY RowsDiffer DEF Contents, RowsOf, Sources, Refusals, In!OutboxRows

\* A step of c leaves a row about everything it records, and records what it
\* leaves a row about.
LEMMA ConsumeAbout ==
    ASSUME ComponentInv, ComponentInv', TableInv, TableInv', KeyInv, KeyInv', AboutInv,
           NEW c \in Consumers, Consumes(c)
    PROVE  AboutInv'
<1>1. Step(c) /\ In!KeysAreUnique' /\ GroupInv
  BY DEF Consumes, Consume, Step, ComponentInv, GroupInv
<1>2. /\ \A r \in DOMAIN outbox : r \in DOMAIN outbox' /\ outbox'[r] = outbox[r]
      /\ \A r \in DOMAIN outbox' \ DOMAIN outbox : outbox'[r] \in NewRows
  BY <1>1, OutboxGrows
<1>3. \A m \in In!Msgs : metricRows[m] > 0 => metricRows'[m] > 0
  BY <1>1, GroupStep
<1>4. \A x \in NewRows : metricRows'[x.src] > 0
  BY <1>1, StepKeys DEF TableInv
<1>5. \A r \in DOMAIN outbox' : metricRows'[outbox'[r].src] > 0
  <2> TAKE r \in DOMAIN outbox'
  <2>1. CASE r \in DOMAIN outbox
    <3>1. outbox[r].src \in In!Msgs
      BY <2>1, ContentSrc DEF TableInv
    <3>2. metricRows[outbox[r].src] > 0
      BY <2>1 DEF AboutInv
    <3> QED
      BY <1>2, <1>3, <2>1, <3>1, <3>2
  <2>2. CASE r \notin DOMAIN outbox
    BY <1>2, <1>4, <2>2
  <2> QED
    BY <2>1, <2>2
<1>6. ASSUME NEW m \in In!Msgs, metricRows'[m] > 0
      PROVE  \E r \in DOMAIN outbox' : Subject(outbox'[r].src) = Subject(m)
  <2>1. CASE metricRows[m] > 0
    <3>1. PICK r \in DOMAIN outbox : Subject(outbox[r].src) = Subject(m)
      BY <2>1 DEF AboutInv, RowsAbout
    <3> QED
      BY <1>2, <3>1
  <2>2. CASE ~ (metricRows[m] > 0)
    <3>1. /\ In!TableTypes /\ In!TypeOK /\ In!ConstantsAssumption
          /\ batch[c] \in Seq(In!Entries) /\ In!EntriesMatch(batch[c])
      BY <1>1, Bounds DEF GroupInv, In!TypeOK, In!ProcessTypes
    <3>2. In!SaveBatch(batch[c])
      <4>1. UNCHANGED In!saved \/ In!SaveBatch(batch[c])
        BY <1>1, <3>1, Bounds, In!ProcessTables DEF Step
      <4> QED
        BY <1>6, <2>2, <4>1 DEF In!saved
    <3>3. PICK i \in DOMAIN batch[c] : batch[c][i].msg = m
      BY <1>6, <2>2, <3>1, <3>2, In!SaveBatchRows
    <3>4. IF In!Accepted(m)
            THEN \E o \in outScored' : o.txn = In!Event(m).txn
            ELSE m \in outRejected'
      BY <3>1, <3>2, <3>3, EntryKeys
    <3>5. CASE In!Accepted(m)
      <4>1. PICK o \in outScored' : o.txn = In!Event(m).txn
        BY <3>4, <3>5
      <4>2. o \in Sources /\ ScoredRow(o) \in KeyRows'
        BY DEF TableInv, KeyRows, RowsOf
      <4>3. PICK r \in DOMAIN outbox' : outbox'[r] = ScoredRow(o)
        BY <4>2 DEF KeyInv
      <4>4. outbox'[r].src = o.src
        BY <4>3, RowsDiffer
      <4>5. Subject(o.src) = Subject(m)
        BY <3>5, <4>1, <4>2 DEF Sources, Subject
      <4> QED
        BY <4>4, <4>5
    <3>6. CASE ~ In!Accepted(m)
      <4>1. RejectedRow(m) \in KeyRows'
        BY <3>4, <3>6 DEF KeyRows, RowsOf
      <4>2. PICK r \in DOMAIN outbox' : outbox'[r] = RejectedRow(m)
        BY <4>1 DEF KeyInv
      <4> QED
        BY <4>2, RowsDiffer
    <3> QED
      BY <3>5, <3>6
  <2> QED
    BY <2>1, <2>2
<1> QED
  BY <1>5, <1>6 DEF AboutInv, RowsAbout, Subject, In!Event

-----------------------------------------------------------------------------
(***************************************************************************)
(* The other steps.                                                        *)
(***************************************************************************)

\* What the table's invariants say depends on these variables alone.
LEMMA TableKeeps ==
    ASSUME TableInv, KeyInv, AboutInv, ReannouncedOnlyAfterRetention,
           UNCHANGED <<outbox, outScored, outRejected, metricRows>>,
           \A r \in Rows : \/ status'[r] = status[r]
                           \/ status[r] = "pending" /\ status'[r] = "published",
           \A r \in Rows : status[r] = "absent" => attempts'[r] = attempts[r]
    PROVE  TableInv' /\ KeyInv' /\ AboutInv' /\ ReannouncedOnlyAfterRetention'
<1>1. KeyRows' = KeyRows
  BY DEF KeyRows
<1>2. /\ \A r \in Rows : status'[r] = "absent" <=> status[r] = "absent"
      /\ \A r \in Rows : status'[r] = "deleted" <=> status[r] = "deleted"
  OBVIOUS
<1>3. DOMAIN outbox \subseteq Rows
  BY Bounds DEF TableInv, Rows
<1>4. TableInv'
  BY <1>2 DEF TableInv, Out!Pristine
<1>5. Deleted' = Deleted
  BY <1>2 DEF Deleted
<1>6. KeyInv'
  BY <1>1, <1>2, <1>3, <1>5 DEF KeyInv
<1>7. AboutInv'
  BY DEF AboutInv, RowsAbout, Subject, In!Event
<1>8. ReannouncedOnlyAfterRetention'
  BY <1>2, <1>3 DEF ReannouncedOnlyAfterRetention, Subject, In!Event
<1> QED
  BY <1>4, <1>6, <1>7, <1>8

\* The consumers' invariant depends on the keys only for being unique.
LEMMA GroupKeeps ==
    ASSUME GroupInv, UNCHANGED consumer, outScored' \subseteq outScored,
           outRejected' \subseteq outRejected
    PROVE  GroupInv'
<1>1. UNCHANGED <<owner, position, committed, cpc, batch, ccur, attempt, alertIdx, closing,
                  scored, rejections, metricRows, alertMetrics, retryMetrics, alertsSent, faults>>
  BY DEF consumer, group, process, outcomes
<1>2. In!TypeOK'
  BY <1>1 DEF GroupInv, In!TypeOK, In!GroupTypes, In!ProcessTypes, In!TableTypes, In!AuditTypes
<1>3. In!CommitInv'
  BY <1>1 DEF GroupInv, In!CommitInv, In!CommittedDurable, In!ProcessInv, In!BatchSettled,
     In!CurSettled, In!PositionSettled, In!FlushedDurable, In!ClosingFlushes, In!Settled,
     In!InBatch, In!Durable, In!Event
<1>4. In!KeysAreUnique'
  BY <1>1 DEF GroupInv, In!KeysAreUnique
<1>5. \A c \in Consumers : In!EntriesMatch(batch'[c])
  BY <1>1 DEF GroupInv
<1> QED
  BY <1>1, <1>2, <1>3, <1>4, <1>5 DEF GroupInv

\* What the publishers' invariant rests on.
LEMMA TopicStep == ASSUME TopicInv, [Out!Next]_Out!vars PROVE TopicInv'
<1>1. Out!OutboxAssumption
  BY Bounds
<1>2. Out!TypeOK'
  BY <1>1, Out!TypeStep DEF TopicInv
<1>3. Out!LeaseInv'
  BY <1>1, <1>2, Out!LeaseStep DEF TopicInv
<1>4. Out!RowInv'
  BY <1>1, <1>2, Out!RowStep DEF TopicInv
<1> QED
  BY <1>2, <1>3, <1>4 DEF TopicInv

LEMMA SourceKeeps ==
    ASSUME SourceInv, UNCHANGED <<produced, consumer>>
    PROVE  SourceInv'
BY DEF SourceInv, In!Within, consumer, group, process, outcomes

\* The producer appends.
LEMMA ProduceStep ==
    ASSUME PipelineInv, NEW p \in Partitions, Produce(p)
    PROVE  PipelineInv'
<1>1. /\ produced' = [produced EXCEPT ![p] = @ + 1]
      /\ UNCHANGED <<outbox, consumer, keys, status, delivery, publisher>>
  BY DEF Produce
<1>2. GroupInv /\ TopicInv /\ SourceInv /\ TableInv /\ KeyInv /\ AboutInv
  BY Halves DEF PipelineInv
<1>3. GroupInv'
  BY <1>1, <1>2, GroupKeeps DEF keys
<1>4. TopicInv'
  <2>1. UNCHANGED Out!vars
    BY <1>1 DEF delivery, publisher, Out!vars
  <2> QED
    BY <1>2, <2>1, TopicStep
<1>5. SourceInv'
  <2>1. /\ produced \in [Partitions -> Nat] /\ produced' \in [Partitions -> Nat]
        /\ \A q \in Partitions : produced[q] <= produced'[q]
    BY <1>1, <1>2 DEF SourceInv
  <2>2. In!Within(produced')
    BY <1>2, <2>1, Bounds, In!WithinGrows DEF SourceInv, GroupInv
  <2>3. UNCHANGED <<position, committed, metricRows, cpc, ccur, batch>>
    BY <1>1 DEF consumer, group, process, outcomes
  <2> QED
    BY <2>1, <2>2, <2>3 DEF SourceInv, In!Within
<1>6. TableInv' /\ KeyInv' /\ AboutInv' /\ ReannouncedOnlyAfterRetention'
  <2>1. UNCHANGED <<outbox, outScored, outRejected, metricRows, status, attempts>>
    BY <1>1 DEF consumer, outcomes, keys, delivery
  <2> QED
    BY <1>2, <2>1, TableKeeps DEF PipelineInv
<1> QED
  BY <1>3, <1>4, <1>5, <1>6 DEF PipelineInv, ComponentInv, GroupInv, TopicInv

\* The coordinator hands out partitions.
LEMMA RebalanceStep == ASSUME PipelineInv, Rebalance PROVE PipelineInv'
<1>1. In!Rebalance /\ UNCHANGED <<produced, outbox, status, delivery, publisher>>
  BY DEF Rebalance
<1>2. GroupInv /\ TopicInv /\ SourceInv /\ TableInv /\ KeyInv /\ AboutInv
  BY Halves DEF PipelineInv
<1>3. UNCHANGED <<outScored, outRejected, metricRows>>
  BY <1>1 DEF In!Rebalance, In!saved
<1>4. GroupInv'
  BY <1>1, <1>2, GroupStep
<1>5. TopicInv'
  <2>1. UNCHANGED Out!vars
    BY <1>1 DEF delivery, publisher, Out!vars
  <2> QED
    BY <1>2, <2>1, TopicStep
<1>6. SourceInv'
  <2>1. produced \in [Partitions -> Nat] /\ In!Within(produced)
    BY <1>2 DEF SourceInv
  <2> QED
    BY <1>1, <2>1, Bounds, In!WithinRebalance DEF SourceInv, In!Within
<1>7. TableInv' /\ KeyInv' /\ AboutInv' /\ ReannouncedOnlyAfterRetention'
  <2>1. UNCHANGED <<outbox, outScored, outRejected, metricRows, status, attempts>>
    BY <1>1, <1>3 DEF delivery
  <2> QED
    BY <1>2, <2>1, TableKeeps DEF PipelineInv
<1> QED
  BY <1>4, <1>5, <1>6, <1>7 DEF PipelineInv, ComponentInv, GroupInv, TopicInv

\* A step on the publishers' side.
Publishes == \/ \E p \in Publishers : Publish(Out!Work(p)) \/ Publish(Out!Failure(p))
             \/ \E r \in Rows : Publish(Out!BackoffEnds(r))
             \/ \E t \in 1 .. claims : Publish(Out!Expire(t))

LEMMA PublishTable ==
    ASSUME TopicInv, Out!Pristine, Publishes
    PROVE  /\ TopicInv' /\ UNCHANGED <<produced, outbox, consumer, keys>>
           /\ \A r \in Rows : /\ \/ status'[r] = status[r]
                                 \/ status[r] = "pending" /\ status'[r] = "published"
                              /\ status[r] = "absent" => attempts'[r] = attempts[r]
                              /\ copies'[r] >= copies[r]
<1>1. Out!Next /\ UNCHANGED <<produced, outbox, consumer, keys>>
  BY DEF Publishes, Publish, Out!Next
<1>2. TopicInv'
  BY <1>1, TopicStep
<1>3. CASE \E p \in Publishers : Out!Work(p) \/ Out!Failure(p)
  <2>1. Out!OutboxAssumption /\ Out!TypeOK'
    BY <1>2, Bounds DEF TopicInv
  <2> QED
    BY <1>1, <1>2, <1>3, <2>1, Out!WorkStep DEF TopicInv
<1>4. CASE (\E r \in Rows : Out!BackoffEnds(r)) \/ (\E t \in 1 .. claims : Out!Expire(t))
  <2>1. UNCHANGED <<status, attempts, copies>>
    BY <1>4 DEF Out!BackoffEnds, Out!Expire, Out!table
  <2> QED
    BY <1>1, <1>2, <2>1 DEF TopicInv, Out!TypeOK
<1> QED
  BY <1>3, <1>4 DEF Publishes, Publish

LEMMA PublishStep == ASSUME PipelineInv, Publishes PROVE PipelineInv'
<1>1. GroupInv /\ TopicInv /\ SourceInv /\ TableInv /\ KeyInv /\ AboutInv /\ Out!Pristine
  BY Halves DEF PipelineInv, TableInv
<1>2. /\ TopicInv' /\ UNCHANGED <<produced, outbox, consumer, keys>>
      /\ \A r \in Rows : \/ status'[r] = status[r]
                         \/ status[r] = "pending" /\ status'[r] = "published"
      /\ \A r \in Rows : status[r] = "absent" => attempts'[r] = attempts[r]
  BY <1>1, PublishTable
<1>3. GroupInv' /\ SourceInv'
  BY <1>1, <1>2, GroupKeeps, SourceKeeps DEF keys
<1>4. TableInv' /\ KeyInv' /\ AboutInv' /\ ReannouncedOnlyAfterRetention'
  <2>1. UNCHANGED <<outbox, outScored, outRejected, metricRows>>
    BY <1>2 DEF consumer, outcomes, keys
  <2> QED
    BY <1>1, <1>2, <2>1, TableKeeps DEF PipelineInv
<1> QED
  BY <1>2, <1>3, <1>4 DEF PipelineInv, ComponentInv, GroupInv, TopicInv

\* Retention deletes a row and the one key it stands for.
LEMMA RetireStep == ASSUME PipelineInv, NEW r \in Rows, Retire(r) PROVE PipelineInv'
<1>1. /\ GroupInv /\ TopicInv /\ SourceInv /\ TableInv /\ KeyInv /\ AboutInv
      /\ ReannouncedOnlyAfterRetention
  BY Halves DEF PipelineInv
<1>2. /\ status[r] = "published" /\ status' = [status EXCEPT ![r] = "deleted"]
      /\ UNCHANGED <<produced, outbox, consumer, attempts>>
      /\ Cardinality(Deleted) < MaxRetired
      /\ outScored' = {o \in outScored : ScoredRow(o) # outbox[r]}
      /\ outRejected' = {m \in outRejected : RejectedRow(m) # outbox[r]}
  BY DEF Retire, Out!Retire
<1>3. TopicInv'
  <2>1. Out!Next
    BY DEF Retire, Out!Next
  <2> QED
    BY <1>1, <2>1, TopicStep
<1>4. GroupInv' /\ SourceInv'
  BY <1>1, <1>2, GroupKeeps, SourceKeeps
<1>5. status \in [Rows -> {"absent", "pending", "published", "deleted"}]
  BY <1>1 DEF TopicInv, Out!TypeOK
<1>6. /\ DOMAIN outbox \subseteq Rows /\ r \in DOMAIN outbox
      /\ \A q \in Rows : q # r => status'[q] = status[q]
      /\ status'[r] = "deleted"
  <2>1. r \in DOMAIN outbox
    <3>1. ~ (r > Len(outbox)) /\ Len(outbox) \in Nat /\ r \in Nat /\ r >= 1
      BY <1>1, <1>2, Bounds DEF TableInv, Rows
    <3> QED
      BY <1>1, <3>1 DEF TableInv
  <2> QED
    BY <1>1, <1>2, <1>5, <2>1, Bounds DEF TableInv, Rows
<1>7. TableInv'
  <2>1. \A q \in Rows : status'[q] = "absent" <=> status[q] = "absent"
    BY <1>2, <1>6
  <2> QED
    BY <1>1, <1>2, <2>1 DEF TableInv, Out!Pristine
<1>8. KeyRows' = KeyRows \ {outbox[r]}
  BY <1>2 DEF KeyRows, RowsOf
<1>9. outbox[r] \in KeyRows
  BY <1>1, <1>2, <1>6 DEF KeyInv
<1>10. ASSUME NEW q \in DOMAIN outbox, q # r, status[q] # "deleted"
       PROVE  outbox[q] # outbox[r]
  <2>1. q \in Nat /\ r \in Nat
    BY <1>6, Bounds DEF Rows
  <2>2. q < r \/ r < q
    BY <1>10, <2>1
  <2> QED
    BY <1>1, <1>2, <1>6, <1>10, <2>2 DEF ReannouncedOnlyAfterRetention
<1>11. Deleted' = Deleted \cup {r} /\ r \notin Deleted
  BY <1>2, <1>6 DEF Deleted
<1>12. /\ Cardinality(Deleted') = Cardinality(Deleted) + 1
       /\ Cardinality(KeyRows') = Cardinality(KeyRows) - 1
       /\ Cardinality(KeyRows) \in Nat
  <2>1. IsFiniteSet(KeyRows)
    <3>1. \A o, q \in outScored : o.txn = q.txn /\ o.version = q.version => o = q
      BY <1>1 DEF GroupInv, In!KeysAreUnique
    <3> QED
      BY <1>1, <3>1, KeysCount DEF TableInv, KeyRows
  <2> QED
    BY <1>8, <1>9, <1>11, <2>1, DeletedFinite, FS_AddElement, FS_RemoveElement, FS_CardinalityType
<1>13. KeyInv'
  <2>1. ASSUME NEW q \in DOMAIN outbox, status'[q] # "deleted" PROVE outbox[q] \in KeyRows'
    BY <1>1, <1>6, <1>8, <1>10, <2>1 DEF KeyInv
  <2>2. ASSUME NEW k \in KeyRows'
        PROVE  \E q \in DOMAIN outbox : status'[q] # "deleted" /\ outbox[q] = k
    <3>1. PICK q \in DOMAIN outbox : status[q] # "deleted" /\ outbox[q] = k
      BY <1>1, <1>8 DEF KeyInv
    <3> QED
      BY <1>6, <1>8, <3>1
  <2>3. /\ Len(outbox) = Cardinality(Deleted') + Cardinality(KeyRows')
        /\ Cardinality(Deleted') <= MaxRetired
    BY <1>1, <1>2, <1>12, DeletedFinite, Bounds DEF KeyInv
  <2> QED
    BY <1>2, <2>1, <2>2, <2>3 DEF KeyInv
<1>14. AboutInv'
  BY <1>1, <1>2 DEF AboutInv, RowsAbout, Subject, In!Event, consumer, outcomes
<1>15. ReannouncedOnlyAfterRetention'
  BY <1>1, <1>2, <1>6 DEF ReannouncedOnlyAfterRetention, Subject, In!Event
<1> QED
  BY <1>3, <1>4, <1>7, <1>13, <1>14, <1>15 DEF PipelineInv, ComponentInv, GroupInv, TopicInv

-----------------------------------------------------------------------------
(***************************************************************************)
(* The invariant, and what follows from it.                                *)
(***************************************************************************)

\* Nothing is produced, stored or announced at first.
LEMMA PipelineInit == Init => PipelineInv
<1> SUFFICES ASSUME Init PROVE PipelineInv
  OBVIOUS
<1>1. In!Init /\ Out!Init /\ outbox = <<>> /\ produced = [p \in Partitions |-> 0]
  BY DEF Init
<1>2. GroupInv
  <2>1. In!TypeOK
    BY <1>1, Bounds, In!TypeInit
  <2>2. In!CommitInv
    BY <1>1, Bounds, In!CommitInit
  <2>3. In!KeysAreUnique /\ \A c \in Consumers : In!EntriesMatch(batch[c])
    BY <1>1 DEF In!Init, In!KeysAreUnique, In!EntriesMatch
  <2> QED
    BY <2>1, <2>2, <2>3 DEF GroupInv
<1>3. TopicInv
  <2>1. Out!TypeOK
    BY <1>1, Bounds, Out!TypeInit
  <2>2. Out!LeaseInv
    BY <1>1, Bounds, Out!LeaseInit
  <2>3. Out!RowInv
    BY <1>1, Bounds, Out!RowInit
  <2> QED
    BY <2>1, <2>2, <2>3 DEF TopicInv
<1>4. SourceInv
  BY <1>1 DEF SourceInv, In!Within, In!Init
<1>5. outScored = {} /\ outRejected = {} /\ KeyRows = {} /\ \A r \in Rows : status[r] = "absent"
  BY <1>1 DEF In!Init, Out!Init, KeyRows, RowsOf
<1>6. TableInv
  <2>1. \A r \in Rows : r > 0
    BY Bounds DEF Rows
  <2> QED
    BY <1>1, <1>5, <2>1, Bounds DEF TableInv, Out!Pristine, Out!Init
<1>7. KeyInv
  <2>1. Deleted = {}
    BY <1>5 DEF Deleted
  <2>2. Cardinality({}) = 0
    BY FS_EmptySet
  <2> QED
    BY <1>1, <1>5, <2>1, <2>2, Bounds DEF KeyInv
<1>8. AboutInv /\ ReannouncedOnlyAfterRetention
  BY <1>1 DEF AboutInv, ReannouncedOnlyAfterRetention, In!Init
<1> QED
  BY <1>2, <1>3, <1>4, <1>6, <1>7, <1>8, Halves DEF PipelineInv

\* A step of a consumer, whatever becomes of it.
LEMMA ConsumeStep ==
    ASSUME PipelineInv, NEW c \in Consumers, Consumes(c)
    PROVE  PipelineInv'
<1>1. ComponentInv' /\ SourceInv' /\ TableInv'
  BY ConsumeComponents DEF PipelineInv
<1>2. KeyInv' /\ ReannouncedOnlyAfterRetention'
  BY <1>1, ConsumeKeys DEF PipelineInv
<1>3. AboutInv'
  BY <1>1, <1>2, ConsumeAbout DEF PipelineInv
<1> QED
  BY <1>1, <1>2, <1>3 DEF PipelineInv

LEMMA PipelineStep == PipelineInv /\ [Next]_vars => PipelineInv'
<1> SUFFICES ASSUME PipelineInv, [Next]_vars PROVE PipelineInv'
  OBVIOUS
<1>1. CASE UNCHANGED vars
  <2>1. GroupInv /\ TopicInv /\ SourceInv
    BY Halves DEF PipelineInv
  <2>2. UNCHANGED <<produced, outbox, consumer, outScored, outRejected, metricRows, status,
                    attempts, Out!vars>>
    BY <1>1 DEF vars, keys, delivery, publisher, consumer, outcomes, Out!vars
  <2>3. GroupInv' /\ TopicInv' /\ SourceInv'
    BY <2>1, <2>2, GroupKeeps, TopicStep, SourceKeeps
  <2>4. TableInv' /\ KeyInv' /\ AboutInv' /\ ReannouncedOnlyAfterRetention'
    BY <2>2, TableKeeps DEF PipelineInv
  <2> QED
    BY <2>3, <2>4 DEF PipelineInv, ComponentInv, GroupInv, TopicInv
<1>2. CASE \E p \in Partitions : Produce(p)
  BY <1>2, ProduceStep
<1>3. CASE Rebalance
  BY <1>3, RebalanceStep
<1>4. CASE \E c \in Consumers : Consumes(c)
  BY <1>4, ConsumeStep
<1>5. CASE Publishes
  BY <1>5, PublishStep
<1>6. CASE \E r \in Rows : Retire(r)
  BY <1>6, RetireStep
<1> QED
  BY <1>1, <1>2, <1>3, <1>4, <1>5, <1>6 DEF Next, Consumes, Publishes

\* In every reachable state the components keep their invariants, nothing runs
\* ahead of the producer, and kafka_outbox is one row for each dedupe key and
\* each deleted row.
THEOREM PipelineIsInvariant == Spec => []PipelineInv
BY PipelineInit, PipelineStep, PTL DEF Spec

\* No acknowledged record is lost on its way to the topics: its outcome was
\* announced, or a pending row of kafka_outbox still owes it.
THEOREM AcknowledgedAreOwed == Spec => []AcknowledgedIsOwed
<1>1. PipelineInv => AcknowledgedIsOwed
  <2> SUFFICES ASSUME PipelineInv, NEW m \in In!Msgs, m[2] <= committed[m[1]]
               PROVE  \/ Announced(Subject(m))
                      \/ \E r \in RowsAbout(Subject(m)) : status[r] = "pending"
    BY DEF AcknowledgedIsOwed
  <2>1. GroupInv /\ TopicInv /\ TableInv /\ AboutInv
    BY Halves DEF PipelineInv
  <2>2. metricRows[m] > 0
    BY <2>1 DEF GroupInv, In!CommitInv, In!CommittedDurable, In!Durable
  <2>3. PICK r \in RowsAbout(Subject(m)) : TRUE
    BY <2>1, <2>2 DEF AboutInv
  <2>4. r \in DOMAIN outbox
    BY DEF RowsAbout
  <2>5. r \in Rows /\ status[r] # "absent"
    BY <2>1, <2>4, Bounds DEF TableInv, Rows
  <2>6. status[r] \in {"absent", "pending", "published", "deleted"}
    BY <2>1, <2>5 DEF TopicInv, Out!TypeOK
  <2>7. status[r] \in {"published", "deleted"} => copies[r] > 0
    BY <2>1, <2>5, Bounds, Out!CopiesBounds DEF TopicInv
  <2> QED
    BY <2>5, <2>6, <2>7 DEF Announced
<1> QED
  BY <1>1, PipelineIsInvariant, PTL

\* Delivering a record again makes no second row about its outcome, unless
\* retention has deleted the first.
THEOREM AnnouncedOnceWhileKept == Spec => []ReannouncedOnlyAfterRetention
<1>1. PipelineInv => ReannouncedOnlyAfterRetention
  BY DEF PipelineInv
<1> QED
  BY <1>1, PipelineIsInvariant, PTL

-----------------------------------------------------------------------------
(***************************************************************************)
(* The pipeline implements EndToEnd.                                       *)
(***************************************************************************)

\* What the refinement mapping reads off the state.
ProducedMsgs == {m \in In!Msgs : m[2] <= produced[m[1]]}
RecordedMsgs == {m \in In!Msgs : metricRows[m] > 0}
AnnouncedSubjects == {Subject(outbox[r].src) : r \in {q \in DOMAIN outbox : copies[q] > 0}}

\* A step of a consumer announces nothing: the rows it inserts are new.
LEMMA ConsumeAnnounces ==
    ASSUME PipelineInv, PipelineInv', NEW c \in Consumers, Consumes(c)
    PROVE  AnnouncedSubjects' = AnnouncedSubjects
<1>1. GroupInv /\ TopicInv /\ TableInv /\ KeyInv /\ In!KeysAreUnique' /\ ComponentInv
  BY Halves DEF PipelineInv, ComponentInv
<1>2. /\ outbox' \in Seq(Contents)
      /\ Len(outbox) <= Len(outbox') /\ Len(outbox') <= MaxRows
      /\ \A r \in DOMAIN outbox : r \in DOMAIN outbox' /\ outbox'[r] = outbox[r]
  BY <1>1, OutboxGrows
<1>3. /\ copies' = copies
      /\ \A r \in Rows : r \in DOMAIN outbox' \ DOMAIN outbox => status[r] = "absent"
  BY <1>1, <1>2, StatusGrows DEF TopicInv, delivery
<1>4. ASSUME NEW r \in DOMAIN outbox' \ DOMAIN outbox PROVE ~ (copies'[r] > 0)
  <2>1. r \in Rows
    BY <1>2, Bounds DEF Rows
  <2>2. attempts[r] = 0
    BY <1>1, <1>3, <2>1 DEF TableInv, Out!Pristine
  <2>3. copies[r] = 0
    BY <1>1, <2>1, <2>2, Bounds, Out!PristineFacts DEF TopicInv
  <2> QED
    BY <1>3, <2>3
<1> QED
  BY <1>2, <1>3, <1>4 DEF AnnouncedSubjects, Subject, In!Event

\* A step of a consumer records outcomes of produced records, or acknowledges
\* recorded ones.
LEMMA ConsumeIngests ==
    ASSUME PipelineInv, PipelineInv', NEW c \in Consumers, Consumes(c)
    PROVE  Promise!Ingest
<1>1. GroupInv /\ GroupInv' /\ SourceInv' /\ In!ConstantsAssumption
  BY Halves, Bounds DEF PipelineInv, ComponentInv, GroupInv
<1>2. UNCHANGED produced /\ In!Next
  BY DEF Consumes, Consume, In!Next
<1>3. In!DurableGrows /\ (metricRows' = metricRows \/ committed' = committed)
  BY <1>1, <1>2, In!RecordsOrCommits DEF GroupInv
<1>4. RecordedMsgs \subseteq RecordedMsgs'
  BY <1>3 DEF RecordedMsgs, In!DurableGrows, In!Durable
<1>5. /\ committed' \in [Partitions -> Nat]
      /\ \A m \in In!Msgs : m[2] <= committed'[m[1]] => metricRows'[m] > 0
  BY <1>1 DEF GroupInv, In!TypeOK, In!GroupTypes, In!CommitInv, In!CommittedDurable, In!Durable
<1>6. Promise!Ingestion!Next
  <2>1. CASE committed' = committed
    BY <1>4, <2>1 DEF Promise!Ingestion!Next, Promise!Ingestion!Record, RecordedMsgs
  <2>2. CASE metricRows' = metricRows
    BY <1>5, <2>2 DEF Promise!Ingestion!Next, Promise!Ingestion!Acknowledge,
       Promise!Ingestion!Covered
  <2> QED
    BY <1>3, <2>1, <2>2
<1>7. RecordedMsgs' \subseteq ProducedMsgs
  BY <1>1, <1>2 DEF RecordedMsgs, ProducedMsgs, SourceInv, In!Within
<1>8. AnnouncedSubjects' = AnnouncedSubjects
  BY ConsumeAnnounces
<1> QED
  BY <1>2, <1>6, <1>7, <1>8 DEF Promise!Ingest, RecordedMsgs, ProducedMsgs, AnnouncedSubjects

\* A step on the publishers' side announces recorded outcomes.
LEMMA PublishAnnounces ==
    ASSUME PipelineInv, Publishes
    PROVE  Promise!Announce
<1>1. TopicInv /\ TopicInv' /\ TableInv /\ AboutInv /\ Out!Pristine
  BY Halves, PublishTable DEF PipelineInv, TableInv
<1>2. /\ UNCHANGED <<produced, outbox, metricRows, committed>>
      /\ \A r \in Rows : copies'[r] >= copies[r]
  BY <1>1, PublishTable DEF consumer, group, outcomes
<1>3. \A r \in DOMAIN outbox : r \in Rows /\ copies[r] \in Nat /\ copies'[r] \in Nat
  <2>1. DOMAIN outbox \subseteq Rows
    BY <1>1, Bounds DEF TableInv, Rows
  <2>2. copies \in [Rows -> Nat] /\ copies' \in [Rows -> Nat]
    BY <1>1 DEF TopicInv, Out!TypeOK
  <2> QED
    BY <2>1, <2>2
<1>4. AnnouncedSubjects \subseteq AnnouncedSubjects'
  <2>1. \A r \in DOMAIN outbox : copies[r] > 0 => copies'[r] > 0
    BY <1>2, <1>3
  <2> QED
    BY <1>2, <2>1 DEF AnnouncedSubjects, Subject, In!Event
<1>5. AnnouncedSubjects' \subseteq {Subject(m) : m \in RecordedMsgs}
  <2>1. \A r \in DOMAIN outbox : outbox[r].src \in RecordedMsgs
    BY <1>1, ContentSrc DEF TableInv, AboutInv, RecordedMsgs
  <2> QED
    BY <1>2, <2>1 DEF AnnouncedSubjects, Subject, In!Event
<1> QED
  BY <1>2, <1>4, <1>5 DEF Promise!Announce, AnnouncedSubjects, RecordedMsgs

\* Every behaviour of the pipeline is one of EndToEnd: no message about an
\* outcome that was rolled back, no offset ahead of the database, nothing
\* recorded that was not produced.
THEOREM RefinesEndToEnd == Spec => ImplementsEndToEnd
<1>1. Init => Promise!Init
  <2> SUFFICES ASSUME Init PROVE Promise!Init
    OBVIOUS
  <2>1. /\ In!Init /\ Out!Init /\ outbox = <<>> /\ produced = [p \in Partitions |-> 0]
    BY DEF Init
  <2>2. \A m \in In!Msgs : m[1] \in Partitions /\ m[2] \in 1 .. Len(Raw[m[1]])
    BY DEF In!Msgs
  <2>3. ProducedMsgs = {} /\ RecordedMsgs = {} /\ AnnouncedSubjects = {}
    BY <2>1, <2>2 DEF ProducedMsgs, RecordedMsgs, AnnouncedSubjects, In!Init
  <2>4. committed = [p \in Partitions |-> 0]
    BY <2>1 DEF In!Init
  <2> QED
    BY <2>3, <2>4 DEF Promise!Init, Promise!Ingestion!Init, ProducedMsgs, RecordedMsgs,
       AnnouncedSubjects
<1>2. PipelineInv /\ PipelineInv' /\ [Next]_vars =>
        [Promise!Next]_<<ProducedMsgs, RecordedMsgs, committed, AnnouncedSubjects>>
  <2> SUFFICES ASSUME PipelineInv, PipelineInv', [Next]_vars
               PROVE  \/ Promise!Next
                      \/ UNCHANGED <<ProducedMsgs, RecordedMsgs, committed, AnnouncedSubjects>>
    OBVIOUS
  <2>1. ASSUME UNCHANGED <<produced, outbox, copies, metricRows, committed>>
        PROVE  UNCHANGED <<ProducedMsgs, RecordedMsgs, committed, AnnouncedSubjects>>
    BY <2>1 DEF ProducedMsgs, RecordedMsgs, AnnouncedSubjects, Subject, In!Event
  <2>2. CASE UNCHANGED vars
    BY <2>1, <2>2 DEF vars, consumer, group, outcomes, delivery
  <2>3. CASE \E p \in Partitions : Produce(p)
    <3>1. PICK p \in Partitions : Produce(p)
      BY <2>3
    <3>2. /\ UNCHANGED <<outbox, copies, metricRows, committed>>
          /\ produced' = [produced EXCEPT ![p] = @ + 1]
      BY <3>1 DEF Produce, consumer, group, outcomes, delivery
    <3>3. ProducedMsgs \subseteq ProducedMsgs'
      <4>1. produced \in [Partitions -> Nat]
        BY DEF PipelineInv, SourceInv
      <4>2. \A q \in Partitions : produced[q] \in Nat /\ produced'[q] \in Nat
                                  /\ produced[q] <= produced'[q]
        BY <3>2, <4>1
      <4>3. \A m \in In!Msgs : m[1] \in Partitions /\ m[2] \in Nat
        BY DEF In!Msgs
      <4> QED
        BY <4>2, <4>3 DEF ProducedMsgs
    <3>4. UNCHANGED <<RecordedMsgs, AnnouncedSubjects>>
      BY <3>2 DEF RecordedMsgs, AnnouncedSubjects, Subject, In!Event
    <3> QED
      BY <3>2, <3>3, <3>4 DEF Promise!Next, Promise!Produce, ProducedMsgs, RecordedMsgs,
         AnnouncedSubjects
  <2>4. CASE Rebalance
    BY <2>1, <2>4 DEF Rebalance, In!Rebalance, In!saved, delivery
  <2>5. CASE \E c \in Consumers : Consumes(c)
    BY <2>5, ConsumeIngests DEF Promise!Next
  <2>6. CASE Publishes
    BY <2>6, PublishAnnounces DEF Promise!Next
  <2>7. CASE \E r \in Rows : Retire(r)
    BY <2>1, <2>7 DEF Retire, Out!Retire, consumer, group, outcomes
  <2> QED
    BY <2>2, <2>3, <2>4, <2>5, <2>6, <2>7 DEF Next, Consumes, Publishes
<1> QED
  BY <1>1, <1>2, PipelineIsInvariant, PTL
  DEF Spec, ImplementsEndToEnd, Promise!Spec, ProducedMsgs, RecordedMsgs, AnnouncedSubjects
=============================================================================
