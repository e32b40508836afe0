----------------------- MODULE IngestDuplicateProofs -----------------------
(***************************************************************************)
(* How often a message can be stored.  Redelivery duplicates the rows of   *)
(* append-only tables, and DuplicatesNeedFaults bounds how many a number   *)
(* of failures can leave.  The proof is an account kept per message: the   *)
(* rows it has, the copies of it that processes hold and have not saved,   *)
(* and the readings of it still to come.  A step that is no failure never  *)
(* adds to the account; a failure at most doubles it.                      *)
(***************************************************************************)
EXTENDS IngestConsumerProofs

-----------------------------------------------------------------------------
(* The account of a message.                                               *)

Scoring(c, m) == pc[c] = "score" /\ cur[c] = m

\* Copies of m whose rows are still to be written: entries of batches that
\* are not flushed, and the message being scored (place 0).
InMemory(m) ==
    UNION {{c} \X Copies(batch[c], m) : c \in {d \in Consumers : ~ Flushed(d)}}
BeingScored(m) == {<<c, 0>> : c \in {d \in Consumers : Scoring(d, m)}}
Unsaved(m) == InMemory(m) \cup BeingScored(m)

\* Copies of m whose rows were written by a flush that has not ended.
FlushedCopies(m) ==
    UNION {{c} \X Copies(batch[c], m) : c \in {d \in Consumers : Flushed(d)}}

Holdings(m) == metricRows[m] + Cardinality(Unsaved(m))

Read(m) == m[2] <= position[m[1]]
Covered(m) == m[2] <= committed[m[1]]

\* What process d holds may commit an offset below m, and make it unread.
Below(d, m) == m[1] \in Touched(batch[d]) /\ LastPolled(batch[d], m[1]) < m[2]
ScoresBelow(d, m) == pc[d] = "score" /\ cur[d][1] = m[1] /\ cur[d][2] < m[2]
Threat(d, m) == Below(d, m) \/ ScoresBelow(d, m)

-----------------------------------------------------------------------------
(* Counting.                                                               *)

LEMMA OneMore ==
    ASSUME NEW S, IsFiniteSet(S), NEW x, NEW T, T \subseteq S \cup {x}
    PROVE  /\ IsFiniteSet(T) /\ Cardinality(T) \in Nat /\ Cardinality(S) \in Nat
           /\ Cardinality(T) <= Cardinality(S) + 1
<1>1. /\ IsFiniteSet(S \cup {x})
      /\ Cardinality(S \cup {x}) = IF x \in S THEN Cardinality(S) ELSE Cardinality(S) + 1
  BY FS_AddElement
<1>2. IsFiniteSet(T) /\ Cardinality(T) <= Cardinality(S \cup {x})
  BY <1>1, FS_Subset
<1>3. Cardinality(S) \in Nat /\ Cardinality(T) \in Nat /\ Cardinality(S \cup {x}) \in Nat
  BY <1>1, <1>2, FS_CardinalityType
<1> QED
  BY <1>1, <1>2, <1>3

LEMMA NoMore ==
    ASSUME NEW S, IsFiniteSet(S), NEW T, T \subseteq S
    PROVE  /\ IsFiniteSet(T) /\ Cardinality(T) \in Nat /\ Cardinality(S) \in Nat
           /\ Cardinality(T) <= Cardinality(S)
BY FS_Subset, FS_CardinalityType

\* One element goes for another.
LEMMA Exchanged ==
    ASSUME NEW S, IsFiniteSet(S), NEW x \in S, NEW y, NEW T, T \subseteq (S \ {x}) \cup {y}
    PROVE  /\ IsFiniteSet(T) /\ Cardinality(T) \in Nat /\ Cardinality(S) \in Nat
           /\ Cardinality(T) <= Cardinality(S)
<1>1. /\ IsFiniteSet(S \ {x}) /\ Cardinality(S \ {x}) = Cardinality(S) - 1
  BY FS_RemoveElement
<1>2. Cardinality(T) <= Cardinality(S \ {x}) + 1 /\ IsFiniteSet(T) /\ Cardinality(T) \in Nat
  BY <1>1, OneMore
<1>3. Cardinality(S) \in Nat /\ Cardinality(S \ {x}) \in Nat
  BY <1>1, FS_CardinalityType
<1> QED
  BY <1>1, <1>2, <1>3

LEMMA Parted ==
    ASSUME NEW S, IsFiniteSet(S), NEW K, K \subseteq S, NEW T, T \subseteq S \ K
    PROVE  /\ IsFiniteSet(T) /\ Cardinality(T) \in Nat /\ Cardinality(S) \in Nat
           /\ IsFiniteSet(K) /\ Cardinality(K) \in Nat
           /\ Cardinality(T) + Cardinality(K) <= Cardinality(S)
<1>1. IsFiniteSet(S \ K) /\ Cardinality(S \ K) = Cardinality(S) - Cardinality(S \cap K)
  BY FS_Difference
<1>2. S \cap K = K
  OBVIOUS
<1>3. IsFiniteSet(K) /\ IsFiniteSet(T) /\ Cardinality(T) <= Cardinality(S \ K)
  BY <1>1, FS_Subset
<1>4. /\ Cardinality(K) \in Nat /\ Cardinality(S) \in Nat /\ Cardinality(T) \in Nat
      /\ Cardinality(S \ K) \in Nat
  BY <1>1, <1>3, FS_CardinalityType
<1> QED
  BY <1>1, <1>2, <1>3, <1>4

LEMMA Joined ==
    ASSUME NEW S, IsFiniteSet(S), NEW K, IsFiniteSet(K), NEW T, T \subseteq S \cup K
    PROVE  /\ IsFiniteSet(T) /\ Cardinality(T) \in Nat /\ Cardinality(S) \in Nat
           /\ Cardinality(K) \in Nat
           /\ Cardinality(T) <= Cardinality(S) + Cardinality(K)
<1>1. /\ IsFiniteSet(S \cup K) /\ IsFiniteSet(S \cap K)
      /\ Cardinality(S \cup K) = Cardinality(S) + Cardinality(K) - Cardinality(S \cap K)
  BY FS_Union, FS_Intersection
<1>2. IsFiniteSet(T) /\ Cardinality(T) <= Cardinality(S \cup K)
  BY <1>1, FS_Subset
<1>3. /\ Cardinality(S) \in Nat /\ Cardinality(K) \in Nat /\ Cardinality(T) \in Nat
      /\ Cardinality(S \cup K) \in Nat /\ Cardinality(S \cap K) \in Nat
  BY <1>1, <1>2, FS_CardinalityType
<1> QED
  BY <1>1, <1>2, <1>3

\* A set has twice as many subsets when it grows by one element.
LEMMA TwiceTheSubsets ==
    ASSUME NEW S, IsFiniteSet(SUBSET S), NEW x, x \notin S
    PROVE  /\ IsFiniteSet(SUBSET (S \cup {x}))
           /\ Cardinality(SUBSET (S \cup {x})) = 2 * Cardinality(SUBSET S)
<1> DEFINE A == SUBSET S
           B == {T \cup {x} : T \in A}
           f == [T \in A |-> T \cup {x}]
<1>1. SUBSET (S \cup {x}) = A \cup B
  <2>1. ASSUME NEW T \in SUBSET (S \cup {x}) PROVE T \in A \cup B
    <3>1. CASE x \in T
      <4>1. T = (T \ {x}) \cup {x} /\ T \ {x} \in A
        BY <3>1
      <4> QED
        BY <4>1
    <3>2. CASE x \notin T
      BY <3>2
    <3> QED
      BY <3>1, <3>2
  <2> QED
    BY <2>1
<1>2. A \cap B = {}
  OBVIOUS
<1>3. f \in Bijection(A, B)
  <2>1. f \in [A -> B]
    OBVIOUS
  <2>2. \A T, U \in A : f[T] = f[U] => T = U
    <3> TAKE T, U \in A
    <3> HAVE f[T] = f[U]
    <3>1. T \cup {x} = U \cup {x} /\ x \notin T /\ x \notin U
      OBVIOUS
    <3> QED
      BY <3>1
  <2>3. \A V \in B : \E T \in A : f[T] = V
    OBVIOUS
  <2> HIDE DEF A, B, f
  <2> QED
    BY <2>1, <2>2, <2>3 DEF Bijection, Injection, Surjection, IsInjective
<1>4. IsFiniteSet(A)
  OBVIOUS
<1> HIDE DEF A, B, f
<1>5. ExistsBijection(A, B)
  BY <1>3 DEF ExistsBijection
<1>6. IsFiniteSet(B) /\ Cardinality(B) = Cardinality(A)
  BY <1>4, <1>5, FS_Bijection
<1>7. /\ IsFiniteSet(A \cup B)
      /\ Cardinality(A \cup B) = Cardinality(A) + Cardinality(B) - Cardinality(A \cap B)
  BY <1>4, <1>6, FS_Union
<1>8. Cardinality(A \cap B) = 0
  BY <1>2, FS_EmptySet
<1>9. Cardinality(A) \in Nat
  BY <1>4, FS_CardinalityType
<1>10. Cardinality(A \cup B) = 2 * Cardinality(A)
  BY <1>6, <1>7, <1>8, <1>9
<1> QED
  BY <1>1, <1>7, <1>10 DEF A

\* One failure doubles once.
LEMMA DoublingsDouble ==
    ASSUME NEW n \in Nat, IsFiniteSet(SUBSET (1 .. n))
    PROVE  /\ IsFiniteSet(SUBSET (1 .. (n + 1)))
           /\ Doublings(n + 1) = 2 * Doublings(n)
<1>1. 1 .. (n + 1) = (1 .. n) \cup {n + 1} /\ n + 1 \notin 1 .. n
  OBVIOUS
<1> QED
  BY <1>1, TwiceTheSubsets DEF Doublings

LEMMA DoublingsBegin == IsFiniteSet(SUBSET (1 .. 0)) /\ Doublings(0) = 1
<1>1. SUBSET (1 .. 0) = {{}}
  <2>1. 1 .. 0 = {}
    OBVIOUS
  <2> QED
    BY <2>1
<1> QED
  BY <1>1, FS_Singleton DEF Doublings

-----------------------------------------------------------------------------
(* How the copies of a message move.                                       *)

LEMMA UnsavedFacts ==
    ASSUME NEW m
    PROVE  \A x : x \in Unsaved(m) <=>
             \/ \E d \in Consumers : \E i \in DOMAIN batch[d] :
                  x = <<d, i>> /\ ~ Flushed(d) /\ batch[d][i].msg = m
             \/ \E d \in Consumers : x = <<d, 0>> /\ Scoring(d, m)
<1>1. \A x : x \in InMemory(m) <=> \E d \in Consumers : \E i \in DOMAIN batch[d] :
                                      x = <<d, i>> /\ ~ Flushed(d) /\ batch[d][i].msg = m
  BY DEF InMemory, Copies
<1>2. \A x : x \in BeingScored(m) <=> \E d \in Consumers : x = <<d, 0>> /\ Scoring(d, m)
  BY DEF BeingScored
<1> QED
  BY <1>1, <1>2 DEF Unsaved

\* The same of the state after a step.
LEMMA UnsavedNext ==
    ASSUME NEW m
    PROVE  \A x : x \in Unsaved(m)' <=>
             \/ \E d \in Consumers : \E i \in DOMAIN batch'[d] :
                  x = <<d, i>> /\ ~ Flushed(d)' /\ batch'[d][i].msg = m
             \/ \E d \in Consumers : x = <<d, 0>> /\ Scoring(d, m)'
<1>1. \A x : x \in InMemory(m)' <=> \E d \in Consumers : \E i \in DOMAIN batch'[d] :
                                      x = <<d, i>> /\ ~ Flushed(d)' /\ batch'[d][i].msg = m
  BY DEF InMemory, Copies
<1>2. \A x : x \in BeingScored(m)' <=> \E d \in Consumers : x = <<d, 0>> /\ Scoring(d, m)'
  BY DEF BeingScored
<1> QED
  BY <1>1, <1>2 DEF Unsaved

LEMMA FlushedFacts ==
    ASSUME NEW m
    PROVE  \A x : x \in FlushedCopies(m) <=>
             \E d \in Consumers : \E i \in DOMAIN batch[d] :
               x = <<d, i>> /\ Flushed(d) /\ batch[d][i].msg = m
BY DEF FlushedCopies, Copies

\* A step after which every process holds no more of m unsaved than before.
LEMMA UnsavedShrinks ==
    ASSUME NEW m,
           \A d \in Consumers : \/ Flushed(d)' \/ batch'[d] = <<>>
                                \/ ~ Flushed(d) /\ batch'[d] = batch[d],
           \A d \in Consumers : Scoring(d, m)' => Scoring(d, m)
    PROVE  Unsaved(m)' \subseteq Unsaved(m)
<1>1. ASSUME NEW x \in Unsaved(m)' PROVE x \in Unsaved(m)
  <2>1. CASE \E d \in Consumers : x = <<d, 0>> /\ Scoring(d, m)'
    BY <2>1, UnsavedFacts
  <2>2. CASE \E d \in Consumers : \E i \in DOMAIN batch'[d] :
               x = <<d, i>> /\ ~ Flushed(d)' /\ batch'[d][i].msg = m
    BY <2>2, UnsavedFacts
  <2>3. \/ \E d \in Consumers : \E i \in DOMAIN batch'[d] :
             x = <<d, i>> /\ ~ Flushed(d)' /\ batch'[d][i].msg = m
        \/ \E d \in Consumers : x = <<d, 0>> /\ Scoring(d, m)'
    BY <1>1, UnsavedNext
  <2> QED
    BY <2>1, <2>2, <2>3
<1> QED
  BY <1>1

\* A step after which no process has begun to flush.
LEMMA FlushedShrinks ==
    ASSUME NEW m, \A d \in Consumers : Flushed(d)' => Flushed(d) /\ batch'[d] = batch[d]
    PROVE  FlushedCopies(m)' \subseteq FlushedCopies(m)
<1>1. ASSUME NEW x \in FlushedCopies(m)' PROVE x \in FlushedCopies(m)
  <2>1. \E d \in Consumers : \E i \in DOMAIN batch'[d] :
          x = <<d, i>> /\ Flushed(d)' /\ batch'[d][i].msg = m
    BY <1>1 DEF FlushedCopies, Copies
  <2> QED
    BY <2>1, FlushedFacts
<1> QED
  BY <1>1

\* The copies of one process, and what they are to the two sets.
LEMMA CopiesOfOne ==
    ASSUME ProcessTypes, NEW c \in Consumers, NEW m
    PROVE  /\ IsFiniteSet({c} \X Copies(batch[c], m))
           /\ Cardinality({c} \X Copies(batch[c], m)) = Cardinality(Copies(batch[c], m))
           /\ Cardinality(Copies(batch[c], m)) \in Nat
           /\ Cardinality(Copies(batch[c], m)) = 0 <=> ~ InBatch(c, m)
           /\ ~ Flushed(c) => {c} \X Copies(batch[c], m) \subseteq Unsaved(m)
           /\ Flushed(c) => {c} \X Copies(batch[c], m) \subseteq FlushedCopies(m)
<1> DEFINE K == Copies(batch[c], m)
<1>1. batch[c] \in Seq(Entries)
  BY DEF ProcessTypes
<1>2. IsFiniteSet(K) /\ Cardinality(K) \in Nat
  <2>1. Len(batch[c]) \in Nat /\ DOMAIN batch[c] = 1 .. Len(batch[c])
    BY <1>1
  <2>2. IsFiniteSet(DOMAIN batch[c]) /\ K \subseteq DOMAIN batch[c]
    BY <2>1, FS_Interval DEF Copies
  <2> HIDE DEF K
  <2> QED
    BY <2>2, FS_Subset, FS_CardinalityType
<1>3. K = {} <=> ~ InBatch(c, m)
  BY DEF Copies, InBatch
<1>4. /\ ~ Flushed(c) => {c} \X K \subseteq Unsaved(m)
      /\ Flushed(c) => {c} \X K \subseteq FlushedCopies(m)
  BY DEF Unsaved, InMemory, FlushedCopies
<1> HIDE DEF K
<1>5. IsFiniteSet({c}) /\ Cardinality({c}) = 1
  BY FS_Singleton
<1>6. IsFiniteSet({c} \X K) /\ Cardinality({c} \X K) = Cardinality({c}) * Cardinality(K)
  BY <1>2, <1>5, FS_Product
<1>7. Cardinality({c} \X K) = Cardinality(K)
  BY <1>2, <1>5, <1>6
<1>8. Cardinality(K) = 0 <=> K = {}
  BY <1>2, FS_EmptySet
<1> QED
  BY <1>2, <1>3, <1>4, <1>6, <1>7, <1>8 DEF K

\* Where process c flushes its batch, or lets go of it, its copies of m are
\* no longer unsaved.
LEMMA UnsavedWithout ==
    ASSUME NEW m, ProcessTypes, NEW c \in Consumers, Flushed(c)' \/ batch'[c] = <<>>,
           \A d \in Consumers \ {c} : \/ Flushed(d)' \/ batch'[d] = <<>>
                                      \/ ~ Flushed(d) /\ batch'[d] = batch[d],
           \A d \in Consumers : Scoring(d, m)' => Scoring(d, m)
    PROVE  Unsaved(m)' \subseteq Unsaved(m) \ ({c} \X Copies(batch[c], m))
<1>1. ASSUME NEW x \in Unsaved(m)' PROVE x \in Unsaved(m) \ ({c} \X Copies(batch[c], m))
  <2>1. CASE \E d \in Consumers : x = <<d, 0>> /\ Scoring(d, m)'
    <3>1. x \in Unsaved(m)
      BY <2>1, UnsavedFacts
    <3>2. \A i \in DOMAIN batch[c] : i # 0
      BY DEF ProcessTypes
    <3> QED
      BY <2>1, <3>1, <3>2 DEF Copies
  <2>2. CASE \E d \in Consumers : \E i \in DOMAIN batch'[d] :
               x = <<d, i>> /\ ~ Flushed(d)' /\ batch'[d][i].msg = m
    <3>1. PICK d \in Consumers : \E i \in DOMAIN batch'[d] :
            x = <<d, i>> /\ ~ Flushed(d)' /\ batch'[d][i].msg = m
      BY <2>2
    <3>2. d # c
      BY <3>1
    <3> QED
      BY <3>1, <3>2, UnsavedFacts
  <2> QED
    BY <1>1, <2>1, <2>2, UnsavedNext
<1> QED
  BY <1>1

\* A process that scores m and lets go of it: one copy less.
LEMMA UnsavedWithoutCur ==
    ASSUME NEW m, ProcessTypes, NEW c \in Consumers, Scoring(c, m), ~ Scoring(c, m)',
           \A d \in Consumers : \/ Flushed(d)' \/ batch'[d] = <<>>
                                \/ ~ Flushed(d) /\ batch'[d] = batch[d],
           \A d \in Consumers : Scoring(d, m)' => Scoring(d, m)
    PROVE  /\ <<c, 0>> \in Unsaved(m)
           /\ Unsaved(m)' \subseteq Unsaved(m) \ {<<c, 0>>}
<1>1. <<c, 0>> \in Unsaved(m)
  BY UnsavedFacts
<1>2. Unsaved(m)' \subseteq Unsaved(m)
  BY UnsavedShrinks
<1>3. <<c, 0>> \notin Unsaved(m)'
  <2>1. \A i \in DOMAIN batch'[c] : ~ Flushed(c)' => i # 0
    <3>1. Flushed(c)' \/ batch'[c] = <<>> \/ batch'[c] = batch[c]
      OBVIOUS
    <3> QED
      BY <3>1 DEF ProcessTypes
  <2> QED
    BY <2>1, UnsavedNext
<1> QED
  BY <1>1, <1>2, <1>3

\* A process that takes its flushed batch up once more: its copies are
\* unsaved again.
LEMMA UnsavedAgain ==
    ASSUME NEW m, NEW c \in Consumers, batch'[c] = batch[c],
           \A d \in Consumers \ {c} : \/ Flushed(d)' \/ batch'[d] = <<>>
                                      \/ ~ Flushed(d) /\ batch'[d] = batch[d],
           \A d \in Consumers : Scoring(d, m)' => Scoring(d, m)
    PROVE  Unsaved(m)' \subseteq Unsaved(m) \cup ({c} \X Copies(batch[c], m))
<1>1. ASSUME NEW x \in Unsaved(m)' PROVE x \in Unsaved(m) \cup ({c} \X Copies(batch[c], m))
  <2>1. CASE \E d \in Consumers : x = <<d, 0>> /\ Scoring(d, m)'
    BY <2>1, UnsavedFacts
  <2>2. CASE \E d \in Consumers : \E i \in DOMAIN batch'[d] :
               x = <<d, i>> /\ ~ Flushed(d)' /\ batch'[d][i].msg = m
    <3> PICK d \in Consumers : \E i \in DOMAIN batch'[d] :
          x = <<d, i>> /\ ~ Flushed(d)' /\ batch'[d][i].msg = m
      BY <2>2
    <3>1. PICK i \in DOMAIN batch'[d] : x = <<d, i>> /\ ~ Flushed(d)' /\ batch'[d][i].msg = m
      OBVIOUS
    <3>2. CASE d = c
      BY <3>1, <3>2 DEF Copies
    <3>3. CASE d # c
      BY <3>1, <3>3, UnsavedFacts
    <3> QED
      BY <3>2, <3>3
  <2> QED
    BY <1>1, <2>1, <2>2, UnsavedNext
<1> QED
  BY <1>1

\* A process that gains an entry: at most one copy more, and only of that
\* entry's message.
LEMMA UnsavedGains ==
    ASSUME NEW m, NEW c \in Consumers, ProcessTypes, NEW e, batch'[c] = Append(batch[c], e),
           ~ Flushed(c), \A d \in Consumers \ {c} : batch'[d] = batch[d] /\ Flushed(d)' = Flushed(d),
           \A d \in Consumers : Scoring(d, m)' => Scoring(d, m)
    PROVE  /\ Unsaved(m)' \subseteq Unsaved(m) \cup {<<c, Len(batch[c]) + 1>>}
           /\ e.msg # m => Unsaved(m)' \subseteq Unsaved(m)
           /\ ~ Scoring(c, m)' => <<c, 0>> \notin Unsaved(m)'
<1>1. batch[c] \in Seq(Entries)
  BY DEF ProcessTypes
<1>2. ASSUME NEW i \in DOMAIN batch'[c]
      PROVE  /\ i \in Nat \ {0}
             /\ \/ i \in DOMAIN batch[c] /\ batch'[c][i] = batch[c][i]
                \/ i = Len(batch[c]) + 1 /\ batch'[c][i] = e
  BY <1>1
<1>3. ASSUME NEW x \in Unsaved(m)'
      PROVE  x \in Unsaved(m) \/ (x = <<c, Len(batch[c]) + 1>> /\ e.msg = m)
  <2>1. CASE \E d \in Consumers : x = <<d, 0>> /\ Scoring(d, m)'
    BY <2>1, UnsavedFacts
  <2>2. CASE \E d \in Consumers : \E i \in DOMAIN batch'[d] :
               x = <<d, i>> /\ ~ Flushed(d)' /\ batch'[d][i].msg = m
    <3> PICK d \in Consumers : \E i \in DOMAIN batch'[d] :
          x = <<d, i>> /\ ~ Flushed(d)' /\ batch'[d][i].msg = m
      BY <2>2
    <3>1. PICK i \in DOMAIN batch'[d] : x = <<d, i>> /\ ~ Flushed(d)' /\ batch'[d][i].msg = m
      OBVIOUS
    <3>2. CASE d = c
      BY <1>2, <3>1, <3>2, UnsavedFacts
    <3>3. CASE d # c
      BY <3>1, <3>3, UnsavedFacts
    <3> QED
      BY <3>2, <3>3
  <2> QED
    BY <1>3, <2>1, <2>2, UnsavedNext
<1>4. ~ Scoring(c, m)' => <<c, 0>> \notin Unsaved(m)'
  BY <1>2, UnsavedNext
<1> QED
  BY <1>3, <1>4

-----------------------------------------------------------------------------
(* The kinds of steps a process takes, by what they do to the account.     *)

\* Nothing moves but the place of c: it starts, waits for an answer once more,
\* begins a flush, or goes to the next alert.
Steady(c) ==
    /\ UNCHANGED <<owner, position, committed, batch, cur, closing, metricRows>>
    /\ \A d \in Consumers \ {c} : pc'[d] = pc[d]
    /\ \/ pc'[c] = pc[c] /\ pc[c] # "down"
       \/ pc[c] = "down" /\ pc'[c] = "poll"
       \/ pc[c] = "poll" /\ pc'[c] = "save" /\ batch[c] # <<>>

\* c polls k, and scores or rejects it.
Reads(c, k) ==
    /\ Polls(c, k) /\ Event(k).kind # "tombstone"
    /\ UNCHANGED <<owner, committed, closing, metricRows, faults>>
    /\ \/ /\ pc' = [pc EXCEPT ![c] = "score"] /\ cur' = [cur EXCEPT ![c] = k]
          /\ batch' = batch
       \/ Append1(c, [msg |-> k, kind |-> "rejected"]) /\ cur' = cur

\* The message being scored joins the batch.
Decides(c) ==
    /\ pc[c] = "score"
    /\ \E e \in Entries : e.msg = cur[c] /\ Append1(c, e)
    /\ cur' = [cur EXCEPT ![c] = NoMsg]
    /\ UNCHANGED <<owner, position, committed, closing, metricRows, faults>>

\* The commit returns, with the offsets of S stored: all, unless it failed.
Commits(c, S) ==
    /\ pc[c] = "commit" /\ StoreOffsets(batch[c], S)
    /\ S = Touched(batch[c]) \/ faults' = faults + 1
    /\ pc' = [pc EXCEPT ![c] = "alert"]
    /\ UNCHANGED <<owner, position, batch, cur, closing, metricRows>>

\* The lists are cleared for the next batch.
Resets(c) ==
    /\ pc[c] = "alert" /\ ~ closing[c]
    /\ pc' = [pc EXCEPT ![c] = "poll"]
    /\ batch' = [batch EXCEPT ![c] = <<>>]
    /\ UNCHANGED <<owner, position, committed, cur, closing, metricRows, faults>>

\* c leaves the loop without a failure: a tombstone, a refused row, its end.
LeavesFreely(c) ==
    /\ UNCHANGED <<committed, metricRows, faults>>
    /\ \/ PollTombstone(c)
       \/ position' = position /\ pc[c] = "save" /\ Refused(batch[c]) /\ Leave(c)
       \/ position' = position /\ pc[c] = "alert" /\ closing[c] /\ Vanish(c)

\* c leaves the loop for a failure, which may hide that the transaction or
\* some of the offsets went through.
LeavesByFault(c) ==
    /\ Vanish(c) \/ FinalFlush(c)
    /\ position' = position /\ faults' = faults + 1
    /\ \/ committed' = committed
       \/ pc[c] = "commit" /\ \E S \in SUBSET Touched(batch[c]) : StoreOffsets(batch[c], S)
    /\ metricRows' = metricRows \/ (pc[c] = "save" /\ SaveBatch(batch[c]))

\* Every step of a process is of one of these kinds.
LEMMA StepKinds ==
    ASSUME ConstantsAssumption, TypeOK, NEW c \in Consumers, Work(c) \/ Failure(c)
    PROVE  /\ Alone(c)
           /\ faults \in Nat /\ faults' \in {faults, faults + 1}
           /\ \/ Steady(c)
              \/ \E k \in Msgs : Reads(c, k)
              \/ Decides(c)
              \/ SaveCommits(c)
              \/ \E S \in SUBSET Touched(batch[c]) : Commits(c, S)
              \/ Resets(c)
              \/ LeavesFreely(c)
              \/ LeavesByFault(c)
<1>1. faults \in Nat
  BY DEF TypeOK, AuditTypes
<1>2. \A l : /\ pc' = [pc EXCEPT ![c] = l] => pc'[c] = l /\ \A d \in Consumers \ {c} : pc'[d] = pc[d]
  BY DEF TypeOK, ProcessTypes
<1>4. CASE Start(c) \/ TimedFlush(c) \/ AlertNotDue(c) \/ AlertSent(c)
  <2>1. Steady(c) /\ UNCHANGED <<batch, cur, closing, faults>>
    BY <1>2, <1>4 DEF Steady, Start, TimedFlush, AlertNotDue, AlertSent, AlertDue, group, saved
  <2> QED
    BY <1>1, <2>1 DEF Steady, Alone
<1>5. CASE ScoreRetries(c) \/ AlertPostFails(c)
  <2>1. Steady(c) /\ UNCHANGED <<batch, cur, closing>> /\ faults' = faults + 1
    BY <1>2, <1>5 DEF Steady, ScoreRetries, AlertPostFails, AlertDue, group, saved, Fault
  <2> QED
    BY <1>1, <2>1 DEF Steady, Alone
<1>6. CASE PollValid(c)
  <2>1. PICK k \in Msgs : Polls(c, k) /\ Accepted(k) /\ cur' = [cur EXCEPT ![c] = k]
    BY <1>6 DEF PollValid
  <2>2. Reads(c, k)
    BY <1>6, <2>1 DEF Accepted, PollValid, Reads, saved
  <2>3. Alone(c) /\ faults' = faults
    BY <1>2, <1>6, <2>1 DEF PollValid, Alone, TypeOK, ProcessTypes
  <2> QED
    BY <1>1, <2>2, <2>3
<1>7. CASE PollRejected(c)
  <2>1. PICK k \in Msgs : /\ Polls(c, k) /\ Event(k).kind \in {"malformed", "unstorable"}
                          /\ Append1(c, [msg |-> k, kind |-> "rejected"])
    BY <1>7 DEF PollRejected
  <2>2. Reads(c, k)
    BY <1>7, <2>1 DEF PollRejected, Reads, saved
  <2>3. Alone(c) /\ faults' = faults
    BY <1>7, <2>1 DEF PollRejected, Append1, Alone, TypeOK, ProcessTypes
  <2> QED
    BY <1>1, <2>2, <2>3
<1>8. CASE ScoreSucceeds(c)
  <2>1. PICK s \in Scores : Append1(c, [msg |-> cur[c], kind |-> "scored", score |-> s])
    BY <1>8 DEF ScoreSucceeds
  <2>2. [msg |-> cur[c], kind |-> "scored", score |-> s] \in Entries
    BY <1>8 DEF ScoreSucceeds, Entries, TypeOK, ProcessTypes
  <2>3. Decides(c)
    BY <1>8, <2>1, <2>2 DEF ScoreSucceeds, Decides, group, saved
  <2>4. Alone(c) /\ faults' = faults
    BY <1>8, <2>1 DEF ScoreSucceeds, Append1, Alone, TypeOK, ProcessTypes
  <2> QED
    BY <1>1, <2>3, <2>4
<1>9. CASE SaveCommits(c)
  BY <1>1, <1>2, <1>9 DEF SaveCommits, Alone
<1>10. CASE CommitReturns(c)
  BY <1>1, <1>2, <1>10 DEF CommitReturns, Commits, Alone, saved
<1>11. CASE CommitReturnsPartly(c)
  BY <1>1, <1>2, <1>11 DEF CommitReturnsPartly, Commits, Alone, saved, Fault
<1>12. CASE FlushEnds(c) /\ ~ closing[c]
  BY <1>1, <1>2, <1>12 DEF FlushEnds, Resets, Alone, saved, TypeOK, ProcessTypes
<1>13. CASE PollTombstone(c) \/ SaveRefused(c) \/ (FlushEnds(c) /\ closing[c])
  <2>1. LeavesFreely(c) /\ faults' = faults
    BY <1>13 DEF PollTombstone, SaveRefused, FlushEnds, LeavesFreely, saved
  <2>2. Vanish(c) \/ Leave(c)
    BY <1>13 DEF PollTombstone, SaveRefused, FlushEnds
  <2>3. Alone(c)
    BY <2>2, LeaveAlone DEF TypeOK
  <2> QED
    BY <1>1, <2>1, <2>3
<1>14. CASE Stop(c) \/ Crash(c) \/ ScoreRaises(c) \/ SaveRaises(c) \/ CommitRaises(c)
              \/ AlertMetricRaises(c)
  <2>1. Vanish(c) \/ FinalFlush(c)
    BY <1>14 DEF Stop, Crash, ScoreRaises, SaveRaises, CommitRaises, AlertMetricRaises, Leave
  <2>2. LeavesByFault(c)
    BY <1>14, <2>1 DEF Stop, Crash, ScoreRaises, SaveRaises, CommitRaises, AlertMetricRaises,
       LeavesByFault, Fault, saved
  <2>3. Alone(c)
    BY <2>1, LeaveAlone DEF TypeOK, Leave
  <2> QED
    BY <1>1, <2>2, <2>3 DEF LeavesByFault
<1> QED
  BY <1>4, <1>5, <1>6, <1>7, <1>8, <1>9, <1>10, <1>11, <1>12, <1>13, <1>14 DEF Work, Failure

-----------------------------------------------------------------------------
(* What each kind of step does to the rows and copies of a message.        *)

\* The copies can be counted, and those of a flush have their rows.
Counted(m) == /\ IsFiniteSet(Unsaved(m)) /\ IsFiniteSet(FlushedCopies(m))
              /\ Cardinality(FlushedCopies(m)) <= metricRows[m]

LEMMA HoldingFacts ==
    ASSUME TypeOK, NEW m \in Msgs, Counted(m)
    PROVE  /\ metricRows[m] \in Nat /\ Cardinality(Unsaved(m)) \in Nat
           /\ Cardinality(FlushedCopies(m)) \in Nat /\ Holdings(m) \in Nat
           /\ Holdings(m) = metricRows[m] + Cardinality(Unsaved(m))
<1>1. metricRows[m] \in Nat
  BY DEF TypeOK, TableTypes
<1> QED
  BY <1>1, FS_CardinalityType DEF Counted, Holdings

\* No row is written, and nothing is gained.
LEMMA HoldingsShrink ==
    ASSUME TypeOK, TypeOK', NEW m \in Msgs, Counted(m), metricRows' = metricRows,
           \A d \in Consumers : \/ Flushed(d)' \/ batch'[d] = <<>>
                                \/ ~ Flushed(d) /\ batch'[d] = batch[d],
           \A d \in Consumers : Flushed(d)' => Flushed(d) /\ batch'[d] = batch[d],
           \A d \in Consumers : Scoring(d, m)' => Scoring(d, m)
    PROVE  Counted(m)' /\ Holdings(m)' <= Holdings(m)
<1>1. Unsaved(m)' \subseteq Unsaved(m) /\ FlushedCopies(m)' \subseteq FlushedCopies(m)
  BY UnsavedShrinks, FlushedShrinks
<1>2. /\ IsFiniteSet(Unsaved(m)') /\ Cardinality(Unsaved(m)') <= Cardinality(Unsaved(m))
      /\ IsFiniteSet(FlushedCopies(m)')
      /\ Cardinality(FlushedCopies(m)') <= Cardinality(FlushedCopies(m))
      /\ Cardinality(FlushedCopies(m)') \in Nat /\ Cardinality(Unsaved(m)') \in Nat
  BY <1>1, NoMore DEF Counted
<1> QED
  BY <1>2, HoldingFacts DEF Counted, Holdings

\* c takes the rows of its batch to the table, and its copies are no longer
\* unsaved: it flushes, or is gone.
LEMMA HoldingsSaved ==
    ASSUME TypeOK, TypeOK', NEW m \in Msgs, Counted(m), NEW c \in Consumers,
           pc[c] = "save", SaveBatch(batch[c]), Flushed(c)' \/ batch'[c] = <<>>,
           Flushed(c)' => batch'[c] = batch[c],
           \A d \in Consumers \ {c} : Flushed(d)' = Flushed(d) /\ batch'[d] = batch[d],
           \A d \in Consumers : Scoring(d, m)' => Scoring(d, m)
    PROVE  Counted(m)' /\ Holdings(m)' <= Holdings(m)
<1> DEFINE K == {c} \X Copies(batch[c], m)
           n == Cardinality(Copies(batch[c], m))
<1>1. ProcessTypes /\ batch[c] \in Seq(Entries) /\ ~ Flushed(c)
  BY DEF TypeOK, ProcessTypes, Flushed
<1>2. IsFiniteSet(K) /\ Cardinality(K) = n /\ n \in Nat /\ K \subseteq Unsaved(m)
  BY <1>1, CopiesOfOne
<1>3. metricRows'[m] = metricRows[m] + n
  BY <1>1, MetricGrows
<1>4. Unsaved(m)' \subseteq Unsaved(m) \ K
  BY <1>1, UnsavedWithout
<1>5. FlushedCopies(m)' \subseteq FlushedCopies(m) \cup K
  <2>1. ASSUME NEW x \in FlushedCopies(m)' PROVE x \in FlushedCopies(m) \cup K
    <3> PICK d \in Consumers : \E i \in DOMAIN batch'[d] :
          x = <<d, i>> /\ Flushed(d)' /\ batch'[d][i].msg = m
      BY <2>1 DEF FlushedCopies, Copies
    <3>1. PICK i \in DOMAIN batch'[d] : x = <<d, i>> /\ Flushed(d)' /\ batch'[d][i].msg = m
      OBVIOUS
    <3>2. CASE d = c
      BY <3>1, <3>2 DEF Copies
    <3>3. CASE d # c
      BY <3>1, <3>3, FlushedFacts
    <3> QED
      BY <3>2, <3>3
  <2> QED
    BY <2>1
<1> HIDE DEF K, n
<1>6. /\ IsFiniteSet(Unsaved(m)') /\ Cardinality(Unsaved(m)') \in Nat
      /\ Cardinality(Unsaved(m)') + n <= Cardinality(Unsaved(m))
  BY <1>2, <1>4, Parted DEF Counted
<1>7. /\ IsFiniteSet(FlushedCopies(m)') /\ Cardinality(FlushedCopies(m)') \in Nat
      /\ Cardinality(FlushedCopies(m)') <= Cardinality(FlushedCopies(m)) + n
  BY <1>2, <1>5, Joined DEF Counted
<1> QED
  BY <1>2, <1>3, <1>6, <1>7, HoldingFacts DEF Counted, Holdings

\* c reads k: it holds k once more, and of other messages no more than before.
LEMMA HoldingsRead ==
    ASSUME ConstantsAssumption, TypeOK, TypeOK', NEW m \in Msgs, Counted(m), NEW c \in Consumers,
           Alone(c), NEW k \in Msgs, Reads(c, k)
    PROVE  /\ Counted(m)' /\ Holdings(m)' <= Holdings(m) + 1
           /\ k # m => Holdings(m)' <= Holdings(m)
<1>1. /\ pc[c] = "poll" /\ ~ Flushed(c) /\ ~ Scoring(c, m) /\ metricRows' = metricRows
      /\ ProcessTypes
  BY DEF Reads, Polls, Flushed, Scoring, TypeOK
<1>2. \A d \in Consumers \ {c} : /\ batch'[d] = batch[d] /\ Flushed(d)' = Flushed(d)
                                 /\ Scoring(d, m)' = Scoring(d, m)
  BY DEF Alone, Flushed, Scoring
<1>3. /\ \/ Unsaved(m)' \subseteq Unsaved(m) \cup {<<c, 0>>}
         \/ Unsaved(m)' \subseteq Unsaved(m) \cup {<<c, Len(batch[c]) + 1>>}
      /\ k # m => Unsaved(m)' \subseteq Unsaved(m)
  <2>1. CASE pc' = [pc EXCEPT ![c] = "score"] /\ cur' = [cur EXCEPT ![c] = k] /\ batch' = batch
    <3>1. ~ Flushed(c)' /\ (Scoring(c, m)' => k = m)
      BY <2>1 DEF Flushed, Scoring, TypeOK, ProcessTypes
    <3>2. ASSUME NEW x \in Unsaved(m)' PROVE x \in Unsaved(m) \/ (x = <<c, 0>> /\ k = m)
      <4>1. CASE \E d \in Consumers : \E i \in DOMAIN batch'[d] :
                   x = <<d, i>> /\ ~ Flushed(d)' /\ batch'[d][i].msg = m
        BY <1>1, <1>2, <2>1, <4>1, UnsavedFacts
      <4>2. CASE \E d \in Consumers : x = <<d, 0>> /\ Scoring(d, m)'
        BY <1>2, <3>1, <4>2, UnsavedFacts
      <4> QED
        BY <3>2, <4>1, <4>2, UnsavedNext
    <3> QED
      BY <3>2
  <2>2. CASE Append1(c, [msg |-> k, kind |-> "rejected"]) /\ cur' = cur
    <3> DEFINE e == [msg |-> k, kind |-> "rejected"]
    <3>1. e \in Entries /\ e.msg = k
      BY DEF Entries
    <3> HIDE DEF e
    <3>2. batch'[c] = Append(batch[c], e) /\ pc'[c] # "score"
      BY <1>1, <2>2, <3>1, AppendTypes DEF e, Append1, ProcessTypes
    <3>3. \A d \in Consumers : Scoring(d, m)' => Scoring(d, m)
      BY <1>2, <3>2 DEF Scoring
    <3> QED
      BY <1>1, <1>2, <3>1, <3>2, <3>3, UnsavedGains
  <2> QED
    BY <2>1, <2>2 DEF Reads
<1>4. \A d \in Consumers : Flushed(d)' => Flushed(d) /\ batch'[d] = batch[d]
  <2>1. ~ Flushed(c)'
    BY <1>1 DEF Reads, Flushed, Append1, TypeOK, ProcessTypes
  <2> QED
    BY <1>2, <2>1
<1>5. FlushedCopies(m)' \subseteq FlushedCopies(m)
  BY <1>4, FlushedShrinks
<1>6. /\ IsFiniteSet(Unsaved(m)') /\ Cardinality(Unsaved(m)') \in Nat
      /\ Cardinality(Unsaved(m)') <= Cardinality(Unsaved(m)) + 1
      /\ k # m => Cardinality(Unsaved(m)') <= Cardinality(Unsaved(m))
  BY <1>3, OneMore, NoMore DEF Counted
<1>7. /\ IsFiniteSet(FlushedCopies(m)') /\ Cardinality(FlushedCopies(m)') \in Nat
      /\ Cardinality(FlushedCopies(m)') <= Cardinality(FlushedCopies(m))
  BY <1>5, NoMore DEF Counted
<1> QED
  BY <1>1, <1>6, <1>7, HoldingFacts DEF Counted, Holdings

\* The copy being scored goes for the entry that joins the batch.
LEMMA HoldingsDecide ==
    ASSUME TypeOK, TypeOK', NEW m \in Msgs, Counted(m), NEW c \in Consumers, Alone(c), Decides(c)
    PROVE  Counted(m)' /\ Holdings(m)' <= Holdings(m)
<1>1. pc[c] = "score" /\ ~ Flushed(c) /\ metricRows' = metricRows /\ ProcessTypes
  BY DEF Decides, Flushed, TypeOK
<1>2. \A d \in Consumers \ {c} : /\ batch'[d] = batch[d] /\ Flushed(d)' = Flushed(d)
                                 /\ Scoring(d, m)' = Scoring(d, m)
  BY DEF Alone, Flushed, Scoring
<1>3. PICK e \in Entries : e.msg = cur[c] /\ Append1(c, e)
  BY DEF Decides
<1>4. batch'[c] = Append(batch[c], e) /\ pc'[c] \in {"poll", "save"}
  BY <1>1, <1>3 DEF Append1, ProcessTypes
<1>5. ~ Scoring(c, m)' /\ ~ Flushed(c)'
  BY <1>4 DEF Scoring, Flushed
<1>6. /\ Unsaved(m)' \subseteq Unsaved(m) \cup {<<c, Len(batch[c]) + 1>>}
      /\ e.msg # m => Unsaved(m)' \subseteq Unsaved(m)
      /\ <<c, 0>> \notin Unsaved(m)'
  BY <1>1, <1>2, <1>4, <1>5, UnsavedGains
<1>7. /\ IsFiniteSet(Unsaved(m)') /\ Cardinality(Unsaved(m)') \in Nat
      /\ Cardinality(Unsaved(m)') <= Cardinality(Unsaved(m))
  <2>1. CASE e.msg = m
    <3>1. <<c, 0>> \in Unsaved(m)
      BY <1>1, <1>3, <2>1, UnsavedFacts DEF Scoring
    <3>2. Unsaved(m)' \subseteq (Unsaved(m) \ {<<c, 0>>}) \cup {<<c, Len(batch[c]) + 1>>}
      BY <1>6
    <3> QED
      BY <3>1, <3>2, Exchanged DEF Counted
  <2>2. CASE e.msg # m
    BY <1>6, <2>2, NoMore DEF Counted
  <2> QED
    BY <2>1, <2>2
<1>8. FlushedCopies(m)' \subseteq FlushedCopies(m)
  BY <1>2, <1>5, FlushedShrinks
<1>9. /\ IsFiniteSet(FlushedCopies(m)') /\ Cardinality(FlushedCopies(m)') \in Nat
      /\ Cardinality(FlushedCopies(m)') <= Cardinality(FlushedCopies(m))
  BY <1>8, NoMore DEF Counted
<1> QED
  BY <1>1, <1>7, <1>9, HoldingFacts DEF Counted, Holdings

LEMMA LeaveFacts ==
    ASSUME TypeOK, NEW c \in Consumers, Vanish(c) \/ FinalFlush(c), NEW m
    PROVE  /\ ~ Flushed(c)' /\ ~ Scoring(c, m)' /\ Alone(c)
           /\ Vanish(c) => batch'[c] = <<>> /\ pc'[c] = "down" /\ ~ closing'[c]
           /\ FinalFlush(c) => batch'[c] = batch[c] /\ pc'[c] = "save" /\ closing'[c] /\ ~ closing[c]
           /\ \A d \in Consumers \ {c} : Flushed(d)' = Flushed(d) /\ batch'[d] = batch[d]
           /\ \A d \in Consumers : Scoring(d, m)' => Scoring(d, m)
           /\ \A d \in Consumers : Flushed(d)' => Flushed(d) /\ batch'[d] = batch[d]
<1>1. CASE Vanish(c)
  <2>1. /\ pc'[c] = "down" /\ batch'[c] = <<>> /\ closing'[c] = FALSE
        /\ \A d \in Consumers \ {c} : /\ pc'[d] = pc[d] /\ batch'[d] = batch[d]
                                      /\ cur'[d] = cur[d] /\ closing'[d] = closing[d]
    BY <1>1 DEF Vanish, TypeOK, ProcessTypes
  <2>2. ~ FinalFlush(c)
    BY <2>1 DEF FinalFlush, TypeOK, ProcessTypes
  <2> QED
    BY <1>1, <2>1, <2>2 DEF Flushed, Scoring, Alone
<1>2. CASE FinalFlush(c)
  <2>1. /\ pc'[c] = "save" /\ batch' = batch /\ closing'[c] = TRUE /\ ~ closing[c]
        /\ \A d \in Consumers \ {c} : /\ pc'[d] = pc[d]
                                      /\ cur'[d] = cur[d] /\ closing'[d] = closing[d]
    BY <1>2 DEF FinalFlush, TypeOK, ProcessTypes
  <2>2. ~ Vanish(c)
    BY <2>1 DEF Vanish, TypeOK, ProcessTypes
  <2> QED
    BY <1>2, <2>1, <2>2 DEF Flushed, Scoring, Alone
<1> QED
  BY <1>1, <1>2

\* The `finally` block takes up once more a batch whose rows may be stored.
\* It repeats no more than the message has; and it repeats all of it only
\* where no other process holds a copy.
Repeats(c, m) ==
    LET k == Cardinality(Copies(batch[c], m))
    IN  /\ FinalFlush(c) /\ LeavesByFault(c) /\ pc[c] \in {"save", "commit", "alert"}
        /\ k \in Nat /\ k <= Holdings(m) /\ Holdings(m)' <= Holdings(m) + k
        /\ k = 0 <=> ~ InBatch(c, m)
        /\ k = Holdings(m) /\ k > 0 =>
             /\ metricRows'[m] >= 1
             /\ \A d \in Consumers \ {c} : ~ InBatch(d, m) /\ ~ Scoring(d, m)

\* Nobody but c holds a copy that is not in K.
LEMMA SoleHolder ==
    ASSUME NEW c \in Consumers, NEW m,
           Unsaved(m) \cup FlushedCopies(m) \subseteq {c} \X Copies(batch[c], m)
    PROVE  \A d \in Consumers \ {c} : ~ InBatch(d, m) /\ ~ Scoring(d, m)
<1> TAKE d \in Consumers \ {c}
<1>1. ~ InBatch(d, m)
  <2> SUFFICES ASSUME NEW i \in DOMAIN batch[d], batch[d][i].msg = m PROVE FALSE
    BY DEF InBatch
  <2>1. <<d, i>> \in Unsaved(m) \cup FlushedCopies(m)
    BY UnsavedFacts, FlushedFacts
  <2> QED
    BY <2>1
<1>2. ~ Scoring(d, m)
  <2> SUFFICES ASSUME Scoring(d, m) PROVE FALSE
    OBVIOUS
  <2>1. <<d, 0>> \in Unsaved(m)
    BY UnsavedFacts
  <2> QED
    BY <2>1
<1> QED
  BY <1>1, <1>2

\* A subset with as many elements is the whole.
LEMMA SameCount ==
    ASSUME NEW S, IsFiniteSet(S), NEW K, K \subseteq S, Cardinality(S) <= Cardinality(K)
    PROVE  S = K
<1>1. /\ Cardinality(S \ K) \in Nat /\ Cardinality(S) \in Nat /\ Cardinality(K) \in Nat
      /\ IsFiniteSet(S \ K) /\ Cardinality(S \ K) + Cardinality(K) <= Cardinality(S)
  BY Parted
<1>2. Cardinality(S \ K) = 0
  BY <1>1
<1>3. S \ K = {}
  BY <1>1, <1>2, FS_EmptySet
<1> QED
  BY <1>3

\* The final flush of a batch that a flush has saved, or a save that seemed
\* to fail.
LEMMA HoldingsRepeat ==
    ASSUME TypeOK, TypeOK', NEW m \in Msgs, Counted(m), NEW c \in Consumers,
           FinalFlush(c), LeavesByFault(c),
           Flushed(c) \/ (pc[c] = "save" /\ SaveBatch(batch[c]))
    PROVE  Counted(m)' /\ Repeats(c, m)
<1> DEFINE K == {c} \X Copies(batch[c], m)
           n == Cardinality(Copies(batch[c], m))
<1>1. ProcessTypes /\ batch[c] \in Seq(Entries)
  BY DEF TypeOK, ProcessTypes
<1>2. /\ IsFiniteSet(K) /\ Cardinality(K) = n /\ n \in Nat /\ (n = 0 <=> ~ InBatch(c, m))
      /\ ~ Flushed(c) => K \subseteq Unsaved(m)
      /\ Flushed(c) => K \subseteq FlushedCopies(m)
  BY <1>1, CopiesOfOne
<1>3. /\ ~ Flushed(c)' /\ batch'[c] = batch[c]
      /\ \A d \in Consumers \ {c} : Flushed(d)' = Flushed(d) /\ batch'[d] = batch[d]
      /\ \A d \in Consumers : Scoring(d, m)' => Scoring(d, m)
      /\ \A d \in Consumers : Flushed(d)' => Flushed(d) /\ batch'[d] = batch[d]
  BY LeaveFacts
<1>4. FlushedCopies(m)' \subseteq FlushedCopies(m)
  BY <1>3, FlushedShrinks
<1>5. /\ IsFiniteSet(FlushedCopies(m)') /\ Cardinality(FlushedCopies(m)') \in Nat
      /\ Cardinality(FlushedCopies(m)') <= Cardinality(FlushedCopies(m))
  BY <1>4, NoMore DEF Counted
<1>6. pc[c] \in {"save", "commit", "alert"}
  BY DEF Flushed
<1>7. Unsaved(m) \cup FlushedCopies(m) \subseteq K =>
        \A d \in Consumers \ {c} : ~ InBatch(d, m) /\ ~ Scoring(d, m)
  BY SoleHolder
<1>8. CASE Flushed(c)
  <2>1. metricRows'[m] = metricRows[m]
    BY <1>8 DEF LeavesByFault, Flushed
  <2>2. Unsaved(m)' \subseteq Unsaved(m) \cup K
    BY <1>3, UnsavedAgain
  <2>3. K \subseteq FlushedCopies(m)
    BY <1>2, <1>8
  <2> HIDE DEF K, n
  <2>4. /\ IsFiniteSet(Unsaved(m)') /\ Cardinality(Unsaved(m)') \in Nat
        /\ Cardinality(Unsaved(m)') <= Cardinality(Unsaved(m)) + n
    BY <1>2, <2>2, Joined DEF Counted
  <2>5. n <= Cardinality(FlushedCopies(m))
    BY <1>2, <2>3, NoMore DEF Counted
  <2>6. ASSUME n = Holdings(m)
        PROVE  Unsaved(m) \cup FlushedCopies(m) \subseteq K /\ metricRows[m] = n
    <3>1. Cardinality(Unsaved(m)) = 0 /\ Cardinality(FlushedCopies(m)) <= n /\ metricRows[m] = n
      BY <1>2, <2>5, <2>6, HoldingFacts DEF Counted
    <3>2. Unsaved(m) = {}
      BY <3>1, FS_EmptySet DEF Counted
    <3>3. FlushedCopies(m) = K
      BY <1>2, <2>3, <3>1, SameCount DEF Counted
    <3> QED
      BY <3>1, <3>2, <3>3
  <2>7. Counted(m)'
    BY <1>5, <2>1, <2>4, HoldingFacts DEF Counted
  <2>8. n <= Holdings(m) /\ Holdings(m)' <= Holdings(m) + n
    BY <1>2, <2>1, <2>4, <2>5, HoldingFacts DEF Counted, Holdings
  <2> QED
    BY <1>2, <1>6, <1>7, <2>1, <2>6, <2>7, <2>8 DEF Repeats, n
<1>9. CASE ~ Flushed(c)
  <2>1. pc[c] = "save" /\ metricRows'[m] = metricRows[m] + n
    BY <1>1, <1>9, MetricGrows
  <2>2. Unsaved(m)' \subseteq Unsaved(m)
    BY <1>3, <1>9, UnsavedShrinks
  <2>3. K \subseteq Unsaved(m)
    BY <1>2, <1>9
  <2> HIDE DEF K, n
  <2>4. /\ IsFiniteSet(Unsaved(m)') /\ Cardinality(Unsaved(m)') \in Nat
        /\ Cardinality(Unsaved(m)') <= Cardinality(Unsaved(m))
    BY <2>2, NoMore DEF Counted
  <2>5. n <= Cardinality(Unsaved(m))
    BY <1>2, <2>3, NoMore DEF Counted
  <2>6. ASSUME n = Holdings(m)
        PROVE  Unsaved(m) \cup FlushedCopies(m) \subseteq K
    <3>1. Cardinality(FlushedCopies(m)) = 0 /\ Cardinality(Unsaved(m)) <= n
      BY <1>2, <2>5, <2>6, HoldingFacts DEF Counted
    <3>2. FlushedCopies(m) = {}
      BY <3>1, FS_EmptySet DEF Counted
    <3>3. Unsaved(m) = K
      BY <1>2, <2>3, <3>1, SameCount DEF Counted
    <3> QED
      BY <3>2, <3>3
  <2>7. Counted(m)'
    BY <1>2, <1>5, <2>1, <2>4, HoldingFacts DEF Counted
  <2>8. n <= Holdings(m) /\ Holdings(m)' <= Holdings(m) + n
    BY <1>2, <2>1, <2>4, <2>5, HoldingFacts DEF Counted, Holdings
  <2>9. n > 0 => metricRows'[m] >= 1
    BY <1>2, <2>1, HoldingFacts
  <2> QED
    BY <1>2, <1>6, <1>7, <2>6, <2>7, <2>8, <2>9 DEF Repeats, n
<1> QED
  BY <1>8, <1>9

\* A process that leaves the loop holds no more of m, or repeats its batch.
LEMMA HoldingsLeave ==
    ASSUME TypeOK, TypeOK', NEW m \in Msgs, Counted(m), NEW c \in Consumers,
           LeavesFreely(c) \/ LeavesByFault(c)
    PROVE  /\ Vanish(c) \/ FinalFlush(c)
           /\ Counted(m)'
           /\ Holdings(m)' <= Holdings(m) \/ Repeats(c, m)
           /\ Scoring(c, m) => Holdings(m)' + 1 <= Holdings(m)
           /\ LeavesFreely(c) /\ Vanish(c) /\ pc[c] = "save" /\ InBatch(c, m) =>
                Holdings(m)' + 1 <= Holdings(m)
<1>1. Vanish(c) \/ FinalFlush(c)
  BY DEF LeavesFreely, LeavesByFault, PollTombstone, Leave
<1>2. /\ ~ Flushed(c)' /\ ~ Scoring(c, m)'
      /\ Vanish(c) => batch'[c] = <<>>
      /\ FinalFlush(c) => batch'[c] = batch[c]
      /\ \A d \in Consumers \ {c} : Flushed(d)' = Flushed(d) /\ batch'[d] = batch[d]
      /\ \A d \in Consumers : Scoring(d, m)' => Scoring(d, m)
      /\ \A d \in Consumers : Flushed(d)' => Flushed(d) /\ batch'[d] = batch[d]
  BY <1>1, LeaveFacts
<1>3. ProcessTypes
  BY DEF TypeOK
<1>4. ASSUME metricRows' = metricRows, Vanish(c) \/ ~ Flushed(c)
      PROVE  /\ Counted(m)' /\ Holdings(m)' <= Holdings(m)
             /\ Scoring(c, m) => Holdings(m)' + 1 <= Holdings(m)
             /\ Vanish(c) /\ pc[c] = "save" /\ InBatch(c, m) => Holdings(m)' + 1 <= Holdings(m)
  <2>1. \A d \in Consumers : \/ Flushed(d)' \/ batch'[d] = <<>>
                             \/ ~ Flushed(d) /\ batch'[d] = batch[d]
    BY <1>1, <1>2, <1>4
  <2>2. Counted(m)' /\ Holdings(m)' <= Holdings(m)
    BY <1>2, <1>4, <2>1, HoldingsShrink
  <2>3. Holdings(m)' = metricRows[m] + Cardinality(Unsaved(m)')
    BY <1>4 DEF Holdings
  <2>4. ASSUME Scoring(c, m) PROVE Holdings(m)' + 1 <= Holdings(m)
    <3>1. <<c, 0>> \in Unsaved(m) /\ Unsaved(m)' \subseteq Unsaved(m) \ {<<c, 0>>}
      BY <1>2, <1>3, <2>1, <2>4, UnsavedWithoutCur
    <3>2. Cardinality(Unsaved(m)') + 1 <= Cardinality(Unsaved(m)) /\ Cardinality(Unsaved(m)') \in Nat
      BY <3>1, Parted, FS_Singleton DEF Counted
    <3> QED
      BY <2>3, <3>2, HoldingFacts
  <2>5. ASSUME Vanish(c), pc[c] = "save", InBatch(c, m) PROVE Holdings(m)' + 1 <= Holdings(m)
    <3> DEFINE K == {c} \X Copies(batch[c], m)
    <3>1. ~ Flushed(c) /\ batch'[c] = <<>>
      BY <1>2, <2>5 DEF Flushed
    <3>2. IsFiniteSet(K) /\ Cardinality(K) \in Nat /\ Cardinality(K) # 0 /\ K \subseteq Unsaved(m)
      BY <1>3, <2>5, <3>1, CopiesOfOne
    <3>3. Unsaved(m)' \subseteq Unsaved(m) \ K
      BY <1>2, <1>3, <2>1, <3>1, UnsavedWithout
    <3> HIDE DEF K
    <3>4. /\ Cardinality(Unsaved(m)') + Cardinality(K) <= Cardinality(Unsaved(m))
          /\ Cardinality(Unsaved(m)') \in Nat
      BY <3>2, <3>3, Parted DEF Counted
    <3> QED
      BY <2>3, <3>2, <3>4, HoldingFacts
  <2> QED
    BY <2>2, <2>4, <2>5
<1>5. CASE LeavesFreely(c)
  <2>1. metricRows' = metricRows /\ (Vanish(c) \/ ~ Flushed(c))
    BY <1>1, <1>5 DEF LeavesFreely, PollTombstone, Polls, Flushed
  <2> QED
    BY <1>1, <1>4, <2>1
<1>6. CASE ~ LeavesFreely(c) /\ LeavesByFault(c) /\ metricRows' = metricRows
  <2>1. CASE Vanish(c) \/ ~ Flushed(c)
    BY <1>1, <1>4, <1>6, <2>1
  <2>2. CASE ~ Vanish(c) /\ Flushed(c)
    BY <1>1, <1>6, <2>2, HoldingsRepeat DEF Flushed, Scoring
  <2> QED
    BY <2>1, <2>2
<1>7. CASE /\ ~ LeavesFreely(c) /\ LeavesByFault(c)
           /\ pc[c] = "save" /\ SaveBatch(batch[c])
  <2>1. CASE Vanish(c)
    <3>1. Counted(m)' /\ Holdings(m)' <= Holdings(m)
      BY <1>2, <1>7, <2>1, HoldingsSaved
    <3> QED
      BY <1>1, <1>7, <3>1 DEF Scoring
  <2>2. CASE FinalFlush(c)
    BY <1>1, <1>7, <2>2, HoldingsRepeat DEF Scoring
  <2> QED
    BY <1>1, <2>1, <2>2
<1> QED
  BY <1>5, <1>6, <1>7 DEF LeavesByFault

\* What a step of a process can do to the account of m: nothing; one more
\* copy where it is read; a repetition, for a failure.
LEMMA HoldingsStep ==
    ASSUME ConstantsAssumption, TypeOK, TypeOK', NEW m \in Msgs, Counted(m), NEW c \in Consumers,
           Work(c) \/ Failure(c)
    PROVE  /\ Counted(m)'
           /\ \/ Holdings(m)' <= Holdings(m)
              \/ Reads(c, m) /\ Holdings(m)' <= Holdings(m) + 1
              \/ Repeats(c, m)
<1>1. Alone(c)
  BY StepKinds
<1>2. \A d \in Consumers \ {c} : Flushed(d)' = Flushed(d) /\ batch'[d] = batch[d]
                                 /\ Scoring(d, m)' = Scoring(d, m)
  BY <1>1 DEF Alone, Flushed, Scoring
<1>3. CASE Steady(c)
  <2>1. /\ metricRows' = metricRows /\ batch' = batch /\ (Scoring(c, m)' => Scoring(c, m))
        /\ Flushed(c)' = Flushed(c)
    BY <1>3 DEF Steady, Flushed, Scoring
  <2> QED
    BY <1>2, <2>1, HoldingsShrink
<1>4. ASSUME NEW k \in Msgs, Reads(c, k)
      PROVE  Counted(m)' /\ \/ Holdings(m)' <= Holdings(m)
                            \/ Reads(c, m) /\ Holdings(m)' <= Holdings(m) + 1
  BY <1>1, <1>4, HoldingsRead
<1>5. CASE Decides(c)
  BY <1>1, <1>5, HoldingsDecide
<1>6. CASE SaveCommits(c)
  <2>1. /\ pc[c] = "save" /\ SaveBatch(batch[c]) /\ Flushed(c)' /\ batch'[c] = batch[c]
        /\ ~ Scoring(c, m)'
    BY <1>6 DEF SaveCommits, Flushed, Scoring, TypeOK, ProcessTypes
  <2> QED
    BY <1>2, <2>1, HoldingsSaved
<1>7. ASSUME NEW S, Commits(c, S) PROVE Counted(m)' /\ Holdings(m)' <= Holdings(m)
  <2>1. /\ metricRows' = metricRows /\ batch' = batch /\ Flushed(c)' /\ Flushed(c)
        /\ ~ Scoring(c, m)'
    BY <1>7 DEF Commits, Flushed, Scoring, TypeOK, ProcessTypes
  <2> QED
    BY <1>2, <2>1, HoldingsShrink
<1>8. CASE Resets(c)
  <2>1. /\ metricRows' = metricRows /\ batch'[c] = <<>> /\ ~ Flushed(c)'
        /\ ~ Scoring(c, m)'
    BY <1>8 DEF Resets, Flushed, Scoring, TypeOK, ProcessTypes
  <2> QED
    BY <1>2, <2>1, HoldingsShrink
<1>9. CASE LeavesFreely(c) \/ LeavesByFault(c)
  BY <1>9, HoldingsLeave
<1> QED
  BY <1>3, <1>4, <1>5, <1>6, <1>7, <1>8, <1>9, StepKinds

-----------------------------------------------------------------------------
(* What may be read, what may be committed below it.                       *)

\* LastPolled is the offset of the partition's last place in the batch.
LEMMA LastPolledAt ==
    ASSUME NEW b \in Seq(Entries), NEW i \in DOMAIN b,
           \A j \in DOMAIN b : b[j].msg[1] = b[i].msg[1] => j <= i
    PROVE  LastPolled(b, b[i].msg[1]) = b[i].msg[2]
<1> DEFINE p == b[i].msg[1]
           P(k) == b[k].msg[1] = p /\ \A j \in DOMAIN b : b[j].msg[1] = p => j <= k
<1>1. DOMAIN b \subseteq Nat
  OBVIOUS
<1>2. P(i) /\ i \in DOMAIN b
  OBVIOUS
<1>3. LastPolled(b, p) = b[CHOOSE k \in DOMAIN b : P(k)].msg[2]
  BY DEF LastPolled
<1> HIDE DEF P
<1>4. PICK k \in DOMAIN b : k = (CHOOSE x \in DOMAIN b : P(x)) /\ P(k)
  BY <1>2
<1>5. k = i
  BY <1>1, <1>2, <1>4 DEF P
<1> QED
  BY <1>3, <1>4, <1>5

\* An entry that joins a batch decides its own partition's offset, and no other.
LEMMA LastPolledAppend ==
    ASSUME NEW b \in Seq(Entries), NEW e \in Entries, NEW p,
           p \in Touched(Append(b, e))
    PROVE  IF e.msg[1] = p THEN LastPolled(Append(b, e), p) = e.msg[2]
           ELSE p \in Touched(b) /\ LastPolled(Append(b, e), p) = LastPolled(b, p)
<1> DEFINE a == Append(b, e)
           n == Len(b) + 1
<1>1. /\ a \in Seq(Entries) /\ DOMAIN a = DOMAIN b \cup {n} /\ n \in DOMAIN a /\ a[n] = e
      /\ n \notin DOMAIN b
      /\ \A j \in DOMAIN b : a[j] = b[j] /\ j <= n
      /\ n <= n
  OBVIOUS
<1>2. \A j \in DOMAIN a : j <= n
  BY <1>1
<1> HIDE DEF a, n
<1>3. CASE e.msg[1] = p
  BY <1>1, <1>2, <1>3, LastPolledAt DEF a
<1>4. CASE e.msg[1] # p
  <2> DEFINE T == {j \in DOMAIN b : b[j].msg[1] = p}
  <2>1. PICK j \in DOMAIN a : a[j].msg[1] = p
    BY DEF a, Touched
  <2>2. j \in DOMAIN b /\ b[j].msg[1] = p
    BY <1>1, <1>4, <2>1
  <2>3. T \in SUBSET (1 .. Len(b)) /\ T # {} /\ Len(b) \in Nat
    BY <2>2
  <2> HIDE DEF T
  <2>4. PICK i \in T : \A k \in T : k <= i
    BY <2>3, LastIndex
  <2>5. i \in DOMAIN b /\ b[i].msg[1] = p /\ \A k \in DOMAIN b : b[k].msg[1] = p => k <= i
    BY <2>4 DEF T
  <2>6. LastPolled(b, p) = b[i].msg[2]
    BY <2>5, LastPolledAt
  <2>7. i \in DOMAIN a /\ a[i] = b[i] /\ \A k \in DOMAIN a : a[k].msg[1] = p => k <= i
    BY <1>1, <1>4, <2>5
  <2>8. LastPolled(a, p) = a[i].msg[2]
    BY <1>1, <2>5, <2>7, LastPolledAt
  <2>9. p \in Touched(b)
    BY <2>5 DEF Touched
  <2> QED
    BY <1>4, <2>6, <2>7, <2>8, <2>9 DEF a
<1> QED
  BY <1>3, <1>4

\* A batch that grows is below m only as its last entry is, or as it was.
LEMMA BelowAppend ==
    ASSUME TypeOK, NEW c \in Consumers, NEW e \in Entries, batch'[c] = Append(batch[c], e),
           NEW m, Below(c, m)'
    PROVE  IF e.msg[1] = m[1] THEN e.msg[2] < m[2] ELSE Below(c, m)
<1>1. batch[c] \in Seq(Entries)
  BY DEF TypeOK, ProcessTypes
<1>2. /\ m[1] \in Touched(Append(batch[c], e))
      /\ LastPolled(Append(batch[c], e), m[1]) < m[2]
  BY DEF Below
<1> QED
  BY <1>1, <1>2, LastPolledAppend DEF Below

LEMMA EmptyIsNotBelow ==
    ASSUME NEW c, batch'[c] = <<>>, NEW m PROVE ~ Below(c, m)'
<1>1. Touched(<<>>) = {}
  BY DEF Touched
<1> QED
  BY <1>1 DEF Below

\* A process moves only the position of a message it polls.
LEMMA PositionStep ==
    ASSUME ConstantsAssumption, TypeOK, NEW c \in Consumers, Work(c) \/ Failure(c)
    PROVE  /\ position' = position \/ \E k \in Msgs : Polls(c, k)
           /\ \A m \in Msgs : Read(m) => Read(m)'
<1>1. position' = position \/ \E k \in Msgs : Polls(c, k)
  <2>1. LeavesFreely(c) => position' = position \/ \E k \in Msgs : Polls(c, k)
    BY DEF LeavesFreely, PollTombstone
  <2> QED
    BY <2>1, StepKinds DEF Steady, Reads, Decides, SaveCommits, Commits, Resets, LeavesByFault, group
<1>2. ASSUME NEW k \in Msgs, Polls(c, k) PROVE \A m \in Msgs : Read(m) => Read(m)'
  <2> SUFFICES ASSUME NEW m \in Msgs, Read(m) PROVE Read(m)'
    OBVIOUS
  <2>1. \A p \in Partitions : position[p] <= position'[p]
    BY <1>2, PollsForward
  <2>2. /\ m[1] \in Partitions /\ m[2] \in Nat /\ position[m[1]] \in Nat
        /\ position[m[1]] <= position'[m[1]]
    BY <2>1, MsgFacts DEF TypeOK, GroupTypes
  <2>3. position'[m[1]] \in Nat
    BY <1>2, PollsTypes, <2>2 DEF TypeOK
  <2> QED
    BY <2>2, <2>3 DEF Read
<1>3. position' = position => \A m \in Msgs : Read(m) => Read(m)'
  BY DEF Read
<1> QED
  BY <1>1, <1>2, <1>3

\* A threat to m arises only in the owner of its partition, and only while m
\* is yet to be read.
LEMMA ThreatStep ==
    ASSUME ConstantsAssumption, TypeOK, TypeOK', NEW c \in Consumers, Work(c) \/ Failure(c),
           NEW m \in Msgs, NEW d \in Consumers, Threat(d, m)'
    PROVE  Threat(d, m) \/ (d = c /\ owner'[m[1]] = c /\ ~ Read(m)')
<1>1. Alone(c)
  BY StepKinds
<1>2. CASE d # c
  BY <1>1, <1>2 DEF Alone, Threat, Below, ScoresBelow
<1>3. CASE d = c
  <2>1. CASE Steady(c)
    BY <1>3, <2>1 DEF Steady, Threat, Below, ScoresBelow
  <2>2. ASSUME NEW k \in Msgs, Reads(c, k)
        PROVE  Threat(d, m) \/ (owner'[m[1]] = c /\ ~ Read(m)')
    <3>1. owner' = owner /\ owner[k[1]] = c /\ position'[k[1]] = k[2] /\ k[1] \in Partitions
      BY <2>2, PollsForward DEF Reads
    <3>2. ASSUME k[1] = m[1], k[2] < m[2] PROVE owner'[m[1]] = c /\ ~ Read(m)'
      BY <3>1, <3>2, MsgFacts DEF Read
    <3>3. CASE pc' = [pc EXCEPT ![c] = "score"] /\ cur' = [cur EXCEPT ![c] = k] /\ batch' = batch
      <4>1. cur'[c] = k /\ batch'[c] = batch[c]
        BY <3>3 DEF TypeOK, ProcessTypes
      <4> QED
        BY <1>3, <3>2, <4>1 DEF Threat, Below, ScoresBelow
    <3>4. CASE Append1(c, [msg |-> k, kind |-> "rejected"]) /\ cur' = cur
      <4> DEFINE e == [msg |-> k, kind |-> "rejected"]
      <4>1. e \in Entries /\ e.msg = k
        BY DEF Entries
      <4> HIDE DEF e
      <4>2. batch'[c] = Append(batch[c], e) /\ pc'[c] # "score"
        BY <3>4, <4>1, AppendTypes DEF e, Append1, TypeOK, ProcessTypes
      <4>3. Below(c, m)'
        BY <1>3, <4>2 DEF Threat, ScoresBelow
      <4>4. IF k[1] = m[1] THEN k[2] < m[2] ELSE Below(c, m)
        BY <4>1, <4>2, <4>3, BelowAppend
      <4> QED
        BY <1>3, <3>2, <4>4 DEF Threat
    <3> QED
      BY <2>2, <3>3, <3>4 DEF Reads
  <2>3. CASE Decides(c)
    <3>1. PICK e \in Entries : e.msg = cur[c] /\ Append1(c, e)
      BY <2>3 DEF Decides
    <3>2. batch'[c] = Append(batch[c], e) /\ pc'[c] # "score"
      BY <3>1, AppendTypes DEF Append1, TypeOK, ProcessTypes
    <3>3. Below(c, m)'
      BY <1>3, <3>2 DEF Threat, ScoresBelow
    <3>4. IF cur[c][1] = m[1] THEN cur[c][2] < m[2] ELSE Below(c, m)
      BY <3>1, <3>2, <3>3, BelowAppend
    <3> QED
      BY <1>3, <2>3, <3>4 DEF Decides, Threat, ScoresBelow
  <2>4. CASE SaveCommits(c) \/ \E S \in SUBSET Touched(batch[c]) : Commits(c, S)
    <3>1. batch' = batch /\ pc'[c] # "score"
      BY <2>4 DEF SaveCommits, Commits, TypeOK, ProcessTypes
    <3> QED
      BY <1>3, <3>1 DEF Threat, Below, ScoresBelow
  <2>5. CASE Resets(c)
    <3>1. batch'[c] = <<>> /\ pc'[c] # "score"
      BY <2>5 DEF Resets, TypeOK, ProcessTypes
    <3> QED
      BY <1>3, <3>1, EmptyIsNotBelow DEF Threat, ScoresBelow
  <2>6. CASE LeavesFreely(c) \/ LeavesByFault(c)
    <3>1. Vanish(c) \/ FinalFlush(c)
      BY <2>6 DEF LeavesFreely, LeavesByFault, PollTombstone, Leave
    <3>2. (batch'[c] = <<>> \/ batch'[c] = batch[c]) /\ pc'[c] # "score"
      BY <3>1, LeaveFacts
    <3> QED
      BY <1>3, <3>2, EmptyIsNotBelow DEF Threat, Below, ScoresBelow
  <2> QED
    BY <1>3, <2>1, <2>2, <2>3, <2>4, <2>5, <2>6, StepKinds
<1> QED
  BY <1>2, <1>3

\* A process that scores m takes it into its batch, which then ends with m.
Menace(d, m) == Threat(d, m) /\ ~ Scoring(d, m)

\* m has been read, and nobody holds a reason to read it again.
Clear(m) == Read(m) /\ \A d \in Consumers : ~ Threat(d, m)
Safe(m) == Covered(m) /\ Clear(m)

\* A process that lets go of m while it scores it commits it, or drops it.
LEMMA MenaceStep ==
    ASSUME ConstantsAssumption, TypeOK, TypeOK', NEW c \in Consumers, Work(c) \/ Failure(c),
           NEW m \in Msgs, NEW d \in Consumers, Menace(d, m)'
    PROVE  \/ Menace(d, m)
           \/ d = c /\ owner'[m[1]] = c /\ ~ Read(m)'
           \/ d = c /\ LeavesByFault(c) /\ FinalFlush(c) /\ Scoring(c, m)
<1>1. Threat(d, m)' /\ ~ Scoring(d, m)'
  BY DEF Menace
<1>2. Threat(d, m) \/ (d = c /\ owner'[m[1]] = c /\ ~ Read(m)')
  BY <1>1, ThreatStep
<1>3. CASE Scoring(d, m)
  <2>1. d = c
    BY <1>1, <1>3, StepKinds DEF Alone, Scoring
  <2>2. pc[c] = "score"
    BY <1>3, <2>1 DEF Scoring
  <2>3. ~ Steady(c) /\ ~ (\E k \in Msgs : Reads(c, k)) /\ ~ Resets(c) /\ ~ SaveCommits(c)
        /\ (\A S : ~ Commits(c, S)) /\ ~ LeavesFreely(c)
    <3>1. ~ Steady(c)
      BY <1>1, <1>3, <2>1, <2>2 DEF Steady, Scoring
    <3> QED
      BY <2>2, <3>1 DEF Reads, Polls, Resets, SaveCommits, Commits, LeavesFreely, PollTombstone
  <2>4. ~ Decides(c)
    <3> SUFFICES ASSUME Decides(c) PROVE FALSE
      OBVIOUS
    <3>1. PICK e \in Entries : e.msg = cur[c] /\ Append1(c, e)
      BY DEF Decides
    <3>2. batch'[c] = Append(batch[c], e) /\ pc'[c] # "score"
      BY <3>1, AppendTypes DEF Append1, TypeOK, ProcessTypes
    <3>3. Below(c, m)' /\ e.msg = m
      BY <1>1, <1>3, <2>1, <3>1, <3>2 DEF Threat, ScoresBelow, Scoring
    <3> QED
      BY <3>2, <3>3, BelowAppend, MsgFacts
  <2>5. LeavesByFault(c)
    BY <2>3, <2>4, StepKinds
  <2>6. CASE Vanish(c)
    <3>1. batch'[c] = <<>> /\ pc'[c] # "score"
      BY <2>6, LeaveFacts
    <3> QED
      BY <1>1, <2>1, <3>1, EmptyIsNotBelow DEF Threat, ScoresBelow
  <2> QED
    BY <1>3, <2>1, <2>5, <2>6 DEF LeavesByFault
<1> QED
  BY <1>2, <1>3 DEF Menace

\* Offsets that are stored where no process holds a threat cover m.
LEMMA StoresCover ==
    ASSUME ConstantsAssumption, TypeOK, NEW c \in Consumers, NEW m \in Msgs, ~ Below(c, m),
           NEW S \in SUBSET Touched(batch[c]), StoreOffsets(batch[c], S)
    PROVE  Covered(m) \/ m[1] \in S => Covered(m)'
<1>1. m[1] \in Partitions /\ m[2] \in Nat /\ batch[c] \in Seq(Entries)
  BY MsgFacts DEF TypeOK, ProcessTypes
<1>2. committed'[m[1]] = IF m[1] \in S THEN LastPolled(batch[c], m[1]) ELSE committed[m[1]]
  BY <1>1 DEF StoreOffsets
<1>3. CASE m[1] \in S
  <2>1. m[1] \in Touched(batch[c])
    BY <1>3
  <2>2. PICK i \in DOMAIN batch[c] : LastPolled(batch[c], m[1]) = batch[c][i].msg[2]
    BY <1>1, <2>1, LastPolledIsBatched
  <2>3. batch[c][i].msg[2] \in Nat
    BY BatchParts DEF TypeOK
  <2>4. ~ LastPolled(batch[c], m[1]) < m[2]
    BY <2>1 DEF Below
  <2> QED
    BY <1>1, <1>2, <1>3, <2>2, <2>3, <2>4 DEF Covered
<1> QED
  BY <1>2, <1>3 DEF Covered

LEMMA CoveredStep ==
    ASSUME ConstantsAssumption, TypeOK, NEW c \in Consumers, Work(c) \/ Failure(c),
           NEW m \in Msgs, ~ Threat(c, m), Covered(m)
    PROVE  Covered(m)'
<1>1. \/ committed' = committed
      \/ \E S \in SUBSET Touched(batch[c]) : StoreOffsets(batch[c], S)
  BY StepKinds DEF Steady, Reads, Decides, SaveCommits, Commits, Resets, LeavesFreely,
     LeavesByFault, group
<1>2. ~ Below(c, m)
  BY DEF Threat
<1> QED
  BY <1>1, <1>2, StoresCover DEF Covered

LEMMA ClearStep ==
    ASSUME ConstantsAssumption, TypeOK, TypeOK', NEW c \in Consumers, Work(c) \/ Failure(c),
           NEW m \in Msgs, Clear(m)
    PROVE  Clear(m)'
<1>1. Read(m)'
  BY PositionStep DEF Clear
<1>2. \A d \in Consumers : ~ Threat(d, m)'
  BY <1>1, ThreatStep DEF Clear
<1> QED
  BY <1>1, <1>2 DEF Clear

\* Once safe, a message is never read again.
LEMMA SafeStep ==
    ASSUME ConstantsAssumption, TypeOK, TypeOK', [Next]_vars, NEW m \in Msgs, Safe(m)
    PROVE  Safe(m)'
<1>1. ASSUME NEW c \in Consumers, Work(c) \/ Failure(c) PROVE Safe(m)'
  BY <1>1, CoveredStep, ClearStep DEF Safe, Clear
<1>2. CASE Rebalance
  <2>1. position' = committed /\ committed' = committed /\ UNCHANGED <<pc, batch, cur>>
    BY <1>2 DEF Rebalance, local
  <2> QED
    BY <2>1 DEF Safe, Clear, Covered, Read, Threat, Below, ScoresBelow
<1>3. CASE UNCHANGED vars
  BY <1>3 DEF vars, Safe, Clear, Covered, Read, Threat, Below, ScoresBelow
<1> QED
  BY <1>1, <1>2, <1>3 DEF Next

-----------------------------------------------------------------------------
(* One process.  A message that it holds, or has committed, is not read    *)
(* again while nothing fails.                                              *)

Kept(c, m) == /\ Read(m)
              /\ \/ Scoring(c, m)
                 \/ ~ Threat(c, m) /\ (Covered(m) \/ (InBatch(c, m) /\ pc[c] # "alert"))

LEMMA HoldingNext ==
    ASSUME TypeOK', NEW m \in Msgs, Counted(m)'
    PROVE  metricRows'[m] \in Nat /\ Cardinality(Unsaved(m)') \in Nat /\ Holdings(m)' \in Nat
<1>1. metricRows'[m] \in Nat
  BY DEF TypeOK, TableTypes
<1> QED
  BY <1>1, FS_CardinalityType DEF Counted, Holdings

\* A message that is held or durable weighs in its account.
LEMMA HeldCounts ==
    ASSUME TypeOK, CommitInv, NEW m \in Msgs, Counted(m), NEW c \in Consumers,
           Scoring(c, m) \/ InBatch(c, m) \/ Durable(m)
    PROVE  Holdings(m) >= 1
<1>1. CASE Scoring(c, m)
  <2>1. <<c, 0>> \in Unsaved(m)
    BY <1>1, UnsavedFacts
  <2>2. Cardinality(Unsaved(m)) # 0
    BY <2>1, FS_EmptySet DEF Counted
  <2> QED
    BY <2>2, HoldingFacts
<1>2. CASE Durable(m)
  BY <1>2, HoldingFacts DEF Durable
<1>3. CASE InBatch(c, m) /\ ~ Flushed(c)
  <2>1. PICK i \in DOMAIN batch[c] : batch[c][i].msg = m
    BY <1>3 DEF InBatch
  <2>2. <<c, i>> \in Unsaved(m)
    BY <1>3, <2>1, UnsavedFacts
  <2>3. Cardinality(Unsaved(m)) # 0
    BY <2>2, FS_EmptySet DEF Counted
  <2> QED
    BY <2>3, HoldingFacts
<1>4. CASE InBatch(c, m) /\ Flushed(c)
  <2>1. Durable(m)
    BY <1>4 DEF InBatch, Flushed, CommitInv, ProcessInv, FlushedDurable
  <2> QED
    BY <1>2, <2>1
<1> QED
  BY <1>1, <1>2, <1>3, <1>4

LEMMA KeptCounts ==
    ASSUME TypeOK, CommitInv, NEW m \in Msgs, Counted(m), NEW c \in Consumers, Kept(c, m)
    PROVE  Holdings(m) >= 1
<1>1. Covered(m) => Durable(m)
  BY DEF Covered, CommitInv, CommittedDurable
<1> QED
  BY <1>1, HeldCounts DEF Kept

\* A message that was read was not kept before, and is now.
LEMMA KeptRead ==
    ASSUME ConstantsAssumption, TypeOK, TypeOK', NEW c \in Consumers, Work(c) \/ Failure(c),
           NEW m \in Msgs, Reads(c, m)
    PROVE  ~ Read(m) /\ Kept(c, m)'
<1>1. /\ position'[m[1]] = m[2] /\ position[m[1]] < m[2] /\ m[2] \in Nat
      /\ position[m[1]] \in Nat
  BY PollsForward, MsgFacts DEF Reads, TypeOK, GroupTypes
<1>2. ~ Read(m) /\ Read(m)'
  BY <1>1 DEF Read
<1>3. CASE pc' = [pc EXCEPT ![c] = "score"] /\ cur' = [cur EXCEPT ![c] = m]
  BY <1>2, <1>3 DEF Kept, Scoring, TypeOK, ProcessTypes
<1>4. CASE Append1(c, [msg |-> m, kind |-> "rejected"])
  <2> DEFINE e == [msg |-> m, kind |-> "rejected"]
  <2>1. e \in Entries /\ e.msg = m
    BY DEF Entries
  <2>2. pc'[c] \in {"poll", "save"}
    BY <1>4 DEF Append1, TypeOK, ProcessTypes
  <2> HIDE DEF e
  <2>3. batch'[c] = Append(batch[c], e) /\ batch[c] \in Seq(Entries)
    BY <1>4 DEF e, Append1, TypeOK, ProcessTypes
  <2>4. InBatch(c, m)'
    BY <2>1, <2>3 DEF InBatch
  <2>5. ~ Below(c, m)'
    BY <1>1, <2>1, <2>3, BelowAppend
  <2> QED
    BY <1>2, <2>2, <2>4, <2>5 DEF Kept, Threat, ScoresBelow
<1> QED
  BY <1>2, <1>3, <1>4 DEF Reads

\* What a process keeps it keeps while nothing fails, unless it drops the
\* copies of a batch that PostgreSQL refused.
LEMMA KeptStep ==
    ASSUME ConstantsAssumption, TypeOK, TypeOK', CommitInv, NEW c \in Consumers,
           Work(c) \/ Failure(c), faults' = faults, NEW m \in Msgs, Counted(m), Kept(c, m)
    PROVE  Kept(c, m)' \/ Holdings(m)' + 1 <= Holdings(m)
<1>1. Read(m) /\ Read(m)'
  BY PositionStep DEF Kept
<1>2. Threat(c, m)' => Threat(c, m)
  BY <1>1, ThreatStep
<1>3. Covered(m) /\ ~ Threat(c, m) => Kept(c, m)'
  <2>1. Covered(m) /\ ~ Threat(c, m) => Covered(m)' /\ ~ Threat(c, m)'
    BY <1>2, CoveredStep
  <2> QED
    BY <1>1, <2>1 DEF Kept
<1>4. CASE Scoring(c, m)
  <2>1. pc[c] = "score"
    BY <1>4 DEF Scoring
  <2>2. CASE Steady(c)
    BY <1>1, <1>4, <2>1, <2>2 DEF Steady, Scoring, Kept
  <2>3. CASE Decides(c)
    <3>1. PICK e \in Entries : e.msg = cur[c] /\ Append1(c, e)
      BY <2>3 DEF Decides
    <3>2. /\ batch'[c] = Append(batch[c], e) /\ pc'[c] \in {"poll", "save"} /\ e.msg = m
          /\ batch[c] \in Seq(Entries)
      BY <1>4, <3>1 DEF Scoring, Append1, TypeOK, ProcessTypes
    <3>3. InBatch(c, m)'
      BY <3>2 DEF InBatch
    <3>4. ~ Below(c, m)'
      BY <3>2, BelowAppend, MsgFacts
    <3> QED
      BY <1>1, <3>2, <3>3, <3>4 DEF Kept, Threat, ScoresBelow
  <2>4. ~ (\E k \in Msgs : Reads(c, k)) /\ ~ Resets(c) /\ ~ SaveCommits(c)
        /\ (\A S : ~ Commits(c, S)) /\ ~ LeavesFreely(c) /\ ~ LeavesByFault(c)
    <3>1. faults # faults + 1
      BY DEF TypeOK, AuditTypes
    <3> QED
      BY <2>1, <3>1 DEF Reads, Polls, Resets, SaveCommits, Commits, LeavesFreely, PollTombstone,
         LeavesByFault
  <2> QED
    BY <2>2, <2>3, <2>4, StepKinds
<1>5. CASE ~ Covered(m) /\ ~ Threat(c, m) /\ InBatch(c, m) /\ pc[c] # "alert"
  <2>1. ~ Threat(c, m)'
    BY <1>2, <1>5
  <2>2. CASE Steady(c)
    <3>1. batch' = batch /\ pc'[c] # "alert"
      BY <1>5, <2>2 DEF Steady
    <3> QED
      BY <1>1, <1>5, <2>1, <3>1 DEF Kept, InBatch
  <2>3. CASE SaveCommits(c)
    <3>1. batch' = batch /\ pc'[c] # "alert"
      BY <2>3 DEF SaveCommits, TypeOK, ProcessTypes
    <3> QED
      BY <1>1, <1>5, <2>1, <3>1 DEF Kept, InBatch
  <2>4. ASSUME NEW k \in Msgs, Reads(c, k) PROVE Kept(c, m)'
    <3>1. InBatch(c, m)' /\ pc'[c] # "alert"
      <4>1. CASE pc' = [pc EXCEPT ![c] = "score"] /\ batch' = batch
        BY <1>5, <4>1 DEF InBatch, TypeOK, ProcessTypes
      <4>2. CASE Append1(c, [msg |-> k, kind |-> "rejected"])
        <5> DEFINE e == [msg |-> k, kind |-> "rejected"]
        <5>1. e \in Entries
          BY DEF Entries
        <5> HIDE DEF e
        <5>2. /\ batch'[c] = Append(batch[c], e) /\ pc'[c] # "alert"
              /\ batch[c] \in Seq(Entries)
          BY <4>2 DEF e, Append1, TypeOK, ProcessTypes
        <5> QED
          BY <1>5, <5>1, <5>2 DEF InBatch
      <4> QED
        BY <2>4, <4>1, <4>2 DEF Reads
    <3> QED
      BY <1>1, <2>1, <3>1 DEF Kept
  <2>5. CASE Decides(c)
    <3>1. PICK e \in Entries : Append1(c, e)
      BY <2>5 DEF Decides
    <3>2. batch'[c] = Append(batch[c], e) /\ pc'[c] # "alert" /\ batch[c] \in Seq(Entries)
      BY <3>1 DEF Append1, TypeOK, ProcessTypes
    <3>3. InBatch(c, m)'
      BY <1>5, <3>2 DEF InBatch
    <3> QED
      BY <1>1, <2>1, <3>2, <3>3 DEF Kept
  <2>6. ASSUME NEW S \in SUBSET Touched(batch[c]), Commits(c, S) PROVE Kept(c, m)'
    <3>1. S = Touched(batch[c]) /\ StoreOffsets(batch[c], S) /\ ~ Below(c, m)
      BY <1>5, <2>6 DEF Commits, Threat, TypeOK, AuditTypes
    <3>2. m[1] \in S
      BY <1>5, <3>1 DEF InBatch, Touched
    <3>3. Covered(m)'
      BY <3>1, <3>2, StoresCover
    <3> QED
      BY <1>1, <2>1, <3>3 DEF Kept
  <2>7. ~ Resets(c) /\ ~ LeavesByFault(c)
    BY <1>5 DEF Resets, LeavesByFault, TypeOK, AuditTypes
  <2>8. CASE LeavesFreely(c)
    <3>1. Vanish(c) \/ FinalFlush(c)
      BY <2>8, HoldingsLeave
    <3>2. CASE FinalFlush(c)
      <4>1. batch'[c] = batch[c] /\ pc'[c] = "save"
        BY <3>2, LeaveFacts
      <4> QED
        BY <1>1, <1>5, <2>1, <4>1 DEF Kept, InBatch
    <3>3. CASE Vanish(c)
      <4>1. batch[c] # <<>>
        BY <1>5 DEF InBatch
      <4>2. CASE pc[c] = "save"
        BY <1>5, <2>8, <3>3, <4>2, HoldingsLeave
      <4>3. CASE pc[c] # "save"
        <5>1. Leave(c) /\ pc[c] = "poll"
          BY <1>5, <2>8, <4>3 DEF LeavesFreely, PollTombstone, Polls
        <5>2. ~ closing[c]
          BY <5>1 DEF CommitInv, ProcessInv, ClosingFlushes
        <5>3. pc'[c] = "down"
          BY <3>3, LeaveFacts
        <5>4. pc'[c] = "save"
          BY <4>1, <5>1, <5>2, LeaveFacts DEF Leave
        <5> QED
          BY <5>3, <5>4
      <4> QED
        BY <4>2, <4>3
    <3> QED
      BY <3>1, <3>2, <3>3
  <2> QED
    BY <2>2, <2>3, <2>4, <2>5, <2>6, <2>7, <2>8, StepKinds
<1> QED
  BY <1>3, <1>4, <1>5 DEF Kept

\* The final flush of a kept message keeps it.
LEMMA KeptRepeat ==
    ASSUME ConstantsAssumption, TypeOK, TypeOK', NEW c \in Consumers, Work(c) \/ Failure(c),
           NEW m \in Msgs, Repeats(c, m), Kept(c, m)
    PROVE  Kept(c, m)'
<1>1. FinalFlush(c) /\ pc[c] \in {"save", "commit", "alert"}
  BY DEF Repeats
<1>2. ~ Scoring(c, m)
  BY <1>1 DEF Scoring
<1>3. Read(m)' /\ ~ Threat(c, m)'
  <2>1. Read(m)'
    BY PositionStep DEF Kept
  <2> QED
    BY <1>2, <2>1, ThreatStep DEF Kept
<1>4. batch'[c] = batch[c] /\ pc'[c] = "save"
  BY <1>1, LeaveFacts
<1>5. CASE Covered(m)
  BY <1>2, <1>3, <1>5, CoveredStep DEF Kept
<1>6. CASE InBatch(c, m)
  BY <1>3, <1>4, <1>6 DEF Kept, InBatch
<1> QED
  BY <1>2, <1>5, <1>6 DEF Kept

-----------------------------------------------------------------------------
(* What every step keeps: the copies can be counted, and so can the        *)
(* doublings.                                                              *)

CountInv == IsFiniteSet(SUBSET (1 .. faults)) /\ \A m \in Msgs : Counted(m)

\* A failure doubles, and nothing else changes the bound.
LEMMA DoublingsStep ==
    ASSUME TypeOK, IsFiniteSet(SUBSET (1 .. faults)), faults' \in {faults, faults + 1}
    PROVE  /\ IsFiniteSet(SUBSET (1 .. faults)')
           /\ Doublings(faults) \in Nat /\ Doublings(faults)' \in Nat
           /\ faults' = faults => Doublings(faults)' = Doublings(faults)
           /\ faults' = faults + 1 => Doublings(faults)' = 2 * Doublings(faults)
<1>1. faults \in Nat /\ Doublings(faults) \in Nat
  BY FS_CardinalityType DEF Doublings, TypeOK, AuditTypes
<1>2. CASE faults' = faults
  BY <1>1, <1>2 DEF Doublings
<1>3. CASE faults' = faults + 1
  <2>1. /\ IsFiniteSet(SUBSET (1 .. (faults + 1)))
        /\ Doublings(faults + 1) = 2 * Doublings(faults)
    BY <1>1, DoublingsDouble
  <2>2. Doublings(faults)' = Doublings(faults + 1)
    BY <1>3 DEF Doublings
  <2> QED
    BY <1>1, <1>3, <2>1, <2>2
<1> QED
  BY <1>2, <1>3

\* A rebalance moves no copy.
LEMMA HoldingsStay ==
    ASSUME UNCHANGED <<pc, batch, cur, metricRows>>, NEW m
    PROVE  /\ Unsaved(m)' = Unsaved(m) /\ Holdings(m)' = Holdings(m)
           /\ Counted(m)' = Counted(m)
<1>1. Unsaved(m)' = Unsaved(m) /\ FlushedCopies(m)' = FlushedCopies(m)
  BY DEF Unsaved, InMemory, BeingScored, Scoring, FlushedCopies, Flushed
<1> QED
  BY <1>1 DEF Counted, Holdings

LEMMA StartsEmpty ==
    ASSUME Init, NEW m \in Msgs
    PROVE  Counted(m) /\ Holdings(m) = 0
<1>1. /\ \A c \in Consumers : batch[c] = <<>> /\ pc[c] = "down"
      /\ metricRows[m] = 0
  BY DEF Init
<1>2. Unsaved(m) = {} /\ FlushedCopies(m) = {}
  BY <1>1, UnsavedFacts, FlushedFacts DEF Scoring, Flushed
<1> QED
  BY <1>1, <1>2, FS_EmptySet DEF Counted, Holdings

LEMMA CountInit == ASSUME Init PROVE CountInv
BY StartsEmpty, DoublingsBegin DEF CountInv, Init

LEMMA CountStep ==
    ASSUME ConstantsAssumption, TypeOK, TypeOK', CountInv, [Next]_vars
    PROVE  CountInv'
<1>1. ASSUME NEW c \in Consumers, Work(c) \/ Failure(c) PROVE CountInv'
  BY <1>1, StepKinds, DoublingsStep, HoldingsStep DEF CountInv
<1>2. CASE Rebalance
  BY <1>2, HoldingsStay, DoublingsStep DEF Rebalance, local, saved, Fault, CountInv
<1>3. CASE UNCHANGED vars
  BY <1>3, HoldingsStay DEF vars, CountInv
<1> QED
  BY <1>1, <1>2, <1>3 DEF Next

-----------------------------------------------------------------------------
(* The account of a process that is alone.                                 *)

\* A record without a value never joins a batch, and leaves no row.
HasValue(m) == Event(m).kind # "tombstone"

Orphaned == \E p \in Partitions : owner[p] = NoOne

\* One reading is still to come unless the message is kept.
AgainAlone(m) == IF \E c \in Consumers : Kept(c, m) THEN 0 ELSE 1

\* The only process has all partitions or none; without them it is idle.
AloneIdle == Orphaned => /\ \A p \in Partitions : owner[p] = NoOne
                         /\ \A c \in Consumers : batch[c] = <<>> /\ pc[c] \in {"down", "poll"}
AloneAccount(m) == IF HasValue(m) THEN Holdings(m) + AgainAlone(m) <= Doublings(faults)
                   ELSE Holdings(m) = 0
AloneInv == Solitary => AloneIdle /\ \A m \in Msgs : AloneAccount(m)

LEMMA AloneIdleStep ==
    ASSUME ConstantsAssumption, TypeOK, TypeOK', Solitary, AloneIdle, [Next]_vars
    PROVE  AloneIdle'
<1>1. ASSUME NEW c \in Consumers, Work(c) \/ Failure(c) PROVE AloneIdle'
  <2>1. \A d \in Consumers : d = c
    BY DEF Solitary
  <2>2. CASE Vanish(c)
    <3>1. batch'[c] = <<>> /\ pc'[c] = "down"
      BY <2>2, LeaveFacts
    <3>2. \A p \in Partitions : owner'[p] = NoOne
      BY <2>1, <2>2 DEF Vanish, TypeOK, GroupTypes
    <3> QED
      BY <2>1, <3>1, <3>2 DEF AloneIdle
  <2>3. CASE ~ Vanish(c)
    <3> SUFFICES ASSUME Orphaned' PROVE AloneIdle'
      BY DEF AloneIdle
    <3>1. owner' = owner
      BY <1>1, <2>3, StepKinds DEF Steady, Reads, Decides, SaveCommits, Commits, Resets,
         LeavesFreely, LeavesByFault, PollTombstone, Leave, FinalFlush, group
    <3>2. /\ \A p \in Partitions : owner'[p] = NoOne
          /\ batch[c] = <<>> /\ pc[c] \in {"down", "poll"}
      BY <3>1 DEF AloneIdle, Orphaned
    <3>3. \A k \in Msgs : ~ Polls(c, k)
      BY <3>1, <3>2, MsgFacts, ConstantsAssumption DEF Polls, ConstantsAssumption
    <3>4. ~ FinalFlush(c)
      BY <3>2 DEF FinalFlush
    <3>5. Steady(c)
      BY <1>1, <2>3, <3>2, <3>3, <3>4, StepKinds DEF Reads, Decides, SaveCommits, Commits, Resets,
         LeavesFreely, LeavesByFault, PollTombstone, Leave
    <3>6. batch'[c] = <<>> /\ pc'[c] \in {"down", "poll"}
      BY <3>2, <3>5 DEF Steady
    <3> QED
      BY <2>1, <3>2, <3>6 DEF AloneIdle
  <2> QED
    BY <2>2, <2>3
<1>2. CASE Rebalance
  <2>1. \A p \in Partitions : owner'[p] \in Consumers
    BY <1>2 DEF Rebalance
  <2> QED
    BY <2>1 DEF AloneIdle, Orphaned, ConstantsAssumption
<1>3. CASE UNCHANGED vars
  BY <1>3 DEF vars, AloneIdle, Orphaned
<1> QED
  BY <1>1, <1>2, <1>3 DEF Next

\* No step adds to the account but a failure, which at most doubles it.
LEMMA AloneAccountStep ==
    ASSUME ConstantsAssumption, TypeOK, TypeOK', CommitInv, Solitary, AloneIdle,
           [Next]_vars, NEW m \in Msgs, Counted(m), Counted(m)',
           IsFiniteSet(SUBSET (1 .. faults)), AloneAccount(m)
    PROVE  AloneAccount(m)'
<1>1. /\ Holdings(m) \in Nat /\ Holdings(m)' \in Nat
      /\ AgainAlone(m) \in {0, 1} /\ AgainAlone(m)' \in {0, 1}
  BY HoldingFacts, HoldingNext DEF AgainAlone
<1>2. faults \in Nat /\ faults # faults + 1
  BY DEF TypeOK, AuditTypes
<1>3. Holdings(m) + AgainAlone(m) >= 1
  BY <1>1, KeptCounts DEF AgainAlone
<1>4. ASSUME NEW c \in Consumers, Work(c) \/ Failure(c), ~ HasValue(m) PROVE Holdings(m)' = 0
  <2>1. Holdings(m) = 0
    BY <1>4 DEF AloneAccount
  <2>2. ~ Reads(c, m)
    BY <1>4 DEF Reads, HasValue
  <2>3. Holdings(m)' <= Holdings(m) \/ Repeats(c, m)
    BY <1>4, <2>2, HoldingsStep
  <2>4. Repeats(c, m) => Holdings(m)' = 0
    BY <1>1, <2>1 DEF Repeats
  <2> QED
    BY <1>1, <2>1, <2>3, <2>4
<1>5. ASSUME NEW c \in Consumers, Work(c) \/ Failure(c), faults' = faults
      PROVE  Holdings(m)' + AgainAlone(m)' <= Holdings(m) + AgainAlone(m)
  <2>1. \A d \in Consumers : d = c
    BY DEF Solitary
  <2>2. /\ AgainAlone(m) = IF Kept(c, m) THEN 0 ELSE 1
        /\ AgainAlone(m)' = IF Kept(c, m)' THEN 0 ELSE 1
    BY <2>1 DEF AgainAlone
  <2>3. ~ Repeats(c, m)
    BY <1>2, <1>5 DEF Repeats, LeavesByFault
  <2>4. CASE Reads(c, m)
    <3>1. ~ Read(m) /\ Kept(c, m)' /\ Holdings(m)' <= Holdings(m) + 1
      BY <1>5, <2>4, KeptRead, HoldingsRead, StepKinds
    <3>2. ~ Kept(c, m)
      BY <3>1 DEF Kept
    <3> QED
      BY <1>1, <2>2, <3>1, <3>2
  <2>5. CASE ~ Reads(c, m)
    <3>1. Holdings(m)' <= Holdings(m)
      BY <1>5, <2>3, <2>5, HoldingsStep
    <3>2. Kept(c, m) => Kept(c, m)' \/ Holdings(m)' + 1 <= Holdings(m)
      BY <1>5, KeptStep
    <3> QED
      BY <1>1, <2>2, <3>1, <3>2
  <2> QED
    BY <2>4, <2>5
<1>6. ASSUME NEW c \in Consumers, Work(c) \/ Failure(c), faults' # faults
      PROVE  Holdings(m)' + AgainAlone(m)' <= 2 * (Holdings(m) + AgainAlone(m))
  <2>1. \A d \in Consumers : d = c
    BY DEF Solitary
  <2>2. /\ AgainAlone(m) = IF Kept(c, m) THEN 0 ELSE 1
        /\ AgainAlone(m)' = IF Kept(c, m)' THEN 0 ELSE 1
    BY <2>1 DEF AgainAlone
  <2>3. ~ Reads(c, m)
    BY <1>6 DEF Reads
  <2>4. CASE Holdings(m)' <= Holdings(m)
    BY <1>1, <1>3, <2>4
  <2>5. CASE Repeats(c, m)
    <3>1. Kept(c, m) => Kept(c, m)'
      BY <1>6, <2>5, KeptRepeat
    <3>2. Holdings(m)' <= 2 * Holdings(m)
      BY <1>1, <2>5 DEF Repeats
    <3> QED
      BY <1>1, <2>2, <3>1, <3>2
  <2> QED
    BY <1>6, <2>3, <2>4, <2>5, HoldingsStep
<1>7. CASE Rebalance
  <2>1. /\ UNCHANGED <<pc, batch, cur, metricRows, committed>> /\ position' = committed
        /\ faults' = faults + 1 \/ (faults' = faults /\ Orphaned)
    BY <1>7 DEF Rebalance, local, saved, Fault, Orphaned
  <2>2. Holdings(m)' = Holdings(m)
    BY <2>1, HoldingsStay
  <2>3. CASE faults' = faults + 1
    <3>1. Holdings(m)' + AgainAlone(m)' <= 2 * (Holdings(m) + AgainAlone(m))
      BY <1>1, <1>3, <2>2
    <3> QED
      BY <1>1, <2>2, <2>3, <3>1, DoublingsStep DEF AloneAccount
  <2>4. CASE faults' = faults /\ Orphaned
    <3>1. ASSUME NEW c \in Consumers, Kept(c, m) PROVE Kept(c, m)'
      <4>1. batch[c] = <<>> /\ pc[c] \in {"down", "poll"}
        BY <2>4 DEF AloneIdle
      <4>2. Covered(m) /\ ~ Threat(c, m)
        BY <3>1, <4>1 DEF Kept, Scoring, InBatch
      <4> QED
        BY <2>1, <4>2 DEF Kept, Covered, Read, Threat, Below, ScoresBelow
    <3>2. AgainAlone(m)' <= AgainAlone(m)
      BY <1>1, <3>1 DEF AgainAlone
    <3>3. Doublings(faults)' = Doublings(faults) /\ Doublings(faults) \in Nat
      BY <2>4, DoublingsStep
    <3>4. Holdings(m)' + AgainAlone(m)' <= Holdings(m) + AgainAlone(m)
      BY <1>1, <2>2, <3>2
    <3>5. HasValue(m)' = HasValue(m)
      BY DEF HasValue, Event
    <3> QED
      BY <1>1, <2>2, <3>3, <3>4, <3>5 DEF AloneAccount
  <2> QED
    BY <2>1, <2>3, <2>4
<1>8. CASE UNCHANGED vars
  BY <1>8, HoldingsStay DEF vars, AloneAccount, AgainAlone, Kept, Read, Scoring, Threat, Below,
     ScoresBelow, Covered, InBatch, HasValue, Doublings
<1>9. ASSUME NEW c \in Consumers, Work(c) \/ Failure(c) PROVE AloneAccount(m)'
  <2>1. faults' \in {faults, faults + 1}
    BY <1>9, StepKinds
  <2>2. /\ Doublings(faults) \in Nat /\ Doublings(faults)' \in Nat
        /\ faults' = faults => Doublings(faults)' = Doublings(faults)
        /\ faults' = faults + 1 => Doublings(faults)' = 2 * Doublings(faults)
    BY <2>1, DoublingsStep
  <2>3. CASE HasValue(m)
    BY <1>1, <1>2, <1>5, <1>6, <1>9, <2>1, <2>2, <2>3 DEF AloneAccount
  <2>4. CASE ~ HasValue(m)
    BY <1>4, <1>9, <2>4 DEF AloneAccount
  <2> QED
    BY <2>3, <2>4
<1> QED
  BY <1>7, <1>8, <1>9 DEF Next

-----------------------------------------------------------------------------
(* Several processes, and no record that takes one down.  Copies of a      *)
(* message may lie with processes that no longer own its partition, so     *)
(* the account also counts what may yet send a reader back.                *)

Clean == \A m \in Msgs : Event(m).kind \in {"valid", "malformed"}

Closing == {c \in Consumers : closing[c]}
Unread(m) == ~ Read(m) /\ owner[m[1]] # NoOne
Risk(m) == \E d \in Consumers : (d # owner[m[1]] \/ Read(m)) /\ Menace(d, m)

One(P) == IF P THEN 1 ELSE 0

\* The readings of m still to come: its next, the one after the rebalance
\* that a lost owner or a closing process calls for, the one after an offset
\* below m is committed.
ToCome(m) == One(Unread(m)) + One(Orphaned) + Cardinality(Closing) + One(Risk(m))

\* Where the failure that doubled the rows is the one that closes the process,
\* the reading its end calls for finds m committed.
Repeated(c, m) ==
    /\ Closing = {c} /\ InBatch(c, m)
    /\ \/ pc[c] = "save" /\ metricRows[m] >= 1
       \/ pc[c] = "commit" /\ metricRows[m] >= 2
    /\ \A d \in Consumers \ {c} : ~ InBatch(d, m) /\ ~ Scoring(d, m)
Excused(m) == ~ Orphaned /\ Clear(m) /\ \E c \in Consumers : Repeated(c, m)

Again(m) == IF Safe(m) \/ Excused(m) THEN 0 ELSE ToCome(m)

LEMMA ToComeFacts ==
    ASSUME IsFiniteSet(Closing), NEW m
    PROVE  /\ One(Unread(m)) \in {0, 1} /\ One(Orphaned) \in {0, 1} /\ One(Risk(m)) \in {0, 1}
           /\ Cardinality(Closing) \in Nat /\ ToCome(m) \in Nat /\ Again(m) \in Nat
<1>1. /\ One(Unread(m)) \in {0, 1} /\ One(Orphaned) \in {0, 1} /\ One(Risk(m)) \in {0, 1}
  BY DEF One
<1>2. Cardinality(Closing) \in Nat
  BY FS_CardinalityType
<1> QED
  BY <1>1, <1>2 DEF ToCome, Again

LEMMA ToComeNext ==
    ASSUME IsFiniteSet(Closing'), NEW m
    PROVE  /\ One(Unread(m))' \in {0, 1} /\ One(Orphaned)' \in {0, 1} /\ One(Risk(m))' \in {0, 1}
           /\ Cardinality(Closing') \in Nat /\ ToCome(m)' \in Nat /\ Again(m)' \in Nat
           /\ Again(m)' <= ToCome(m)'
<1>1. /\ One(Unread(m))' \in {0, 1} /\ One(Orphaned)' \in {0, 1} /\ One(Risk(m))' \in {0, 1}
  BY DEF One
<1>2. Cardinality(Closing') \in Nat
  BY FS_CardinalityType
<1> QED
  BY <1>1, <1>2 DEF ToCome, Again

\* What is read for the first time is what the process has just polled.
LEMMA NewlyRead ==
    ASSUME ConstantsAssumption, TypeOK, Clean, NEW c \in Consumers, Work(c) \/ Failure(c),
           NEW m \in Msgs, ~ Read(m), Read(m)'
    PROVE  Reads(c, m)
<1>1. ASSUME NEW k \in Msgs, Polls(c, k) PROVE k = m
  <2> k[2] = position[k[1]] + 1
    BY <1>1 DEF Polls
  <2>1. /\ position'[k[1]] = k[2] /\ k[2] = position[k[1]] + 1
        /\ \A p \in Partitions : p # k[1] => position'[p] = position[p]
    BY <1>1, PollsForward
  <2>2. /\ m[1] \in Partitions /\ m[2] \in Nat /\ position[m[1]] \in Nat
        /\ m = <<m[1], m[2]>> /\ k = <<k[1], k[2]>> /\ k[2] \in Nat
    BY <1>1, MsgFacts DEF TypeOK, GroupTypes
  <2>3. m[1] = k[1]
    BY <2>1, <2>2 DEF Read
  <2>4. m[2] = k[2]
    BY <2>1, <2>2, <2>3 DEF Read
  <2> QED
    BY <2>2, <2>3, <2>4
<1>2. position' # position
  BY DEF Read
<1>3. ~ LeavesFreely(c)
  <2> SUFFICES ASSUME LeavesFreely(c) PROVE FALSE
    OBVIOUS
  <2>1. PollTombstone(c)
    BY <1>2 DEF LeavesFreely
  <2> QED
    BY <2>1 DEF PollTombstone, Clean
<1>4. \E k \in Msgs : Reads(c, k)
  BY <1>2, <1>3, StepKinds DEF Steady, Decides, SaveCommits, Commits, Resets, LeavesByFault, group
<1> QED
  BY <1>1, <1>4 DEF Reads

\* Without tombstones and refused rows, a process leaves freely only when its
\* final flush has ended.
LEMMA CleanLeave ==
    ASSUME ConstantsAssumption, TypeOK, Clean, NEW c \in Consumers, LeavesFreely(c)
    PROVE  pc[c] = "alert" /\ closing[c] /\ Vanish(c) /\ position' = position
<1>1. ~ PollTombstone(c)
  BY DEF PollTombstone, Clean
<1>2. ~ Refused(batch[c])
  BY BatchMsgs DEF Refused, Clean, TypeOK
<1> QED
  BY <1>1, <1>2 DEF LeavesFreely

\* How the group changes: a process that vanishes leaves its partitions to
\* nobody; a final flush closes one more.
LEMMA GroupStep ==
    ASSUME ConstantsAssumption, TypeOK, TypeOK', NEW c \in Consumers, Work(c) \/ Failure(c)
    PROVE  /\ \A p \in Partitions : \/ owner'[p] = owner[p]
                                    \/ Vanish(c) /\ owner[p] = c /\ owner'[p] = NoOne
           /\ Vanish(c) => Closing' \subseteq Closing \ {c}
           /\ FinalFlush(c) => owner' = owner /\ c \notin Closing /\ Closing' = Closing \cup {c}
           /\ ~ Vanish(c) /\ ~ FinalFlush(c) => owner' = owner /\ Closing' = Closing
<1>1. Alone(c)
  BY StepKinds
<1>2. CASE Vanish(c)
  <2>1. ~ closing'[c] /\ ~ FinalFlush(c)
    <3>1. ~ closing'[c] /\ pc'[c] = "down"
      BY <1>2, LeaveFacts
    <3>2. FinalFlush(c) => pc'[c] = "save"
      BY LeaveFacts
    <3> QED
      BY <3>1, <3>2
  <2>2. \A p \in Partitions : owner'[p] = IF owner[p] = c THEN NoOne ELSE owner[p]
    BY <1>2 DEF Vanish
  <2> QED
    BY <1>1, <1>2, <2>1, <2>2 DEF Closing, Alone
<1>3. CASE FinalFlush(c)
  <2>1. closing'[c] /\ ~ closing[c] /\ owner' = owner /\ pc'[c] = "save"
    BY <1>3, LeaveFacts DEF FinalFlush
  <2>2. ~ Vanish(c)
    BY <2>1, LeaveFacts
  <2> QED
    BY <1>1, <1>3, <2>1, <2>2 DEF Closing, Alone
<1>4. CASE ~ Vanish(c) /\ ~ FinalFlush(c)
  <2>1. owner' = owner /\ closing' = closing
    BY <1>4, StepKinds DEF Steady, Reads, Decides, SaveCommits, Commits, Resets, LeavesFreely,
       LeavesByFault, PollTombstone, Leave, group
  <2> QED
    BY <1>4, <2>1 DEF Closing
<1> QED
  BY <1>2, <1>3, <1>4

\* A reading to come is no new one.
LEMMA UnreadStep ==
    ASSUME ConstantsAssumption, TypeOK, TypeOK', NEW c \in Consumers, Work(c) \/ Failure(c),
           NEW m \in Msgs
    PROVE  /\ Unread(m)' => Unread(m)
           /\ Reads(c, m) => Unread(m) /\ ~ Unread(m)'
<1>1. Read(m) => Read(m)'
  BY PositionStep
<1>2. m[1] \in Partitions
  BY MsgFacts
<1>3. owner'[m[1]] = owner[m[1]] \/ owner'[m[1]] = NoOne
  BY <1>2, GroupStep
<1>4. Reads(c, m) => ~ Read(m) /\ Read(m)' /\ owner[m[1]] = c /\ c # NoOne
  BY KeptRead DEF Kept, Reads, Polls, ConstantsAssumption
<1> QED
  BY <1>1, <1>3, <1>4 DEF Unread

\* Nor does a threat become a risk, except where a failure drops the message
\* that the process was scoring.
LEMMA RiskStep ==
    ASSUME ConstantsAssumption, TypeOK, TypeOK', Clean, NEW c \in Consumers,
           Work(c) \/ Failure(c), NEW m \in Msgs, Risk(m)'
    PROVE  Risk(m) \/ (LeavesByFault(c) /\ FinalFlush(c) /\ Scoring(c, m))
<1>1. PICK d \in Consumers : (d # owner'[m[1]] \/ Read(m)') /\ Menace(d, m)'
  BY DEF Risk
<1>2. m[1] \in Partitions
  BY MsgFacts
<1>3. \/ Menace(d, m)
      \/ LeavesByFault(c) /\ FinalFlush(c) /\ Scoring(c, m)
  BY <1>1, MenaceStep
<1>4. ASSUME Menace(d, m), d = owner[m[1]], ~ Read(m) PROVE FALSE
  <2>1. ~ (d = c /\ Vanish(c))
    <3> SUFFICES ASSUME d = c, Vanish(c) PROVE FALSE
      OBVIOUS
    <3>1. batch'[c] = <<>> /\ pc'[c] = "down"
      BY LeaveFacts
    <3> QED
      BY <1>1, <3>1, EmptyIsNotBelow DEF Menace, Threat, ScoresBelow
  <2>2. owner'[m[1]] = d
    BY <1>2, <1>4, <2>1, GroupStep
  <2>3. Read(m)'
    BY <1>1, <2>2
  <2>4. Reads(c, m)
    BY <1>4, <2>3, NewlyRead
  <2>5. d = c
    BY <1>4, <2>4 DEF Reads, Polls
  <2>6. Kept(c, m)' /\ ~ Scoring(c, m)' /\ Threat(c, m)'
    BY <1>1, <2>4, <2>5, KeptRead DEF Menace
  <2> QED
    BY <2>6 DEF Kept
<1> QED
  BY <1>3, <1>4 DEF Risk

\* How the readings to come change with a step of a process.
LEMMA ToComeStep ==
    ASSUME ConstantsAssumption, TypeOK, TypeOK', Clean, IsFiniteSet(Closing),
           NEW c \in Consumers, Work(c) \/ Failure(c), NEW m \in Msgs
    PROVE  /\ IsFiniteSet(Closing')
           /\ ToCome(m)' <= ToCome(m) + 1 \/ (Scoring(c, m) /\ LeavesByFault(c))
           /\ ToCome(m)' <= ToCome(m) + 2
           /\ faults' = faults => ToCome(m)' <= ToCome(m)
           /\ Reads(c, m) => ToCome(m)' + 1 <= ToCome(m)
<1> DEFINE U == One(Unread(m))
           O == One(Orphaned)
           N == Cardinality(Closing)
           R == One(Risk(m))
<1>1. /\ U \in {0, 1} /\ O \in {0, 1} /\ R \in {0, 1} /\ N \in Nat
      /\ ToCome(m) = U + O + N + R
  BY ToComeFacts DEF ToCome
<1>2. U' \in {0, 1} /\ O' \in {0, 1} /\ R' \in {0, 1} /\ ToCome(m)' = U' + O' + N' + R'
  BY DEF ToCome, One
<1>3. U' <= U /\ (Reads(c, m) => U' + 1 <= U)
  BY UnreadStep DEF One
<1>4. R' <= R \/ (LeavesByFault(c) /\ FinalFlush(c) /\ Scoring(c, m))
  BY RiskStep DEF One
<1>5. ~ LeavesByFault(c) \/ faults' # faults
  BY DEF LeavesByFault, TypeOK, AuditTypes
<1>6. owner' = owner => O' = O
  BY DEF Orphaned, One
<1>7. CASE Vanish(c)
  <2>1. Closing' \subseteq Closing \ {c}
    BY <1>7, GroupStep
  <2>2. Closing' \subseteq Closing
    BY <2>1
  <2>3. IsFiniteSet(Closing') /\ N' \in Nat /\ N' <= N
    BY <2>2, NoMore
  <2>4. faults' = faults => N' + 1 <= N
    <3> SUFFICES ASSUME faults' = faults PROVE N' + 1 <= N
      OBVIOUS
    <3>1. LeavesFreely(c)
      <4>1. pc'[c] = "down"
        BY <1>7, LeaveFacts
      <4> QED
        BY <1>5, <4>1, StepKinds DEF Steady, Reads, Decides, SaveCommits, Commits, Resets,
           Append1, TypeOK, ProcessTypes
    <3>2. closing[c]
      BY <3>1, CleanLeave
    <3>3. c \in Closing
      BY <3>2 DEF Closing
    <3>4. IsFiniteSet({c}) /\ Cardinality({c}) = 1 /\ {c} \subseteq Closing
      BY <3>3, FS_Singleton
    <3>5. Cardinality(Closing') + Cardinality({c}) <= Cardinality(Closing)
      BY <2>1, <3>4, Parted
    <3> QED
      BY <3>4, <3>5
  <2>5. ~ FinalFlush(c)
    <3>1. pc'[c] = "down"
      BY <1>7, LeaveFacts
    <3> QED
      BY <3>1, LeaveFacts
  <2>6. ~ Reads(c, m)
    <3>1. pc'[c] = "down"
      BY <1>7, LeaveFacts
    <3> QED
      BY <3>1 DEF Reads, Append1, TypeOK, ProcessTypes
  <2> QED
    BY <1>1, <1>2, <1>3, <1>4, <2>3, <2>4, <2>5, <2>6
<1>8. CASE FinalFlush(c)
  <2>1. owner' = owner /\ Closing' \subseteq Closing \cup {c}
    BY <1>8, GroupStep
  <2>2. IsFiniteSet(Closing') /\ N' \in Nat /\ N' <= N + 1
    BY <2>1, OneMore
  <2>3. faults' # faults
    <3>1. ~ LeavesFreely(c)
      <4> SUFFICES ASSUME LeavesFreely(c) PROVE FALSE
        OBVIOUS
      <4>1. Vanish(c)
        BY CleanLeave
      <4>2. pc'[c] = "down"
        BY <4>1, LeaveFacts
      <4> QED
        BY <1>8, <4>2, LeaveFacts
    <3>2. pc'[c] = "save" /\ closing'[c] /\ ~ closing[c]
      BY <1>8, LeaveFacts
    <3> QED
      BY <1>5, <3>1, <3>2, StepKinds DEF Steady, Reads, Decides, SaveCommits, Commits, Resets
  <2>4. ~ Reads(c, m)
    BY <2>3 DEF Reads
  <2> QED
    BY <1>1, <1>2, <1>3, <1>4, <1>6, <2>1, <2>2, <2>3, <2>4
<1>9. CASE ~ Vanish(c) /\ ~ FinalFlush(c)
  <2>1. owner' = owner /\ Closing' = Closing
    BY <1>9, GroupStep
  <2>2. N' = N /\ IsFiniteSet(Closing')
    BY <2>1
  <2> QED
    BY <1>1, <1>2, <1>3, <1>4, <1>6, <1>9, <2>1, <2>2
<1> QED
  BY <1>7, <1>8, <1>9

\* An excused message has at least two copies.
LEMMA ExcusedCounts ==
    ASSUME TypeOK, NEW m \in Msgs, Counted(m), Excused(m)
    PROVE  Holdings(m) >= 2
<1>1. PICK c \in Consumers : Repeated(c, m)
  BY DEF Excused
<1>2. CASE pc[c] = "commit"
  BY <1>1, <1>2, HoldingFacts DEF Repeated
<1>3. CASE pc[c] = "save" /\ metricRows[m] >= 1
  <2>1. PICK i \in DOMAIN batch[c] : batch[c][i].msg = m
    BY <1>1 DEF Repeated, InBatch
  <2>2. <<c, i>> \in Unsaved(m)
    BY <1>3, <2>1, UnsavedFacts DEF Flushed
  <2>3. Cardinality(Unsaved(m)) # 0
    BY <2>2, FS_EmptySet DEF Counted
  <2> QED
    BY <1>3, <2>3, HoldingFacts
<1> QED
  BY <1>1, <1>2, <1>3 DEF Repeated

\* While nothing fails, an excuse holds until the message is safe.
LEMMA ExcusedStep ==
    ASSUME ConstantsAssumption, TypeOK, TypeOK', Clean, NEW d \in Consumers,
           Work(d) \/ Failure(d), faults' = faults, NEW m \in Msgs, Excused(m)
    PROVE  Excused(m)' \/ Safe(m)'
<1>1. Read(m) /\ Clear(m)' /\ ~ Orphaned
  BY ClearStep DEF Excused, Clear
<1>2. PICK c \in Consumers : Repeated(c, m)
  BY DEF Excused
<1>3. ~ Reads(d, m)
  BY <1>1, KeptRead
<1>4. Alone(d) /\ ~ LeavesByFault(d)
  BY StepKinds DEF LeavesByFault
<1>5. \A e \in Consumers : closing[e] <=> e = c
  BY <1>2 DEF Repeated, Closing
<1>6. metricRows[m] \in Nat /\ metricRows'[m] \in Nat /\ metricRows[m] <= metricRows'[m]
  BY RowsGrow DEF TypeOK, TableTypes, Next
<1>7. CASE d # c
  <2>1. ~ LeavesFreely(d)
    BY <1>5, <1>7, CleanLeave
  <2>2. UNCHANGED <<owner, closing>>
    BY <1>4, <2>1, StepKinds DEF Steady, Reads, Decides, SaveCommits, Commits, Resets, group
  <2>3. ~ InBatch(d, m) /\ ~ Scoring(d, m)
    BY <1>2, <1>7 DEF Repeated
  <2>4. ~ InBatch(d, m)' /\ ~ Scoring(d, m)'
    <3> SUFFICES ASSUME Holds(d, m)' PROVE FALSE
      BY DEF Holds, Scoring
    <3>1. CASE \E k \in Msgs : Reads(d, k)
      <4>1. PICK k \in Msgs : Reads(d, k)
        BY <3>1
      <4>2. k # m
        BY <1>3, <4>1
      <4>3. CASE pc' = [pc EXCEPT ![d] = "score"] /\ cur' = [cur EXCEPT ![d] = k] /\ batch' = batch
        BY <2>3, <4>2, <4>3 DEF Holds, InBatch, Scoring, TypeOK, ProcessTypes
      <4>4. CASE Append1(d, [msg |-> k, kind |-> "rejected"])
        <5> DEFINE e == [msg |-> k, kind |-> "rejected"]
        <5>1. e \in Entries /\ e.msg = k
          BY DEF Entries
        <5> HIDE DEF e
        <5>2. InBatch(d, m) \/ m = e.msg
          BY <4>4, <5>1, AppendHolds DEF e, TypeOK
        <5> QED
          BY <2>3, <4>2, <5>1, <5>2
      <4> QED
        BY <4>1, <4>3, <4>4 DEF Reads
    <3>2. CASE Decides(d)
      <4>1. PICK e \in Entries : e.msg = cur[d] /\ Append1(d, e)
        BY <3>2 DEF Decides
      <4>2. InBatch(d, m) \/ m = e.msg
        BY <4>1, AppendHolds DEF TypeOK
      <4> QED
        BY <2>3, <3>2, <4>1, <4>2 DEF Decides, Scoring
    <3>3. CASE Steady(d)
      BY <2>3, <3>3 DEF Steady, Holds, InBatch, Scoring
    <3>4. CASE SaveCommits(d) \/ \E S \in SUBSET Touched(batch[d]) : Commits(d, S)
      <4>1. batch' = batch /\ pc'[d] # "score"
        BY <3>4 DEF SaveCommits, Commits, TypeOK, ProcessTypes
      <4> QED
        BY <2>3, <4>1 DEF Holds, InBatch
    <3>5. CASE Resets(d)
      <4>1. batch'[d] = <<>> /\ pc'[d] # "score"
        BY <3>5 DEF Resets, TypeOK, ProcessTypes
      <4> QED
        BY <4>1 DEF Holds, InBatch
    <3> QED
      BY <1>4, <2>1, <3>1, <3>2, <3>3, <3>4, <3>5, StepKinds
  <2>5. /\ pc'[c] = pc[c] /\ batch'[c] = batch[c]
        /\ \A e \in Consumers \ {c, d} : pc'[e] = pc[e] /\ batch'[e] = batch[e] /\ cur'[e] = cur[e]
    BY <1>4, <1>7 DEF Alone
  <2>6. Repeated(c, m)'
    BY <1>2, <1>6, <2>2, <2>4, <2>5 DEF Repeated, Closing, InBatch, Scoring
  <2> QED
    BY <1>1, <2>2, <2>6 DEF Excused, Orphaned
<1>8. CASE d = c
  <2>1. pc[c] \in {"save", "commit"} /\ InBatch(c, m)
    BY <1>2 DEF Repeated
  <2>2. ~ LeavesFreely(c)
    BY <2>1, CleanLeave
  <2>3. ~ Decides(c) /\ ~ Resets(c) /\ ~ \E k \in Msgs : Reads(c, k)
    BY <2>1 DEF Decides, Resets, Reads, Polls
  <2>4. CASE Steady(c)
    <3>1. pc' = pc
      BY <1>8, <2>1, <2>4 DEF Steady, TypeOK, ProcessTypes
    <3> QED
      BY <1>1, <1>2, <2>4, <3>1 DEF Steady, Excused, Orphaned, Repeated, Closing, InBatch, Scoring
  <2>5. CASE SaveCommits(c)
    <3>1. /\ UNCHANGED <<owner, batch, cur, closing>> /\ pc'[c] = "commit" /\ pc[c] = "save"
          /\ \A e \in Consumers \ {c} : pc'[e] = pc[e]
          /\ SaveBatch(batch[c]) /\ batch[c] \in Seq(Entries)
      BY <2>5 DEF SaveCommits, group, TypeOK, ProcessTypes
    <3>2. metricRows'[m] = metricRows[m] + Cardinality(Copies(batch[c], m))
      BY <3>1, MetricGrows
    <3>3. Cardinality(Copies(batch[c], m)) \in Nat /\ Cardinality(Copies(batch[c], m)) # 0
      BY <2>1, CopiesOfOne DEF TypeOK
    <3>4. metricRows'[m] >= 2
      BY <1>2, <1>6, <3>1, <3>2, <3>3 DEF Repeated
    <3>5. Repeated(c, m)'
      BY <1>2, <3>1, <3>4 DEF Repeated, Closing, InBatch, Scoring
    <3> QED
      BY <1>1, <3>1, <3>5 DEF Excused, Orphaned
  <2>6. ASSUME NEW S \in SUBSET Touched(batch[c]), Commits(c, S) PROVE Safe(m)'
    <3>1. S = Touched(batch[c]) /\ StoreOffsets(batch[c], S)
      BY <2>6 DEF Commits, TypeOK, AuditTypes
    <3>2. m[1] \in S /\ ~ Below(c, m)
      BY <2>1, <3>1 DEF InBatch, Touched, Excused, Clear, Threat
    <3>3. Covered(m)'
      BY <3>1, <3>2, StoresCover
    <3> QED
      BY <1>1, <3>3 DEF Safe
  <2> QED
    BY <1>4, <1>8, <2>2, <2>3, <2>4, <2>5, <2>6, StepKinds
<1> QED
  BY <1>7, <1>8

\* No account is empty: a message is held, stored or still to be read.
LEMMA AccountCounts ==
    ASSUME ConstantsAssumption, TypeOK, CommitInv, IsFiniteSet(Closing), NEW m \in Msgs, Counted(m)
    PROVE  Holdings(m) + Again(m) >= 1
<1>1. Holdings(m) \in Nat /\ Again(m) \in Nat /\ ToCome(m) \in Nat
  BY HoldingFacts, ToComeFacts
<1>2. CASE Safe(m)
  <2>1. metricRows[m] > 0
    BY <1>2 DEF Safe, Covered, CommitInv, CommittedDurable, Durable
  <2> QED
    BY <1>1, <2>1, HoldingFacts
<1>3. CASE Excused(m)
  BY <1>1, <1>3, ExcusedCounts
<1>4. CASE ~ Safe(m) /\ ~ Excused(m) /\ ToCome(m) # 0
  BY <1>1, <1>4 DEF Again
<1>5. CASE ToCome(m) = 0
  <2>1. One(Unread(m)) = 0 /\ One(Orphaned) = 0 /\ Cardinality(Closing) = 0
    BY <1>5, ToComeFacts DEF ToCome
  <2>2. ~ Unread(m) /\ ~ Orphaned /\ Closing = {}
    BY <2>1, FS_EmptySet DEF One
  <2>3. m[1] \in Partitions
    BY MsgFacts
  <2>4. owner[m[1]] \in Consumers /\ Read(m)
    BY <2>2, <2>3 DEF Unread, Orphaned, TypeOK, GroupTypes
  <2> DEFINE c == owner[m[1]]
  <2>5. ~ closing[c]
    BY <2>2, <2>4 DEF Closing
  <2>6. Durable(m) \/ InBatch(c, m) \/ Scoring(c, m)
    BY <2>4, <2>5 DEF CommitInv, ProcessInv, PositionSettled, Settled, Scoring, Read
  <2>7. Holdings(m) >= 1
    BY <2>4, <2>6, HeldCounts
  <2> QED
    BY <1>1, <2>7
<1> QED
  BY <1>2, <1>3, <1>4, <1>5

\* Where a failure repeats all there is of m, and nothing else calls for a
\* reading, the repetition itself is what closes the process.
LEMMA RepeatExcuses ==
    ASSUME ConstantsAssumption, TypeOK, TypeOK', IsFiniteSet(Closing), NEW c \in Consumers,
           Work(c) \/ Failure(c), NEW m \in Msgs, Counted(m), Repeats(c, m), ToCome(m) = 0,
           Cardinality(Copies(batch[c], m)) = Holdings(m), Holdings(m) > 0
    PROVE  Excused(m)'
<1>1. /\ FinalFlush(c) /\ pc[c] \in {"save", "commit", "alert"} /\ InBatch(c, m)
      /\ metricRows'[m] >= 1
      /\ \A d \in Consumers \ {c} : ~ InBatch(d, m) /\ ~ Scoring(d, m)
  BY DEF Repeats
<1>2. /\ One(Unread(m)) = 0 /\ One(Orphaned) = 0 /\ Cardinality(Closing) = 0 /\ One(Risk(m)) = 0
  BY ToComeFacts DEF ToCome
<1>3. ~ Unread(m) /\ ~ Orphaned /\ Closing = {} /\ ~ Risk(m)
  BY <1>2, FS_EmptySet DEF One
<1>4. Read(m)
  BY <1>3, MsgFacts DEF Unread, Orphaned
<1>5. ASSUME NEW d \in Consumers PROVE ~ Threat(d, m)
  <2>1. ~ Menace(d, m)
    BY <1>3, <1>4 DEF Risk
  <2>2. ~ Scoring(d, m)
    BY <1>1 DEF Scoring
  <2> QED
    BY <2>1, <2>2 DEF Menace
<1>6. Clear(m)'
  BY <1>4, <1>5, ClearStep DEF Clear
<1>7. owner' = owner /\ Closing' = {c}
  BY <1>1, <1>3, GroupStep
<1>8. batch'[c] = batch[c] /\ pc'[c] = "save" /\ Alone(c)
  BY <1>1, LeaveFacts
<1>9. Repeated(c, m)'
  BY <1>1, <1>7, <1>8 DEF Repeated, InBatch, Scoring, Alone
<1> QED
  BY <1>3, <1>6, <1>7, <1>9 DEF Excused, Orphaned

\* What is still to come for an excused message when something fails again.
LEMMA ExcuseLost ==
    ASSUME ConstantsAssumption, TypeOK, TypeOK', Clean, IsFiniteSet(Closing), NEW d \in Consumers,
           Work(d) \/ Failure(d), NEW m \in Msgs, Counted(m), Excused(m)
    PROVE  ToCome(m)' <= 2 /\ (Repeats(d, m) => Holdings(m)' <= Holdings(m))
<1>1. PICK c \in Consumers : Repeated(c, m)
  BY DEF Excused
<1>2. Closing = {c}
  BY <1>1 DEF Repeated
<1>3. Clear(m)'
  BY ClearStep DEF Excused
<1>4. One(Unread(m))' = 0 /\ One(Risk(m))' = 0
  BY <1>3 DEF Clear, Unread, Risk, Menace, One
<1>5. One(Orphaned)' \in {0, 1}
  BY DEF One
<1>6. ToCome(m)' = One(Orphaned)' + Cardinality(Closing')
  <2>1. IsFiniteSet(Closing')
    BY ToComeStep
  <2>2. Cardinality(Closing') \in Nat
    BY <2>1, FS_CardinalityType
  <2> QED
    BY <1>4, <1>5, <2>2 DEF ToCome
<1>7. IsFiniteSet({c}) /\ Cardinality({c}) = 1
  BY FS_Singleton
<1>8. CASE FinalFlush(d)
  <2>1. owner' = owner /\ d \notin Closing /\ Closing' \subseteq Closing \cup {d}
    BY <1>8, GroupStep
  <2> Cardinality(Closing') <= Cardinality(Closing) + 1 /\ Cardinality(Closing') \in Nat
    BY <2>1, OneMore
  <2>2. Cardinality(Closing') <= 2 /\ Cardinality(Closing') \in Nat
    BY <1>2, <1>7
  <2>3. One(Orphaned)' = 0
    BY <2>1 DEF Excused, Orphaned, One
  <2>4. d # c
    BY <1>2, <2>1
  <2>5. ~ InBatch(d, m)
    BY <1>1, <2>4 DEF Repeated
  <2>6. Repeats(d, m) => Holdings(m)' <= Holdings(m)
    BY <2>5, HoldingFacts DEF Repeats
  <2> QED
    BY <1>6, <2>2, <2>3, <2>6
<1>9. CASE ~ FinalFlush(d)
  <2>1. Closing' \subseteq {c}
    BY <1>2, <1>9, GroupStep
  <2>2. Cardinality(Closing') <= 1 /\ Cardinality(Closing') \in Nat
    BY <1>7, <2>1, NoMore
  <2>3. ~ Repeats(d, m)
    BY <1>9 DEF Repeats
  <2> QED
    BY <1>5, <1>6, <2>2, <2>3
<1> QED
  BY <1>8, <1>9

\* No step of a process adds to the account but a failure, which at most
\* doubles it.
LEMMA CleanAccountStep ==
    ASSUME ConstantsAssumption, TypeOK, TypeOK', CommitInv, Clean, IsFiniteSet(Closing),
           NEW c \in Consumers, Work(c) \/ Failure(c), NEW m \in Msgs, Counted(m)
    PROVE  /\ faults' = faults => Holdings(m)' + Again(m)' <= Holdings(m) + Again(m)
           /\ Holdings(m)' + Again(m)' <= 2 * (Holdings(m) + Again(m))
<1> DEFINE k == Cardinality(Copies(batch[c], m))
<1>1. Counted(m)' /\ IsFiniteSet(Closing')
  BY HoldingsStep, ToComeStep
<1>2. /\ Holdings(m) \in Nat /\ Holdings(m)' \in Nat
      /\ Again(m) \in Nat /\ ToCome(m) \in Nat /\ Again(m)' \in Nat /\ ToCome(m)' \in Nat
      /\ Again(m)' <= ToCome(m)'
  BY <1>1, HoldingFacts, HoldingNext, ToComeFacts, ToComeNext
<1>3. Holdings(m) + Again(m) >= 1
  BY AccountCounts
<1>4. \/ Holdings(m)' <= Holdings(m)
      \/ Reads(c, m) /\ Holdings(m)' <= Holdings(m) + 1
      \/ Repeats(c, m)
  BY HoldingsStep
<1>5. Repeats(c, m) => /\ faults' # faults /\ ~ Scoring(c, m)
                       /\ k \in Nat /\ k <= Holdings(m) /\ Holdings(m)' <= Holdings(m) + k
  BY DEF Repeats, LeavesByFault, TypeOK, AuditTypes, Scoring
<1>6. Reads(c, m) => faults' = faults /\ ~ Read(m)
  BY KeptRead DEF Reads
<1>7. CASE Safe(m)
  <2>1. Safe(m)' /\ Read(m)
    BY <1>7, SafeStep DEF Next, Safe, Clear
  <2>2. Again(m) = 0 /\ Again(m)' = 0
    BY <1>7, <2>1 DEF Again
  <2> HIDE DEF k
  <2> QED
    BY <1>2, <1>4, <1>5, <1>6, <2>1, <2>2
<1>8. CASE Excused(m) /\ ~ Safe(m)
  <2>1. Read(m) /\ Again(m) = 0
    BY <1>8 DEF Excused, Clear, Again
  <2>2. faults' = faults => Again(m)' = 0
    BY <1>8, ExcusedStep DEF Again
  <2>3. ToCome(m)' <= 2 /\ (Repeats(c, m) => Holdings(m)' <= Holdings(m)) /\ Holdings(m) >= 2
    BY <1>8, ExcuseLost, ExcusedCounts
  <2>4. Holdings(m)' <= Holdings(m)
    BY <1>4, <1>6, <2>1, <2>3
  <2> QED
    BY <1>2, <2>1, <2>2, <2>3, <2>4
<1>9. CASE ~ Safe(m) /\ ~ Excused(m)
  <2>1. Again(m) = ToCome(m)
    BY <1>9 DEF Again
  <2>2. /\ ToCome(m)' <= ToCome(m) + 1 \/ (Scoring(c, m) /\ LeavesByFault(c))
        /\ ToCome(m)' <= ToCome(m) + 2
        /\ faults' = faults => ToCome(m)' <= ToCome(m)
        /\ Reads(c, m) => ToCome(m)' + 1 <= ToCome(m)
    BY ToComeStep
  <2>3. Scoring(c, m) /\ LeavesByFault(c) => Holdings(m)' + 1 <= Holdings(m)
    BY HoldingsLeave
  <2>4. CASE Reads(c, m)
    <3>1. Holdings(m)' <= Holdings(m) + 1
      BY <2>4, HoldingsRead, StepKinds
    <3> QED
      BY <1>2, <1>6, <2>1, <2>2, <2>4, <3>1
  <2>5. CASE Holdings(m)' <= Holdings(m) /\ ~ Reads(c, m)
    <3>1. Holdings(m)' + ToCome(m)' <= Holdings(m) + ToCome(m) + 1
      BY <1>2, <2>2, <2>3, <2>5
    <3> QED
      BY <1>2, <1>3, <2>1, <2>2, <2>5, <3>1
  <2>6. CASE Repeats(c, m)
    <3>1. /\ faults' # faults /\ k \in Nat /\ k <= Holdings(m) /\ Holdings(m)' <= Holdings(m) + k
          /\ ToCome(m)' <= ToCome(m) + 1
      BY <1>5, <2>2, <2>6
    <3>2. CASE k = Holdings(m) /\ Holdings(m) > 0 /\ ToCome(m) = 0
      <4>1. Excused(m)'
        BY <2>6, <3>2, RepeatExcuses
      <4>2. Again(m)' = 0
        BY <4>1 DEF Again
      <4> HIDE DEF k
      <4> QED
        BY <1>2, <3>1, <4>2
    <3>3. CASE k < Holdings(m) \/ Holdings(m) = 0 \/ ToCome(m) # 0
      <4> HIDE DEF k
      <4> QED
        BY <1>2, <1>3, <2>1, <3>1, <3>3
    <3> HIDE DEF k
    <3> QED
      BY <1>2, <3>1, <3>2, <3>3
  <2> QED
    BY <1>4, <2>4, <2>5, <2>6
<1> QED
  BY <1>7, <1>8, <1>9

\* A rebalance ends the one wait for an owner, and starts at most one reading.
LEMMA CleanRebalance ==
    ASSUME ConstantsAssumption, TypeOK, TypeOK', CommitInv, IsFiniteSet(Closing),
           Rebalance, NEW m \in Msgs, Counted(m)
    PROVE  /\ IsFiniteSet(Closing')
           /\ faults' = faults => Holdings(m)' + Again(m)' <= Holdings(m) + Again(m)
           /\ Holdings(m)' + Again(m)' <= 2 * (Holdings(m) + Again(m))
<1>1. /\ UNCHANGED <<pc, batch, cur, closing, metricRows, committed>> /\ position' = committed
      /\ faults' # faults \/ Orphaned
      /\ \A p \in Partitions : owner'[p] \in Consumers
  BY DEF Rebalance, local, saved, Fault, Orphaned, TypeOK, AuditTypes
<1>2. Holdings(m)' = Holdings(m) /\ Counted(m)'
  BY <1>1, HoldingsStay
<1>3. Closing' = Closing
  BY <1>1 DEF Closing
<1>4. /\ Holdings(m) \in Nat /\ Again(m) \in Nat /\ ToCome(m) \in Nat
      /\ Again(m)' \in Nat /\ ToCome(m)' \in Nat /\ Again(m)' <= ToCome(m)'
  BY <1>3, HoldingFacts, ToComeFacts, ToComeNext
<1>5. Holdings(m) + Again(m) >= 1
  BY AccountCounts
<1>6. ~ Orphaned'
  BY <1>1 DEF Orphaned, ConstantsAssumption
<1>7. \A d \in Consumers : Threat(d, m)' = Threat(d, m) /\ Menace(d, m)' = Menace(d, m)
  BY <1>1 DEF Menace, Threat, Below, ScoresBelow, Scoring
<1>8. m[1] \in Partitions
  BY MsgFacts
<1>9. CASE Safe(m)
  <2>1. Safe(m)'
    BY <1>9, SafeStep DEF Next
  <2> QED
    BY <1>2, <1>3, <1>4, <1>9, <2>1 DEF Again
<1>10. CASE Excused(m) /\ ~ Safe(m)
  <2>1. ~ Orphaned /\ Holdings(m) >= 2 /\ Again(m) = 0
    BY <1>10, ExcusedCounts DEF Excused, Again
  <2>2. \A d \in Consumers : ~ Menace(d, m)'
    BY <1>7, <1>10 DEF Excused, Clear, Menace
  <2>3. One(Risk(m))' = 0 /\ One(Orphaned)' = 0 /\ One(Unread(m))' \in {0, 1}
    BY <1>6, <2>2 DEF Risk, One
  <2>4. Cardinality(Closing) = 1
    <3>1. PICK c \in Consumers : Closing = {c}
      BY <1>10 DEF Excused, Repeated
    <3> QED
      BY <3>1, FS_Singleton
  <2>5. ToCome(m)' <= 2
    BY <1>3, <2>3, <2>4 DEF ToCome
  <2> QED
    BY <1>1, <1>2, <1>3, <1>4, <2>1, <2>5
<1>11. CASE ~ Safe(m) /\ ~ Excused(m)
  <2>1. Again(m) = ToCome(m)
    BY <1>11 DEF Again
  <2>2. /\ One(Unread(m)) \in {0, 1} /\ One(Orphaned) \in {0, 1} /\ One(Risk(m)) \in {0, 1}
        /\ Cardinality(Closing) \in Nat
    BY ToComeFacts
  <2>3. One(Unread(m))' \in {0, 1} /\ One(Risk(m))' \in {0, 1} /\ One(Orphaned)' = 0
    BY <1>6 DEF One
  <2>4. One(Unread(m))' + One(Risk(m))' <= One(Unread(m)) + One(Risk(m)) + 1
    <3>1. CASE Unread(m) \/ Risk(m)
      BY <2>2, <2>3, <3>1 DEF One
    <3>2. CASE ~ Unread(m) /\ ~ Risk(m)
      <4>1. ASSUME Unread(m)', Risk(m)' PROVE FALSE
        <5>1. PICK d \in Consumers : Menace(d, m)
          BY <1>7, <4>1 DEF Risk
        <5>2. d = owner[m[1]] /\ ~ Read(m)
          BY <3>2, <5>1 DEF Risk
        <5> QED
          BY <3>2, <5>2 DEF Unread, ConstantsAssumption
      <4> QED
        BY <2>2, <2>3, <4>1 DEF One
    <3> QED
      BY <3>1, <3>2
  <2>5. ToCome(m)' = One(Unread(m))' + Cardinality(Closing) + One(Risk(m))'
    BY <1>3, <2>2, <2>3 DEF ToCome
  <2>6. ToCome(m) = One(Unread(m)) + One(Orphaned) + Cardinality(Closing) + One(Risk(m))
    BY DEF ToCome
  <2>7. ToCome(m)' <= ToCome(m) + 1
    BY <2>2, <2>3, <2>4, <2>5, <2>6
  <2>8. faults' = faults => ToCome(m)' <= ToCome(m)
    <3>1. faults' = faults => One(Orphaned) = 1
      BY <1>1 DEF One
    <3> QED
      BY <2>2, <2>3, <2>4, <2>5, <2>6, <3>1
  <2> QED
    BY <1>2, <1>3, <1>4, <1>5, <2>1, <2>7, <2>8
<1> QED
  BY <1>9, <1>10, <1>11

CleanAccount(m) == Holdings(m) + Again(m) <= Doublings(faults)
CleanInv == Clean => IsFiniteSet(Closing) /\ \A m \in Msgs : CleanAccount(m)

LEMMA CleanStep ==
    ASSUME ConstantsAssumption, TypeOK, TypeOK', CommitInv, CountInv, CountInv', CleanInv, [Next]_vars
    PROVE  CleanInv'
<1> SUFFICES ASSUME Clean
             PROVE  IsFiniteSet(Closing') /\ \A m \in Msgs : CleanAccount(m)'
  BY DEF CleanInv, Clean, Event
<1>1. IsFiniteSet(Closing)
  BY DEF CleanInv
<1>2. CASE UNCHANGED vars
  <2>1. Closing' = Closing
    BY <1>2 DEF vars, Closing
  <2>2. ASSUME NEW m \in Msgs PROVE CleanAccount(m)'
    <3>1. CleanAccount(m)
      BY <2>2 DEF CleanInv
    <3>2. Holdings(m)' = Holdings(m) /\ Doublings(faults)' = Doublings(faults)
      BY <1>2, HoldingsStay DEF vars, Doublings
    <3>3. Again(m)' = Again(m)
      BY <1>2, <2>1 DEF vars, Again, Safe, Covered, Clear, Read, Threat, Below, ScoresBelow, Excused,
         Orphaned, Repeated, InBatch, Scoring, ToCome, Unread, Risk, Menace, One
    <3> QED
      BY <3>1, <3>2, <3>3 DEF CleanAccount
  <2> QED
    BY <1>1, <2>1, <2>2
<1>3. CASE ~ UNCHANGED vars
  <2>1. IsFiniteSet(Closing') /\ faults' \in {faults, faults + 1}
    <3>1. ASSUME NEW c \in Consumers, Work(c) \/ Failure(c)
          PROVE  IsFiniteSet(Closing') /\ faults' \in {faults, faults + 1}
      <4>1. faults' \in {faults, faults + 1}
        BY <3>1, StepKinds
      <4>2. \/ Closing' \subseteq Closing
            \/ Closing' \subseteq Closing \cup {c}
        BY <3>1, GroupStep
      <4> QED
        BY <1>1, <4>1, <4>2, OneMore, NoMore
    <3>2. CASE Rebalance
      <4>1. Closing' = Closing
        BY <3>2 DEF Rebalance, local, Closing
      <4> QED
        BY <1>1, <3>2, <4>1 DEF Rebalance, Fault
    <3> QED
      BY <1>3, <3>1, <3>2 DEF Next
  <2>2. ASSUME NEW m \in Msgs PROVE CleanAccount(m)'
    <3>1. Counted(m) /\ Counted(m)' /\ CleanAccount(m)
      BY <2>2 DEF CountInv, CleanInv
    <3>2. /\ faults' = faults => Holdings(m)' + Again(m)' <= Holdings(m) + Again(m)
          /\ Holdings(m)' + Again(m)' <= 2 * (Holdings(m) + Again(m))
      <4>1. ASSUME NEW c \in Consumers, Work(c) \/ Failure(c)
            PROVE  /\ faults' = faults => Holdings(m)' + Again(m)' <= Holdings(m) + Again(m)
                   /\ Holdings(m)' + Again(m)' <= 2 * (Holdings(m) + Again(m))
        BY <1>1, <3>1, <4>1, CleanAccountStep
      <4>2. ASSUME Rebalance
            PROVE  /\ faults' = faults => Holdings(m)' + Again(m)' <= Holdings(m) + Again(m)
                   /\ Holdings(m)' + Again(m)' <= 2 * (Holdings(m) + Again(m))
        BY <1>1, <3>1, <4>2, CleanRebalance
      <4> QED
        BY <1>3, <4>1, <4>2 DEF Next
    <3>3. /\ Holdings(m) \in Nat /\ Again(m) \in Nat /\ Holdings(m)' \in Nat /\ Again(m)' \in Nat
      BY <1>1, <2>1, <3>1, HoldingFacts, HoldingNext, ToComeFacts, ToComeNext
    <3>4. /\ Doublings(faults) \in Nat /\ Doublings(faults)' \in Nat
          /\ faults' = faults => Doublings(faults)' = Doublings(faults)
          /\ faults' = faults + 1 => Doublings(faults)' = 2 * Doublings(faults)
      BY <2>1, DoublingsStep DEF CountInv
    <3> QED
      BY <2>1, <3>1, <3>2, <3>3, <3>4 DEF CleanAccount
  <2> QED
    BY <2>1, <2>2
<1> QED
  BY <1>2, <1>3

LEMMA AloneStep ==
    ASSUME ConstantsAssumption, TypeOK, TypeOK', CommitInv, CountInv, CountInv', AloneInv, [Next]_vars
    PROVE  AloneInv'
<1> SUFFICES ASSUME Solitary PROVE AloneIdle' /\ \A m \in Msgs : AloneAccount(m)'
  BY DEF AloneInv, Solitary
<1>1. AloneIdle'
  BY AloneIdleStep DEF AloneInv
<1>2. ASSUME NEW m \in Msgs PROVE AloneAccount(m)'
  BY <1>2, AloneAccountStep DEF AloneInv, CountInv
<1> QED
  BY <1>1, <1>2

\* At the start every message has one reading to come.
LEMMA AccountInit == ASSUME ConstantsAssumption, Init PROVE AloneInv /\ CleanInv
<1>1. /\ \A p \in Partitions : owner[p] = NoOne
      /\ \A c \in Consumers : batch[c] = <<>> /\ pc[c] = "down" /\ closing[c] = FALSE
      /\ Doublings(faults) = 1
  BY DoublingsBegin DEF Init
<1>2. Closing = {} /\ IsFiniteSet(Closing) /\ Cardinality(Closing) = 0
  BY <1>1, FS_EmptySet DEF Closing
<1>3. ASSUME NEW m \in Msgs PROVE AloneAccount(m)
  BY <1>1, <1>3, StartsEmpty DEF AloneAccount, AgainAlone
<1>4. ASSUME NEW m \in Msgs PROVE CleanAccount(m)
  <2>1. m[1] \in Partitions
    BY <1>4, MsgFacts
  <2>2. ~ Unread(m) /\ ~ Risk(m)
    <3>1. \A c \in Consumers : ~ Threat(c, m)
      BY <1>1 DEF Threat, Below, ScoresBelow, Touched
    <3> QED
      BY <1>1, <2>1, <3>1 DEF Unread, Risk, Menace
  <2>3. One(Unread(m)) = 0 /\ One(Risk(m)) = 0 /\ One(Orphaned) \in {0, 1}
    BY <2>2 DEF One
  <2>4. ToCome(m) \in {0, 1}
    BY <1>2, <2>3 DEF ToCome
  <2>5. Again(m) \in {0, 1}
    BY <2>4 DEF Again
  <2> QED
    BY <1>1, <1>4, <2>5, StartsEmpty DEF CleanAccount
<1>5. AloneIdle
  BY <1>1 DEF AloneIdle
<1> QED
  BY <1>2, <1>3, <1>4, <1>5 DEF AloneInv, CleanInv

\* Redelivery is bounded: n failures leave at most 2 ^ n rows of a message in
\* the append-only tables, whichever steps they hit and however many processes
\* there are (main.py:100-168, database.py save_batch).
THEOREM DuplicatesBounded == Spec => []DuplicatesNeedFaults
<1>1. Init => TypeOK /\ CommitInv /\ CountInv /\ AloneInv /\ CleanInv
  BY TypeInit, CommitInit, CountInit, AccountInit, ConstantsAssumption
<1>2. /\ TypeOK /\ CommitInv /\ CountInv /\ AloneInv /\ CleanInv /\ [Next]_vars
      => TypeOK' /\ CommitInv' /\ CountInv' /\ AloneInv' /\ CleanInv'
  <2> SUFFICES ASSUME TypeOK, CommitInv, CountInv, AloneInv, CleanInv, [Next]_vars
               PROVE  TypeOK' /\ CommitInv' /\ CountInv' /\ AloneInv' /\ CleanInv'
    OBVIOUS
  <2>1. TypeOK'
    BY TypeStep, ConstantsAssumption
  <2>2. CommitInv' /\ CountInv'
    BY <2>1, CommitStep, CountStep, ConstantsAssumption
  <2> QED
    BY <2>1, <2>2, AloneStep, CleanStep, ConstantsAssumption
<1>3. TypeOK /\ CountInv /\ AloneInv /\ CleanInv => DuplicatesNeedFaults
  <2> SUFFICES ASSUME TypeOK, CountInv, AloneInv, CleanInv, Undisturbed, NEW m \in Msgs
               PROVE  metricRows[m] <= Doublings(faults)
    BY DEF DuplicatesNeedFaults
  <2>1. /\ Counted(m) /\ Doublings(faults) \in Nat
    BY DoublingsStep, FS_CardinalityType DEF CountInv, Doublings
  <2>2. /\ metricRows[m] \in Nat /\ Holdings(m) \in Nat /\ metricRows[m] <= Holdings(m)
    BY <2>1, HoldingFacts
  <2>3. CASE Solitary
    <3>1. AloneAccount(m) /\ AgainAlone(m) \in {0, 1}
      BY <2>3 DEF AloneInv, AgainAlone
    <3> QED
      BY <2>1, <2>2, <3>1 DEF AloneAccount
  <2>4. CASE Clean
    <3>1. CleanAccount(m) /\ Again(m) \in Nat
      BY <2>4, ToComeFacts DEF CleanInv
    <3> QED
      BY <2>1, <2>2, <3>1 DEF CleanAccount
  <2> QED
    BY <2>3, <2>4 DEF Undisturbed, Clean
<1> QED
  BY <1>1, <1>2, <1>3, PTL DEF Spec
===============================================================================
