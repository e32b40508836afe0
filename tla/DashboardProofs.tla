---------------------------- MODULE DashboardProofs ----------------------------
(***************************************************************************)
(* Theorems about what the dashboard's page shows.  DriftHealth: what the  *)
(* page's STALE and a demonstration's row mean.  ExplanationCache (Cache!):*)
(* what its own proof module shows, of the page.  RiskDrivers (Drivers!):  *)
(* which features a reviewer is told of.  ThresholdTraining (Search!):     *)
(* that the grid search finds the first cheapest pair, that category       *)
(* thresholds never cost more than the global ones, and that the           *)
(* simulator's breakdown adds up, over frames of any size.                 *)
(***************************************************************************)
EXTENDS MCDashboard, FiniteSetTheorems, WellFoundedInduction, TLAPS

-----------------------------------------------------------------------------
(* Types. *)

Locations == {"off", "wait", "load", "version", "report", "persist", "error", "return"}

\* The initial states are well typed.
LEMMA TypeInit == Init => TypeOK
BY DriftAssumption DEF Init, TypeOK, Jobs, Statuses, NoReport

\* A stored row is well typed, and nothing is missed any more.
LEMMA InsertTypes ==
  ASSUME TypeOK, NEW j \in Jobs, NEW s \in Statuses, Insert(j, s)
  PROVE  /\ newest' \in [status : Statuses, simulated : BOOLEAN]
         /\ age' \in 0 .. Keep /\ delay' \in 0 .. MaxDelay
         /\ missed' \subseteq Jobs \X {"torn", "database"}
BY DriftAssumption DEF TypeOK, Insert

\* So is the location of a job that moves on.
LEMMA MoveTypes ==
  ASSUME TypeOK, NEW j \in Jobs, NEW l \in Locations, Goto(j, l)
  PROVE  pc' \in [Jobs -> Locations]
BY DEF TypeOK, Goto, Locations

\* The newest row ages within Keep, or is deleted.
LEMMA GrowTypes ==
  ASSUME TypeOK, Grow
  PROVE  /\ newest' \in [status : Statuses, simulated : BOOLEAN] \cup {NoReport}
         /\ age' \in 0 .. Keep
BY DriftAssumption DEF TypeOK, Grow

\* A job's row is stored by one of three steps.
LEMMA Stores ==
  ASSUME TypeOK, NEW j \in Jobs,
         \/ Persist(j) \/ PersistError(j)
         \/ JobRaises(j) /\ Insert(j, outcome[j])
  PROVE  /\ \E s \in Statuses : Insert(j, s)
         /\ Goto(j, "return") \/ Goto(j, "error")
         /\ UNCHANGED <<metadata, outcome, due>>
         /\ faults' = faults \/ Fault
BY DEF Persist, PersistError, JobRaises, TypeOK, Statuses

\* Every step keeps every variable well typed.
LEMMA TypeStep ==
  ASSUME TypeOK, [Next]_vars
  PROVE  TypeOK'
<1> USE DriftAssumption DEF Locations
<1>1. CASE Start \/ Wake \/ Demonstrate
  <2>1. pc' \in [Jobs -> Locations]
    BY <1>1, MoveTypes DEF Start, Wake, Demonstrate, Jobs
  <2>2. faults' \in 0 .. MaxFaults BY <1>1 DEF Start, Wake, Demonstrate, Fault, TypeOK
  <2>3. QED BY <1>1, <2>1, <2>2 DEF Start, Wake, Demonstrate, TypeOK
<1>2. CASE Tear \/ Train
  BY <1>2 DEF Tear, Train, Fault, TypeOK
<1>3. CASE Tick \/ Linger
  <2>1. /\ newest' \in [status : Statuses, simulated : BOOLEAN] \cup {NoReport}
        /\ age' \in 0 .. Keep
    BY <1>3, GrowTypes DEF Tick, Linger
  <2>2. due' \in 0 .. Interval /\ delay' \in 0 .. MaxDelay
    BY <1>3 DEF Tick, Linger, TypeOK
  <2>3. QED BY <1>3, <2>1, <2>2 DEF Tick, Linger, TypeOK
<1>4. ASSUME NEW j \in Jobs,
             \/ Load(j) \/ ReadVersion(j) \/ VersionRaises(j) \/ Report(j) \/ Crash(j)
             \/ JobRaises(j) /\ UNCHANGED <<newest, age, delay, missed>>
      PROVE  TypeOK'
  <2>1. pc' \in [Jobs -> Locations]
    BY <1>4, MoveTypes DEF Load, ReadVersion, VersionRaises, Report, JobRaises, Crash
  <2>2. outcome' \in [Jobs -> Statuses]
    BY <1>4 DEF Load, ReadVersion, VersionRaises, Report, JobRaises, Crash, TypeOK, Statuses
  <2>3. faults' \in 0 .. MaxFaults
    BY <1>4 DEF Load, ReadVersion, VersionRaises, Report, JobRaises, Crash, Fault, TypeOK
  <2>4. UNCHANGED <<newest, age, metadata, due, delay, missed>>
    BY <1>4 DEF Load, ReadVersion, VersionRaises, Report, JobRaises, Crash
  <2>5. QED BY <2>1, <2>2, <2>3, <2>4 DEF TypeOK
<1>5. ASSUME NEW j \in Jobs,
             Persist(j) \/ PersistError(j) \/ (JobRaises(j) /\ Insert(j, outcome[j]))
      PROVE  TypeOK'
  <2>1. PICK s \in Statuses : Insert(j, s)
    BY <1>5, Stores
  <2>2. /\ newest' \in [status : Statuses, simulated : BOOLEAN]
        /\ age' \in 0 .. Keep /\ delay' \in 0 .. MaxDelay
        /\ missed' \subseteq Jobs \X {"torn", "database"}
    BY <2>1, InsertTypes
  <2>3. pc' \in [Jobs -> Locations] BY <1>5, Stores, MoveTypes
  <2>4. UNCHANGED <<metadata, outcome, due>> /\ faults' \in 0 .. MaxFaults
    BY <1>5, Stores DEF Fault, TypeOK
  <2>5. QED BY <2>2, <2>3, <2>4 DEF TypeOK
<1>6. ASSUME NEW j \in Jobs, ErrorUnversioned(j) \/ ErrorUnstored(j) PROVE TypeOK'
  <2>1. /\ pc' \in [Jobs -> Locations]
        /\ UNCHANGED <<newest, age, metadata, outcome, due, delay>>
    BY <1>6, MoveTypes DEF ErrorUnversioned, ErrorUnstored
  <2>2. missed' \subseteq Jobs \X {"torn", "database"}
    BY <1>6 DEF ErrorUnversioned, ErrorUnstored, TypeOK
  <2>3. faults' \in 0 .. MaxFaults BY <1>6 DEF ErrorUnversioned, ErrorUnstored, Fault, TypeOK
  <2>4. QED BY <2>1, <2>2, <2>3 DEF TypeOK
<1>7. ASSUME NEW j \in Jobs, Return(j) PROVE TypeOK'
  <2>1. pc' \in [Jobs -> Locations] BY <1>7, MoveTypes DEF Return
  <2>2. due' \in 0 .. Interval BY <1>7 DEF Return, TypeOK
  <2>3. QED BY <1>7, <2>1, <2>2 DEF Return, TypeOK
<1>8. CASE UNCHANGED vars BY <1>8 DEF vars, TypeOK
<1>9. \A j \in Jobs : JobRaises(j) => \/ UNCHANGED <<newest, age, delay, missed>>
                                     \/ Insert(j, outcome[j])
  BY DEF JobRaises
<1>10. QED BY <1>1, <1>2, <1>3, <1>4, <1>5, <1>6, <1>7, <1>8, <1>9 DEF Next, Work

\* Whatever fails and however long it runs, the monitor's row, deadline and
\* bookkeeping keep their shape; in particular a stored status is a known one.
THEOREM TypeCorrect == Spec => []TypeOK
BY TypeInit, TypeStep, PTL DEF Spec

-----------------------------------------------------------------------------
(* The schedule. *)

LEMMA ScheduleInit == Init => ScheduleInv
BY DEF Init, ScheduleInv, Lost, Jobs, NoReport

\* A stored row, whose ever, starts the account anew: what is left of a sleep is
\* an interval at most.
LEMMA InsertKeepsSchedule ==
  ASSUME TypeOK, ScheduleInv, NEW j \in Jobs, NEW s \in Statuses, Insert(j, s),
         UNCHANGED due, Goto(j, "return") \/ Goto(j, "error")
  PROVE  ScheduleInv'
<1>1. /\ age' = 0 /\ delay' = 0 /\ due' \in 0 .. Interval
      /\ Interval \in Nat
  BY DriftAssumption DEF Insert, TypeOK
<1>2. pc'["manual"] # "wait"
  BY DEF Goto, ScheduleInv, TypeOK, Jobs
<1>3. QED BY <1>1, <1>2 DEF ScheduleInv

\* Every step keeps the account of the newest row's age, unless a failure was
\* not stored.
LEMMA ScheduleStep ==
  ASSUME TypeOK, ScheduleInv, [Next]_vars
  PROVE  ScheduleInv'
<1> USE DriftAssumption
<1>1. CASE Start \/ Wake
  BY <1>1 DEF Start, Wake, Goto, ScheduleInv, Lost, TypeOK, Jobs
<1>2. CASE Demonstrate \/ Tear \/ Train
  BY <1>2 DEF Demonstrate, Tear, Train, Goto, ScheduleInv, Lost, TypeOK, Jobs
<1>3. CASE Tick \/ Linger
  <2>1. CASE newest = NoReport \/ age = Keep
    BY <1>3, <2>1 DEF Tick, Linger, Grow, ScheduleInv
  <2>2. CASE ~ (newest = NoReport \/ age = Keep)
    <3>1. age' = age + 1 /\ newest' = newest /\ pc' = pc /\ missed' = missed
      BY <1>3, <2>2 DEF Tick, Linger, Grow
    <3>2. \/ pc["scheduled"] = "wait" /\ due' = due - 1 /\ delay' = delay
          \/ due' = due /\ delay' = delay + 1
      BY <1>3 DEF Tick, Linger
    <3>3. QED BY <3>1, <3>2 DEF ScheduleInv, Lost, TypeOK
  <2>3. QED BY <2>1, <2>2
<1>4. ASSUME NEW j \in Jobs,
             \/ Load(j) \/ ReadVersion(j) \/ VersionRaises(j) \/ Report(j) \/ Crash(j)
             \/ JobRaises(j) /\ UNCHANGED <<newest, age, delay, missed>>
      PROVE  ScheduleInv'
  <2>1. UNCHANGED <<newest, age, due, delay, missed>>
    BY <1>4 DEF Load, ReadVersion, VersionRaises, Report, JobRaises, Crash
  <2>2. \E l \in {"off", "version", "report", "persist", "error"} : pc' = [pc EXCEPT ![j] = l]
    BY <1>4 DEF Load, ReadVersion, VersionRaises, Report, JobRaises, Crash, Goto
  <2>3. QED BY <2>1, <2>2 DEF ScheduleInv, Lost, TypeOK, Jobs
<1>5. ASSUME NEW j \in Jobs,
             Persist(j) \/ PersistError(j) \/ (JobRaises(j) /\ Insert(j, outcome[j]))
      PROVE  ScheduleInv'
  BY <1>5, Stores, InsertKeepsSchedule
<1>6. ASSUME NEW j \in Jobs, ErrorUnversioned(j) \/ ErrorUnstored(j) PROVE ScheduleInv'
  <2>1. PICK why \in {"torn", "database"} : missed' = missed \cup {<<j, why>>}
    BY <1>6 DEF ErrorUnversioned, ErrorUnstored
  <2>2. Goto(j, "return") /\ UNCHANGED <<newest, age, due, delay>>
    BY <1>6 DEF ErrorUnversioned, ErrorUnstored
  <2>3. CASE j = "scheduled"
    <3>1. <<"scheduled", why>> \in Lost' BY <2>1, <2>3 DEF Lost
    <3>2. pc'["manual"] = pc["manual"] BY <2>2, <2>3 DEF Goto, TypeOK, Jobs
    <3>3. QED BY <3>1, <3>2 DEF ScheduleInv
  <2>4. CASE j = "manual"
    <3>1. pc'["scheduled"] = pc["scheduled"] /\ pc'["manual"] = "return"
      BY <2>2, <2>4 DEF Goto, TypeOK, Jobs
    <3>2. Lost \subseteq Lost' BY <2>1 DEF Lost
    <3>3. QED BY <2>2, <3>1, <3>2 DEF ScheduleInv
  <2>5. QED BY <2>3, <2>4 DEF Jobs
<1>7. ASSUME NEW j \in Jobs, Return(j) PROVE ScheduleInv'
  <2>1. pc[j] = "return" /\ UNCHANGED <<newest, age, delay, missed>>
    BY <1>7 DEF Return
  <2>2. CASE j = "scheduled"
    <3>1. /\ pc'["scheduled"] = "wait" /\ due' = Interval
          /\ pc'["manual"] = pc["manual"]
      BY <1>7, <2>2 DEF Return, Goto, TypeOK, Jobs
    <3>2. QED BY <2>1, <2>2, <3>1 DEF ScheduleInv, Lost, TypeOK
  <2>3. CASE j = "manual"
    <3>1. /\ pc'["manual"] = "off" /\ due' = due
          /\ pc'["scheduled"] = pc["scheduled"]
      BY <1>7, <2>3 DEF Return, Goto, TypeOK, Jobs
    <3>2. QED BY <2>1, <3>1 DEF ScheduleInv, Lost
  <2>4. QED BY <2>2, <2>3 DEF Jobs
<1>8. CASE UNCHANGED vars BY <1>8 DEF vars, ScheduleInv, Lost
<1>9. \A j \in Jobs : JobRaises(j) => \/ UNCHANGED <<newest, age, delay, missed>>
                                     \/ Insert(j, outcome[j])
  BY DEF JobRaises
<1>10. QED BY <1>1, <1>2, <1>3, <1>4, <1>5, <1>6, <1>7, <1>8, <1>9 DEF Next, Work

\* The age of the newest row and the time left to the next evaluation exceed
\* an interval by no more than the time that the scheduler did not sleep,
\* unless a failure was not stored.
THEOREM ScheduleHolds == Spec => [](TypeOK /\ ScheduleInv)
<1>1. Init => TypeOK /\ ScheduleInv BY TypeInit, ScheduleInit
<1>2. TypeOK /\ ScheduleInv /\ [Next]_vars => TypeOK' /\ ScheduleInv'
  BY TypeStep, ScheduleStep
<1>3. QED BY <1>1, <1>2, PTL DEF Spec

\* STALE has a cause, for every interval and every maximum age: an evaluation
\* was lost, or evaluating and being down took more time than the two settings
\* leave (scheduler.py:30, data.py:62-64).
THEOREM StaleHasACause == Spec => []StaleIsAccountedFor
<1>1. TypeOK /\ ScheduleInv => StaleIsAccountedFor
  <2> SUFFICES ASSUME TypeOK, ScheduleInv, Shown = "stale", Lost = {}
               PROVE  Interval + delay > MaxAge
    BY DEF StaleIsAccountedFor
  <2>1. newest # NoReport BY DEF Shown
  <2>2. newest.status # "stale" BY <2>1 DEF TypeOK, Statuses
  <2>3. age > MaxAge BY <2>1, <2>2 DEF Shown
  <2>4. age <= Interval + delay BY <2>1, DriftAssumption DEF ScheduleInv, TypeOK
  <2>5. QED BY <2>3, <2>4, DriftAssumption DEF TypeOK
<1>2. QED BY <1>1, ScheduleHolds, PTL

\* The row of a demonstration is the page's health for an interval at most, and
\* the time that the next evaluation takes, unless scheduled ones are lost.
THEOREM DemonstrationsAreReplaced == Spec => []DemonstrationsEnd
<1>1. TypeOK /\ ScheduleInv => DemonstrationsEnd
  <2> SUFFICES ASSUME TypeOK, ScheduleInv, newest.simulated, Lost = {}
               PROVE  age <= Interval + delay
    BY DEF DemonstrationsEnd
  <2>1. newest # NoReport BY DEF NoReport
  <2>2. QED BY <2>1, DriftAssumption DEF ScheduleInv, TypeOK
<1>2. QED BY <1>1, ScheduleHolds, PTL

-----------------------------------------------------------------------------
(* The explanation of a transaction. *)

\* The other parts of the page leave the cache alone.
LEMMA CacheRuns == SpecAll => Cache!Spec
<1>1. InitAll => Cache!Init
  BY DEF InitAll
<1>2. [NextAll]_all => [Cache!Next]_Cache!vars
  BY DEF NextAll, OfHealth, OfCache, OfDrivers, OfSearch, all, cache, Cache!vars
<1> QED
  BY <1>1, <1>2, PTL DEF SpecAll, Cache!Spec

\* Reviewers of one transaction pay for one call of the provider; another needs
\* a new score, a failed transaction or a recreated dashboard.
THEOREM GeneratedOnceOnThePage == SpecAll => []GeneratedOnce
<1>1. Cache!Spec => []Cache!GeneratedOnce
  BY CacheAssumed, Cache!PaidOnce
<1> QED
  BY <1>1, CacheRuns, PTL DEF GeneratedOnce

\* Only a page that was handed an older row can leave a text that describes
\* another decision than the one it is stored with.
THEOREM OnlyStalePagesOnThePage == SpecAll => OnlyStalePagesMislead
<1>1. Cache!Spec => Cache!OnlyStalePagesMislead
  BY CacheAssumed, Cache!OnlyStalePages
<1> QED
  BY <1>1, CacheRuns, PTL DEF OnlyStalePagesMislead

-----------------------------------------------------------------------------
(* Induction, and sums over finite sets. *)

\* A set of numbers that holds zero, and with each number the next, holds all.
LEMMA AllNumbers ==
    ASSUME NEW T, 0 \in T, \A n \in Nat : n \in T => n + 1 \in T
    PROVE  \A n \in Nat : n \in T
<1> DEFINE U == Nat \ T
           R == {ss \in Nat \X Nat : ss[1] < ss[2]}
<1>1. SUFFICES ASSUME U # {} PROVE FALSE
  OBVIOUS
<1>2. PICK n \in U : \A m \in U : <<m, n>> \notin R
  <2>1. IsWellFoundedOn(R, Nat)
    BY NatLessThanWellFounded DEF OpToRel
  <2>2. U \subseteq Nat
    OBVIOUS
  <2> HIDE DEF R, U
  <2> QED
    BY <1>1, <2>1, <2>2, WFMin
<1>3. n \in Nat /\ n \notin T /\ n # 0
  OBVIOUS
<1>4. n - 1 \in Nat /\ (n - 1) + 1 = n /\ n - 1 < n
  BY <1>3
<1>5. n - 1 \in U
  BY <1>3, <1>4
<1>6. <<n - 1, n>> \in R
  BY <1>3, <1>4
<1> QED
  BY <1>2, <1>5, <1>6

\* A family of sets that holds the empty set, and with each of its sets the one
\* with another element of S, holds S.
LEMMA AllElements ==
    ASSUME NEW S, IsFiniteSet(S), NEW F, {} \in F,
           \A T \in SUBSET S : \A x \in S \ T : T \in F => T \cup {x} \in F
    PROVE  S \in F
<1> DEFINE N == {n \in Nat : \A T \in SUBSET S : Cardinality(T) = n => T \in F}
<1>1. \A T \in SUBSET S : IsFiniteSet(T) /\ Cardinality(T) \in Nat
  BY FS_Subset, FS_CardinalityType
<1>2. 0 \in N
  BY <1>1, FS_EmptySet
<1>3. ASSUME NEW n \in Nat, n \in N PROVE n + 1 \in N
  <2> SUFFICES ASSUME NEW T \in SUBSET S, Cardinality(T) = n + 1 PROVE T \in F
    OBVIOUS
  <2>1. T # {}
    BY <1>1, FS_EmptySet
  <2>2. PICK x \in T : TRUE
    BY <2>1
  <2>3. IsFiniteSet(T) /\ Cardinality(T \ {x}) = Cardinality(T) - 1
    BY <1>1, <2>2, FS_RemoveElement
  <2>4. T \ {x} \in SUBSET S /\ x \in S \ (T \ {x}) /\ (T \ {x}) \cup {x} = T
    OBVIOUS
  <2>5. T \ {x} \in F
    BY <1>3, <2>3, <2>4
  <2> QED
    BY <2>4, <2>5
<1>4. \A n \in Nat : n \in N
  <2> HIDE DEF N
  <2> QED
    BY <1>2, <1>3, AllNumbers
<1> QED
  BY <1>1, <1>4

\* A function that folds the subsets of S as the sum of g does.
Element(T) == CHOOSE x \in T : TRUE
IsFold(h, g, S) ==
    h = [T \in SUBSET S |-> IF T = {} THEN 0 ELSE g[Element(T)] + h[T \ {Element(T)}]]
SumOn(g, S) == Search!SumFunctionOnSet(g, S)

LEMMA SumIsFold ==
    ASSUME NEW g, NEW S
    PROVE  SumOn(g, S) = (CHOOSE h : IsFold(h, g, S))[S]
BY DEF SumOn, Search!SumFunctionOnSet, Search!FoldFunctionOnSet, Search!MapThenFoldSet,
   IsFold, Element

\* There is one fold, which is the same on the subsets that two sets share.
LEMMA FoldExists ==
    ASSUME NEW g, NEW S, IsFiniteSet(S)
    PROVE  \E h : IsFold(h, g, S)
<1> DEFINE Of(n) == {T \in SUBSET S : Cardinality(T) <= n}
           Step(h, T) == IF T = {} THEN 0 ELSE g[Element(T)] + h[T \ {Element(T)}]
           N == {n \in Nat : \E h : h = [T \in Of(n) |-> Step(h, T)]}
<1>1. \A T \in SUBSET S : IsFiniteSet(T) /\ Cardinality(T) \in Nat /\ Cardinality(T) <= Cardinality(S)
  BY FS_Subset, FS_CardinalityType
<1>2. \A T \in SUBSET S : T # {} =>
        /\ Element(T) \in T /\ T \ {Element(T)} \in SUBSET S
        /\ Cardinality(T \ {Element(T)}) = Cardinality(T) - 1
  <2> SUFFICES ASSUME NEW T \in SUBSET S, T # {}
               PROVE  /\ Element(T) \in T /\ T \ {Element(T)} \in SUBSET S
                      /\ Cardinality(T \ {Element(T)}) = Cardinality(T) - 1
    OBVIOUS
  <2>1. Element(T) \in T
    BY DEF Element
  <2>2. IsFiniteSet(T)
    BY <1>1
  <2> QED
    BY <2>1, <2>2, FS_RemoveElement
<1>3. 0 \in N
  <2> DEFINE h == [T \in Of(0) |-> 0]
  <2>1. \A T \in Of(0) : T = {}
    BY <1>1, FS_EmptySet
  <2>2. h = [T \in Of(0) |-> Step(h, T)]
    BY <2>1
  <2> QED
    BY <2>2
<1>4. ASSUME NEW n \in Nat, n \in N PROVE n + 1 \in N
  <2>1. PICK h : h = [T \in Of(n) |-> Step(h, T)]
    BY <1>4
  <2> DEFINE k == [T \in Of(n + 1) |-> Step(h, T)]
  <2>2. \A T \in Of(n) : T \in Of(n + 1) /\ k[T] = h[T]
    <3>1. \A T \in Of(n) : T \in Of(n + 1)
      BY <1>1
    <3>2. \A T \in Of(n) : h[T] = Step(h, T)
      BY <2>1
    <3> QED
      BY <3>1, <3>2
  <2>3. \A T \in Of(n + 1) : Step(k, T) = Step(h, T)
    <3> TAKE T \in Of(n + 1)
    <3>1. CASE T = {}
      BY <3>1
    <3>2. CASE T # {}
      <4>1. T \ {Element(T)} \in Of(n)
        BY <1>1, <1>2, <3>2
      <4> HIDE DEF Of, k
      <4> QED
        BY <2>2, <3>2, <4>1
    <3> QED
      BY <3>1, <3>2
  <2>4. k = [T \in Of(n + 1) |-> Step(k, T)]
    <3> HIDE DEF Of, Step
    <3> QED
      BY <2>3
  <2> HIDE DEF k, Of, Step
  <2> QED
    BY <2>4
<1>5. Cardinality(S) \in N
  <2> HIDE DEF N
  <2> QED
    BY <1>3, <1>4, AllNumbers, FS_CardinalityType
<1>6. Of(Cardinality(S)) = SUBSET S
  BY <1>1
<1>7. PICK h : h = [T \in Of(Cardinality(S)) |-> Step(h, T)]
  BY <1>5
<1> QED
  <2> HIDE DEF Of
  <2> QED
    BY <1>6, <1>7 DEF IsFold

LEMMA FoldsAgree ==
    ASSUME NEW g, NEW S, IsFiniteSet(S), NEW h, IsFold(h, g, S), NEW U \in SUBSET S,
           NEW k, IsFold(k, g, U)
    PROVE  h[U] = k[U]
<1> DEFINE N == {n \in Nat : \A T \in SUBSET U : Cardinality(T) = n => h[T] = k[T]}
<1>1. \A T \in SUBSET U : T \in SUBSET S /\ IsFiniteSet(T) /\ Cardinality(T) \in Nat
  BY FS_Subset, FS_CardinalityType
<1>2. \A T \in SUBSET U :
        /\ h[T] = IF T = {} THEN 0 ELSE g[Element(T)] + h[T \ {Element(T)}]
        /\ k[T] = IF T = {} THEN 0 ELSE g[Element(T)] + k[T \ {Element(T)}]
  BY <1>1 DEF IsFold
<1>3. 0 \in N
  BY <1>1, <1>2, FS_EmptySet
<1>4. ASSUME NEW n \in Nat, n \in N PROVE n + 1 \in N
  <2> SUFFICES ASSUME NEW T \in SUBSET U, Cardinality(T) = n + 1 PROVE h[T] = k[T]
    OBVIOUS
  <2>1. IsFiniteSet(T) /\ T # {}
    BY <1>1, FS_EmptySet
  <2>2. Element(T) \in T
    BY <2>1 DEF Element
  <2>3. Cardinality(T \ {Element(T)}) = n /\ T \ {Element(T)} \in SUBSET U
    BY <2>1, <2>2, FS_RemoveElement
  <2>4. h[T \ {Element(T)}] = k[T \ {Element(T)}]
    BY <1>4, <2>3
  <2> QED
    BY <1>2, <2>1, <2>4
<1>5. \A n \in Nat : n \in N
  <2> HIDE DEF N
  <2> QED
    BY <1>3, <1>4, AllNumbers
<1> QED
  BY <1>1, <1>5

\* The sum over nothing is zero; else the sum takes one element and goes on.
LEMMA SumUnfolds ==
    ASSUME NEW g, NEW S, IsFiniteSet(S)
    PROVE  SumOn(g, S) = IF S = {} THEN 0 ELSE g[Element(S)] + SumOn(g, S \ {Element(S)})
<1> DEFINE U == S \ {Element(S)}
           h == CHOOSE f : IsFold(f, g, S)
           k == CHOOSE f : IsFold(f, g, U)
<1>1. IsFiniteSet(U) /\ U \in SUBSET S
  BY FS_Subset
<1>2. IsFold(h, g, S) /\ IsFold(k, g, U)
  BY <1>1, FoldExists
<1>3. SumOn(g, S) = h[S] /\ SumOn(g, U) = k[U]
  BY SumIsFold
<1> HIDE DEF U, h, k
<1>4. h[U] = k[U]
  BY <1>1, <1>2, FoldsAgree
<1>5. h[S] = IF S = {} THEN 0 ELSE g[Element(S)] + h[S \ {Element(S)}]
  BY <1>2 DEF IsFold
<1> QED
  BY <1>3, <1>4, <1>5 DEF U

\* Finite sets, and their sizes.
LEMMA SubsetSizes ==
    ASSUME NEW S, IsFiniteSet(S)
    PROVE  \A T \in SUBSET S :
             /\ IsFiniteSet(T) /\ Cardinality(T) \in Nat /\ (Cardinality(T) = 0 <=> T = {})
             /\ \A x \in T : T \ {x} \in SUBSET S /\ Cardinality(T \ {x}) = Cardinality(T) - 1
             /\ T # {} => Element(T) \in T
<1> SUFFICES ASSUME NEW T \in SUBSET S
             PROVE  /\ IsFiniteSet(T) /\ Cardinality(T) \in Nat /\ (Cardinality(T) = 0 <=> T = {})
                    /\ \A x \in T : T \ {x} \in SUBSET S /\ Cardinality(T \ {x}) = Cardinality(T) - 1
                    /\ T # {} => Element(T) \in T
  OBVIOUS
<1>1. IsFiniteSet(T)
  BY FS_Subset
<1>2. Cardinality(T) \in Nat /\ (Cardinality(T) = 0 <=> T = {})
  BY <1>1, FS_CardinalityType, FS_EmptySet
<1>3. ASSUME NEW x \in T
      PROVE  T \ {x} \in SUBSET S /\ Cardinality(T \ {x}) = Cardinality(T) - 1
  BY <1>1, FS_RemoveElement
<1> QED
  BY <1>1, <1>2, <1>3 DEF Element

\* A sum of integers is an integer.
LEMMA SumIsInt ==
    ASSUME NEW S, IsFiniteSet(S), NEW g, \A x \in S : g[x] \in Int
    PROVE  \A T \in SUBSET S : SumOn(g, T) \in Int
<1> DEFINE N == {n \in Nat : \A T \in SUBSET S : Cardinality(T) = n => SumOn(g, T) \in Int}
<1>1. 0 \in N
  <2>1. SumOn(g, {}) = 0
    BY SumUnfolds, FS_EmptySet
  <2>2. \A T \in SUBSET S : Cardinality(T) = 0 => T = {}
    BY SubsetSizes
  <2> QED
    BY <2>1, <2>2
<1>2. ASSUME NEW n \in Nat, n \in N PROVE n + 1 \in N
  <2> SUFFICES ASSUME NEW T \in SUBSET S, Cardinality(T) = n + 1 PROVE SumOn(g, T) \in Int
    OBVIOUS
  <2>1. T # {} /\ Element(T) \in T /\ IsFiniteSet(T)
    BY SubsetSizes
  <2>2. SumOn(g, T \ {Element(T)}) \in Int
    BY <1>2, <2>1, SubsetSizes
  <2>3. SumOn(g, T) = g[Element(T)] + SumOn(g, T \ {Element(T)})
    BY <2>1, SumUnfolds
  <2> QED
    BY <2>1, <2>2, <2>3
<1>3. \A n \in Nat : n \in N
  <2> HIDE DEF N
  <2> QED
    BY <1>1, <1>2, AllNumbers
<1> QED
  BY <1>3, SubsetSizes

\* The order does not matter: an element more adds what it is worth.
LEMMA SumAdds ==
    ASSUME NEW S, IsFiniteSet(S), NEW g, \A x \in S : g[x] \in Int
    PROVE  \A T \in SUBSET S : \A x \in S \ T : SumOn(g, T \cup {x}) = SumOn(g, T) + g[x]
<1> DEFINE Good(T) == \A x \in T : SumOn(g, T) = SumOn(g, T \ {x}) + g[x]
           N == {n \in Nat : \A T \in SUBSET S : Cardinality(T) = n => Good(T)}
<1>1. 0 \in N
  BY SubsetSizes
<1>2. ASSUME NEW n \in Nat, n \in N PROVE n + 1 \in N
  <2> SUFFICES ASSUME NEW T \in SUBSET S, Cardinality(T) = n + 1 PROVE Good(T)
    OBVIOUS
  <2> DEFINE y == Element(T)
  <2>1. y \in T /\ IsFiniteSet(T) /\ T # {}
    BY SubsetSizes
  <2>2. \A x \in T : Good(T \ {x})
    <3> HIDE DEF Good
    <3> QED
      BY <1>2, SubsetSizes
  <2>3. SumOn(g, T) = g[y] + SumOn(g, T \ {y})
    BY <2>1, SumUnfolds
  <2> HIDE DEF y
  <2>4. ASSUME NEW x \in T PROVE SumOn(g, T) = SumOn(g, T \ {x}) + g[x]
    <3>1. CASE x = y
      <4>1. SumOn(g, T \ {y}) \in Int
        BY SumIsInt
      <4> QED
        BY <2>1, <2>3, <3>1, <4>1
    <3>2. CASE x # y
      <4> DEFINE Z == (T \ {x}) \ {y}
      <4>1. Z = (T \ {y}) \ {x} /\ y \in T \ {x} /\ x \in T \ {y}
        BY <2>1, <3>2
      <4>2. SumOn(g, T \ {x}) = SumOn(g, Z) + g[y]
        BY <2>2, <4>1
      <4>3. SumOn(g, T \ {y}) = SumOn(g, Z) + g[x]
        BY <2>1, <2>2, <4>1
      <4>4. SumOn(g, Z) \in Int /\ g[x] \in Int /\ g[y] \in Int
        BY <2>1, SumIsInt
      <4> QED
        BY <2>3, <4>2, <4>3, <4>4
    <3> QED
      BY <3>1, <3>2
  <2> QED
    BY <2>4
<1>3. \A n \in Nat : n \in N
  <2> HIDE DEF N
  <2> QED
    BY <1>1, <1>2, AllNumbers
<1>4. \A T \in SUBSET S : Good(T)
  <2> HIDE DEF Good
  <2> QED
    BY <1>3, SubsetSizes
<1>5. ASSUME NEW T \in SUBSET S, NEW x \in S \ T PROVE SumOn(g, T \cup {x}) = SumOn(g, T) + g[x]
  <2>1. T \cup {x} \in SUBSET S /\ x \in T \cup {x} /\ (T \cup {x}) \ {x} = T
    OBVIOUS
  <2> QED
    BY <1>4, <2>1
<1> QED
  BY <1>5

\* Sums of functions that are equal, of which one is another's multiple, of
\* which one is nowhere the greater, and of which one is the sum of two others.
LEMMA SumsCompare ==
    ASSUME NEW S, IsFiniteSet(S), NEW g, NEW h, \A x \in S : g[x] \in Int /\ h[x] \in Int
    PROVE  /\ (\A x \in S : g[x] = h[x]) => SumOn(g, S) = SumOn(h, S)
           /\ (\A x \in S : g[x] <= h[x]) => SumOn(g, S) <= SumOn(h, S)
           /\ \A m \in Int : (\A x \in S : h[x] = m * g[x]) => SumOn(h, S) = m * SumOn(g, S)
<1>1. SumOn(g, {}) = 0 /\ SumOn(h, {}) = 0
  BY SumUnfolds, FS_EmptySet
<1>2. \A T \in SUBSET S : SumOn(g, T) \in Int /\ SumOn(h, T) \in Int
  BY SumIsInt
<1>3. \A T \in SUBSET S : \A x \in S \ T :
        /\ SumOn(g, T \cup {x}) = SumOn(g, T) + g[x] /\ SumOn(h, T \cup {x}) = SumOn(h, T) + h[x]
        /\ g[x] \in Int /\ h[x] \in Int
  <2>1. \A T \in SUBSET S : \A x \in S \ T : SumOn(g, T \cup {x}) = SumOn(g, T) + g[x]
    BY SumAdds
  <2>2. \A T \in SUBSET S : \A x \in S \ T : SumOn(h, T \cup {x}) = SumOn(h, T) + h[x]
    BY SumAdds
  <2> QED
    BY <2>1, <2>2
<1>4. ASSUME \A x \in S : g[x] <= h[x] PROVE SumOn(g, S) <= SumOn(h, S)
  <2> DEFINE F == {T \in SUBSET S : SumOn(g, T) <= SumOn(h, T)}
  <2>1. {} \in F
    BY <1>1
  <2>2. ASSUME NEW T \in SUBSET S, NEW x \in S \ T, T \in F PROVE T \cup {x} \in F
    BY <1>2, <1>3, <1>4, <2>2
  <2> HIDE DEF F
  <2>3. S \in F
    BY <2>1, <2>2, AllElements
  <2> QED
    BY <2>3 DEF F
<1>5. ASSUME NEW m \in Int, \A x \in S : h[x] = m * g[x] PROVE SumOn(h, S) = m * SumOn(g, S)
  <2> DEFINE F == {T \in SUBSET S : SumOn(h, T) = m * SumOn(g, T)}
  <2>1. {} \in F
    BY <1>1
  <2>2. ASSUME NEW T \in SUBSET S, NEW x \in S \ T, T \in F PROVE T \cup {x} \in F
    <3>1. m * (SumOn(g, T) + g[x]) = m * SumOn(g, T) + m * g[x]
      BY <1>2, <1>3
    <3> QED
      BY <1>2, <1>3, <1>5, <2>2, <3>1
  <2> HIDE DEF F
  <2>3. S \in F
    BY <2>1, <2>2, AllElements
  <2> QED
    BY <2>3 DEF F
<1>6. ASSUME \A x \in S : g[x] = h[x] PROVE SumOn(g, S) = SumOn(h, S)
  <2> DEFINE F == {T \in SUBSET S : SumOn(g, T) = SumOn(h, T)}
  <2>1. {} \in F
    BY <1>1
  <2>2. ASSUME NEW T \in SUBSET S, NEW x \in S \ T, T \in F PROVE T \cup {x} \in F
    BY <1>2, <1>3, <1>6, <2>2
  <2> HIDE DEF F
  <2>3. S \in F
    BY <2>1, <2>2, AllElements
  <2> QED
    BY <2>3 DEF F
<1> QED
  BY <1>4, <1>5, <1>6

LEMMA SumPlus ==
    ASSUME NEW S, IsFiniteSet(S), NEW f, NEW g, NEW h,
           \A x \in S : f[x] \in Int /\ g[x] \in Int /\ h[x] = f[x] + g[x]
    PROVE  SumOn(h, S) = SumOn(f, S) + SumOn(g, S)
<1>1. SumOn(f, {}) = 0 /\ SumOn(g, {}) = 0 /\ SumOn(h, {}) = 0
  BY SumUnfolds, FS_EmptySet
<1>2. \A T \in SUBSET S : SumOn(f, T) \in Int /\ SumOn(g, T) \in Int
  BY SumIsInt
<1>3. \A T \in SUBSET S : \A x \in S \ T :
        /\ SumOn(f, T \cup {x}) = SumOn(f, T) + f[x] /\ SumOn(g, T \cup {x}) = SumOn(g, T) + g[x]
        /\ SumOn(h, T \cup {x}) = SumOn(h, T) + h[x]
  <2>1. \A x \in S : f[x] \in Int
    OBVIOUS
  <2>2. \A x \in S : g[x] \in Int
    OBVIOUS
  <2>3. \A x \in S : h[x] \in Int
    OBVIOUS
  <2>4. \A T \in SUBSET S : \A x \in S \ T : SumOn(f, T \cup {x}) = SumOn(f, T) + f[x]
    BY ONLY <2>1, SumAdds, IsFiniteSet(S)
  <2>5. \A T \in SUBSET S : \A x \in S \ T : SumOn(g, T \cup {x}) = SumOn(g, T) + g[x]
    BY ONLY <2>2, SumAdds, IsFiniteSet(S)
  <2>6. \A T \in SUBSET S : \A x \in S \ T : SumOn(h, T \cup {x}) = SumOn(h, T) + h[x]
    BY ONLY <2>3, SumAdds, IsFiniteSet(S)
  <2> QED
    BY <2>4, <2>5, <2>6
<1> DEFINE F == {T \in SUBSET S : SumOn(h, T) = SumOn(f, T) + SumOn(g, T)}
<1>4. {} \in F
  BY <1>1
<1>5. ASSUME NEW T \in SUBSET S, NEW x \in S \ T, T \in F PROVE T \cup {x} \in F
  BY <1>2, <1>3, <1>5
<1> HIDE DEF F
<1>6. S \in F
  BY <1>4, <1>5, AllElements
<1> QED
  BY <1>6 DEF F

\* Rows that count for nothing can be left out.
LEMMA SumRestricts ==
    ASSUME NEW S, IsFiniteSet(S), NEW U \in SUBSET S, NEW g, \A x \in S : g[x] \in Int,
           \A x \in S \ U : g[x] = 0
    PROVE  SumOn(g, S) = SumOn(g, U)
<1> DEFINE W == S \ U
           F == {T \in SUBSET W : SumOn(g, U \cup T) = SumOn(g, U)}
<1>1. SumOn(g, U) \in Int
  BY SumIsInt
<1>2. {} \in F
  OBVIOUS
<1>3. ASSUME NEW T \in SUBSET W, NEW x \in W \ T, T \in F PROVE T \cup {x} \in F
  <2>1. U \cup T \in SUBSET S /\ x \in S \ (U \cup T) /\ (U \cup T) \cup {x} = U \cup (T \cup {x})
    OBVIOUS
  <2>2. \A Z \in SUBSET S : \A y \in S \ Z : SumOn(g, Z \cup {y}) = SumOn(g, Z) + g[y]
    BY SumAdds
  <2>3. SumOn(g, U \cup (T \cup {x})) = SumOn(g, U \cup T) + g[x]
    BY <2>1, <2>2
  <2> QED
    BY <1>1, <1>3, <2>3
<1>4. IsFiniteSet(W)
  BY FS_Subset
<1> HIDE DEF F, W
<1>5. W \in F
  BY <1>2, <1>3, <1>4, AllElements
<1>6. SumOn(g, U \cup W) = SumOn(g, U)
  BY <1>5 DEF F
<1> QED
  BY <1>6 DEF W

\* Of numbers that are not negative, the sum is not, and no part exceeds it.
LEMMA SumIsNat ==
    ASSUME NEW S, IsFiniteSet(S), NEW g, \A x \in S : g[x] \in Nat
    PROVE  SumOn(g, S) \in Nat /\ \A x \in S : g[x] <= SumOn(g, S)
<1> DEFINE F == {T \in SUBSET S : SumOn(g, T) \in Nat /\ \A x \in T : g[x] <= SumOn(g, T)}
<1>1. {} \in F
  <2>1. SumOn(g, {}) = 0
    BY SumUnfolds, FS_EmptySet
  <2> QED
    BY <2>1
<1>2. ASSUME NEW T \in SUBSET S, NEW x \in S \ T, T \in F PROVE T \cup {x} \in F
  <2>1. SumOn(g, T \cup {x}) = SumOn(g, T) + g[x]
    BY SumAdds
  <2>2. SumOn(g, T) \in Nat /\ g[x] \in Nat /\ \A y \in T : g[y] \in Nat /\ g[y] <= SumOn(g, T)
    BY <1>2
  <2> QED
    BY <2>1, <2>2
<1> HIDE DEF F
<1>3. S \in F
  BY <1>1, <1>2, AllElements
<1> QED
  BY <1>3 DEF F

\* A table adds up to the same by rows and by columns.
Column(A, m, b) == [a \in A |-> m[a][b]]

LEMMA SumsExchange ==
    ASSUME NEW A, IsFiniteSet(A), NEW B, IsFiniteSet(B), NEW m,
           \A a \in A, b \in B : m[a][b] \in Int,
           NEW rows, \A a \in A : rows[a] = SumOn(m[a], B),
           NEW columns, \A b \in B : columns[b] = SumOn(Column(A, m, b), A)
    PROVE  SumOn(rows, A) = SumOn(columns, B)
<1> USE DEF Column
<1> DEFINE col(b) == [a \in A |-> m[a][b]]
           upto(T) == [b \in B |-> SumOn(col(b), T)]
           F == {T \in SUBSET A : SumOn(rows, T) = SumOn(upto(T), B)}
<1>1. \A a \in A : rows[a] \in Int
  BY SumIsInt
<1>2. \A b \in B : /\ \A T \in SUBSET A : SumOn(col(b), T) \in Int
                   /\ \A T \in SUBSET A : \A x \in A \ T :
                        SumOn(col(b), T \cup {x}) = SumOn(col(b), T) + m[x][b]
  <2> TAKE b \in B
  <2> DEFINE c == col(b)
  <2>1. \A a \in A : c[a] = m[a][b] /\ c[a] \in Int
    OBVIOUS
  <2> HIDE DEF c
  <2>2. /\ \A T \in SUBSET A : SumOn(c, T) \in Int
        /\ \A T \in SUBSET A : \A x \in A \ T : SumOn(c, T \cup {x}) = SumOn(c, T) + m[x][b]
    BY <2>1, SumIsInt, SumAdds
  <2> QED
    BY <2>2 DEF c
<1>3. {} \in F
  <2>1. SumOn(rows, {}) = 0 /\ \A b \in B : upto({})[b] = 0
    BY SumUnfolds, FS_EmptySet
  <2> DEFINE z == upto({})
  <2>2. \A b \in B : z[b] = 0 /\ z[b] \in Int
    BY <2>1
  <2> HIDE DEF z
  <2>3. SumOn(z, B) = SumOn(z, {})
    <3>1. {} \in SUBSET B /\ \A b \in B \ {} : z[b] = 0
      BY <2>2
    <3> QED
      BY <2>2, <3>1, SumRestricts
  <2>4. SumOn(z, {}) = 0
    BY SumUnfolds, FS_EmptySet
  <2> QED
    BY <2>1, <2>3, <2>4 DEF z
<1>4. ASSUME NEW T \in SUBSET A, NEW x \in A \ T, T \in F PROVE T \cup {x} \in F
  <2> DEFINE p == upto(T)
             q == upto(T \cup {x})
             r == m[x]
  <2>1. \A b \in B : p[b] \in Int /\ r[b] \in Int /\ q[b] = p[b] + r[b]
    BY <1>2
  <2>2. SumOn(rows, T) = SumOn(p, B)
    BY <1>4
  <2> HIDE DEF p, q
  <2>3. SumOn(q, B) = SumOn(p, B) + SumOn(r, B)
    BY <2>1, SumPlus
  <2>4. SumOn(rows, T \cup {x}) = SumOn(rows, T) + rows[x]
    BY <1>1, SumAdds
  <2>5. SumOn(rows, T \cup {x}) = SumOn(q, B)
    BY <2>2, <2>3, <2>4
  <2> QED
    BY <2>5 DEF q
<1>5. A \in F
  <2> HIDE DEF F
  <2> QED
    BY <1>3, <1>4, AllElements
<1>6. SumOn(upto(A), B) = SumOn(columns, B)
  <2> DEFINE p == upto(A)
  <2>1. \A b \in B : p[b] = columns[b] /\ p[b] \in Int /\ columns[b] \in Int
    BY <1>2
  <2> HIDE DEF p
  <2>2. SumOn(p, B) = SumOn(columns, B)
    BY <2>1, SumsCompare
  <2> QED
    BY <2>2 DEF p
<1> QED
  BY <1>5, <1>6

-----------------------------------------------------------------------------
(* What a decision costs. *)

\* Everything in a row is worth a number that is not negative.
LEMMA Worths ==
    ASSUME NEW r \in Search!Scored
    PROVE  /\ r.p \in Nat /\ Search!Amount(r) \in Nat /\ Search!Friction(r) \in Nat
           /\ Search!MissedByVerify(Search!Amount(r)) \in Nat
           /\ Search!CaughtByVerify(Search!Amount(r)) + Search!MissedByVerify(Search!Amount(r))
                = Search!Amount(r)
           /\ Search!CaughtByVerify(Search!Amount(r)) \in Nat
           /\ Search!Abandoned(Search!Friction(r)) \in Nat
           /\ Search!VerifyOperationCost \in Nat
<1>1. /\ r.p \in Nat /\ r.amount \in Nat /\ r.margin \in Nat
      /\ Search!ReacquisitionCost[r.ltv] \in Nat
  BY DEF Search!Scored, Search!ReacquisitionCost
<1>2. r.amount * r.margin \in Nat
  BY <1>1
<1>3. Search!Amount(r) \in Nat
  BY <1>1 DEF Search!Amount, Search!Dollar
<1>4. Search!Friction(r) \in Nat
  <2>1. (r.amount * r.margin) * 100 \in Nat /\ Search!ReacquisitionCost[r.ltv] * 10000 \in Nat
    BY <1>1, <1>2
  <2>2. Search!Friction(r) = (r.amount * r.margin) * 100 + Search!ReacquisitionCost[r.ltv] * 10000
    BY <1>1 DEF Search!Friction, Search!Dollar
  <2> QED
    BY <2>1, <2>2
<1>5. \A a \in Nat : Search!MissedByVerify(a) \in Nat /\ Search!Abandoned(a) \in Nat
  BY DEF Search!MissedByVerify, Search!Abandoned, Search!DetectionRate
<1>6. /\ Search!CaughtByVerify(Search!Amount(r)) = 8500 * r.amount
      /\ Search!MissedByVerify(Search!Amount(r)) = 1500 * r.amount
      /\ Search!Amount(r) = 10000 * r.amount
  BY <1>1 DEF Search!CaughtByVerify, Search!MissedByVerify, Search!DetectionRate, Search!Amount,
     Search!Dollar
<1>7. 8500 * r.amount \in Nat /\ 8500 * r.amount + 1500 * r.amount = 10000 * r.amount
  BY <1>1
<1> QED
  BY <1>1, <1>3, <1>4, <1>5, <1>6, <1>7 DEF Search!VerifyOperationCost, Search!Dollar

\* The thresholds leave a probability one action.
LEMMA OneAction ==
    ASSUME NEW p \in Int, NEW t, t.verify \in Int, t.decline \in Int
    PROVE  Search!ActionFor(p, t) = IF p >= t.decline THEN "decline"
                                    ELSE IF p >= t.verify THEN "verify" ELSE "approve"
BY DEF Search!ActionFor, Search!Actions

\* What the arrays of the sweep give a row is what a response realizes.
LEMMA ChosenIsRealized ==
    ASSUME NEW r \in Search!Scored, NEW t, t.verify \in Int, t.decline \in Int
    PROVE  /\ Search!Chosen(r, t) \in Nat
           /\ Search!Chosen(r, t) = Search!RealizedCost(Search!ActionFor(r.p, t), r)
<1> DEFINE cost == <<IF r.fraud THEN Search!Amount(r) ELSE 0,
                  Search!VerifyOperationCost
                    + (IF r.fraud THEN Search!MissedByVerify(Search!Amount(r))
                                  ELSE Search!Abandoned(Search!Friction(r))),
                  IF r.fraud THEN 0 ELSE Search!Friction(r)>>
<1>1. Search!Chosen(r, t) = cost[Search!Decision(r, t) + 1]
  BY DEF Search!Chosen
<1>2. r.p \in Int
  BY Worths
<1>3. CASE r.p >= t.decline
  <2>1. Search!Chosen(r, t) = IF r.fraud THEN 0 ELSE Search!Friction(r)
    BY <1>1, <1>3 DEF Search!Decision
  <2>2. Search!ActionFor(r.p, t) = "decline"
    BY <1>2, <1>3, OneAction
  <2> QED
    BY <2>1, <2>2, Worths DEF Search!RealizedCost
<1>4. CASE r.p < t.decline /\ r.p >= t.verify
  <2>1. Search!Chosen(r, t) = Search!VerifyOperationCost
          + (IF r.fraud THEN Search!MissedByVerify(Search!Amount(r))
                        ELSE Search!Abandoned(Search!Friction(r)))
    BY <1>1, <1>2, <1>4 DEF Search!Decision
  <2>2. Search!ActionFor(r.p, t) = "verify"
    BY <1>2, <1>4, OneAction
  <2> QED
    BY <2>1, <2>2, Worths DEF Search!RealizedCost
<1>5. CASE r.p < t.decline /\ r.p < t.verify
  <2>1. Search!Chosen(r, t) = IF r.fraud THEN Search!Amount(r) ELSE 0
    BY <1>1, <1>2, <1>5 DEF Search!Decision
  <2>2. Search!ActionFor(r.p, t) = "approve"
    BY <1>2, <1>5, OneAction
  <2> QED
    BY <2>1, <2>2, Worths DEF Search!RealizedCost
<1> QED
  BY <1>2, <1>3, <1>4, <1>5

\* A frame holds finitely many kinds of rows, each some number of times.
IsFrame(rows) ==
    /\ IsFiniteSet(DOMAIN rows) /\ DOMAIN rows \subseteq Search!Scored
    /\ \A r \in DOMAIN rows : rows[r] \in Nat

LEMMA SumOfFrame ==
    ASSUME NEW rows, NEW each
    PROVE  Search!Sum(rows, each) = SumOn([r \in DOMAIN rows |-> rows[r] * each[r]], DOMAIN rows)
<1> DEFINE g == [r \in DOMAIN rows |-> rows[r] * each[r]]
<1>1. DOMAIN g = DOMAIN rows
  OBVIOUS
<1>2. Search!Sum(rows, each) = SumOn(g, DOMAIN g)
  BY DEF Search!Sum, Search!SumFunction, SumOn
<1> HIDE DEF g
<1> QED
  BY <1>1, <1>2 DEF g

\* What a pair of thresholds costs on a frame.
LEMMA TotalOfFrame ==
    ASSUME NEW rows, IsFrame(rows), NEW t, t.verify \in Int, t.decline \in Int
    PROVE  /\ Search!Total(rows, t)
                = SumOn([r \in DOMAIN rows |-> rows[r] * Search!Chosen(r, t)], DOMAIN rows)
           /\ Search!Total(rows, t) \in Nat
<1> DEFINE each == [r \in DOMAIN rows |-> Search!Chosen(r, t)]
           g == [r \in DOMAIN rows |-> rows[r] * Search!Chosen(r, t)]
<1>1. \A r \in DOMAIN rows : rows[r] \in Nat /\ Search!Chosen(r, t) \in Nat
  BY ChosenIsRealized DEF IsFrame
<1>2. Search!Total(rows, t) = SumOn([r \in DOMAIN rows |-> rows[r] * each[r]], DOMAIN rows)
  BY SumOfFrame DEF Search!Total
<1>3. [r \in DOMAIN rows |-> rows[r] * each[r]] = g
  OBVIOUS
<1>4. \A r \in DOMAIN rows : g[r] \in Nat
  BY <1>1
<1> HIDE DEF g, each
<1>5. SumOn(g, DOMAIN rows) \in Nat
  BY <1>4, SumIsNat DEF IsFrame
<1> QED
  BY <1>2, <1>3, <1>5 DEF g

\* Sums over a frame, of what is equal, and of what is the sum of two others.
LEMMA FrameSums ==
    ASSUME NEW rows, IsFrame(rows), NEW f, NEW g, NEW h,
           \A r \in DOMAIN rows : f[r] \in Int /\ g[r] \in Int /\ h[r] = f[r] + g[r]
    PROVE  /\ Search!Sum(rows, h) = Search!Sum(rows, f) + Search!Sum(rows, g)
           /\ Search!Sum(rows, f) \in Int /\ Search!Sum(rows, g) \in Int
<1> DEFINE fs == [r \in DOMAIN rows |-> rows[r] * f[r]]
           gs == [r \in DOMAIN rows |-> rows[r] * g[r]]
           hs == [r \in DOMAIN rows |-> rows[r] * h[r]]
<1>1. \A r \in DOMAIN rows : fs[r] \in Int /\ gs[r] \in Int /\ hs[r] = fs[r] + gs[r]
  <2> TAKE r \in DOMAIN rows
  <2>1. rows[r] \in Int /\ f[r] \in Int /\ g[r] \in Int /\ h[r] = f[r] + g[r]
    BY DEF IsFrame
  <2>2. rows[r] * h[r] = rows[r] * f[r] + rows[r] * g[r]
    BY <2>1
  <2>3. rows[r] * f[r] \in Int /\ rows[r] * g[r] \in Int
    BY <2>1
  <2> QED
    BY <2>2, <2>3
<1>2. /\ Search!Sum(rows, f) = SumOn(fs, DOMAIN rows)
      /\ Search!Sum(rows, g) = SumOn(gs, DOMAIN rows)
      /\ Search!Sum(rows, h) = SumOn(hs, DOMAIN rows)
  BY SumOfFrame
<1> HIDE DEF fs, gs, hs
<1>3. IsFiniteSet(DOMAIN rows)
  BY DEF IsFrame
<1>4. SumOn(hs, DOMAIN rows) = SumOn(fs, DOMAIN rows) + SumOn(gs, DOMAIN rows)
  BY <1>1, <1>3, SumPlus
<1>5. SumOn(fs, DOMAIN rows) \in Int /\ SumOn(gs, DOMAIN rows) \in Int
  <2>1. \A r \in DOMAIN rows : fs[r] \in Int
    BY <1>1
  <2>2. \A r \in DOMAIN rows : gs[r] \in Int
    BY <1>1
  <2> QED
    BY <1>3, <2>1, <2>2, SumIsInt
<1> QED
  BY <1>2, <1>4, <1>5

LEMMA EqualSums ==
    ASSUME NEW rows, NEW f, NEW g, \A r \in DOMAIN rows : f[r] = g[r]
    PROVE  Search!Sum(rows, f) = Search!Sum(rows, g)
<1>1. [r \in DOMAIN rows |-> rows[r] * f[r]] = [r \in DOMAIN rows |-> rows[r] * g[r]]
  OBVIOUS
<1> QED
  BY <1>1, SumOfFrame

\* The thresholds of a position of the slider.
LEMMA FollowFacts ==
    ASSUME NEW d \in Search!Slider
    PROVE  /\ Search!Follow(d).decline = d /\ Search!Follow(d).verify \in Int
           /\ Search!Follow(d).verify < d /\ d \in Int
<1>1. d \in Int /\ d >= 500
  BY DEF Search!Slider
<1>2. (d * 55) \div 100 \in Int /\ d - 100 \in Int
  BY <1>1
<1> QED
  BY <1>1, <1>2 DEF Search!Follow

\* What the simulator shows of a row: its action is that of a response, its
\* cost what that action realizes, and both parts of the breakdown add up.
LEMMA SimulatedRow ==
    ASSUME NEW r \in Search!Scored, NEW t, t.verify \in Int, t.decline \in Int
    PROVE  /\ Search!SimulatedAction(r.p, t) = Search!ActionFor(r.p, t)
           /\ Search!SimulatedAction(r.p, t) \in Search!Actions
           /\ Search!SimulatedCost(r, t) = Search!RealizedCost(Search!ActionFor(r.p, t), r)
           /\ Search!SimulatedMissed(r, t) \in Int /\ Search!SimulatedFriction(r, t) \in Int
           /\ Search!SimulatedCaught(r, t) \in Int
           /\ Search!SimulatedCost(r, t)
                = Search!SimulatedMissed(r, t) + Search!SimulatedFriction(r, t)
           /\ Search!SimulatedCaught(r, t) + Search!SimulatedMissed(r, t)
                = IF r.fraud THEN Search!Amount(r) ELSE 0
<1> DEFINE a == Search!SimulatedAction(r.p, t)
<1>1. a = Search!ActionFor(r.p, t) /\ a \in {"approve", "verify", "decline"}
  BY Worths, OneAction DEF Search!SimulatedAction
<1>2. Search!SimulatedCost(r, t) = Search!RealizedCost(a, r)
  <2>1. Search!SimulatedCost(r, t)
          = [approve |-> IF r.fraud THEN Search!Amount(r) ELSE 0,
             verify  |-> Search!VerifyOperationCost
                           + (IF r.fraud THEN Search!MissedByVerify(Search!Amount(r))
                                         ELSE Search!Abandoned(Search!Friction(r))),
             decline |-> IF r.fraud THEN 0 ELSE Search!Friction(r)][a]
    BY DEF Search!SimulatedCost
  <2> HIDE DEF a
  <2> QED
    BY <1>1, <2>1 DEF Search!RealizedCost
<1>3. /\ Search!SimulatedMissed(r, t) \in Int /\ Search!SimulatedFriction(r, t) \in Int
      /\ Search!SimulatedCaught(r, t) \in Int
      /\ Search!RealizedCost(a, r) = Search!SimulatedMissed(r, t) + Search!SimulatedFriction(r, t)
      /\ Search!SimulatedCaught(r, t) + Search!SimulatedMissed(r, t)
           = IF r.fraud THEN Search!Amount(r) ELSE 0
  <2>1. CASE a = "approve"
    BY <2>1, Worths DEF Search!RealizedCost, Search!SimulatedMissed, Search!SimulatedFriction,
       Search!SimulatedCaught
  <2>2. CASE a = "verify"
    BY <2>2, Worths DEF Search!RealizedCost, Search!SimulatedMissed, Search!SimulatedFriction,
       Search!SimulatedCaught
  <2>3. CASE a = "decline"
    BY <2>3, Worths DEF Search!RealizedCost, Search!SimulatedMissed, Search!SimulatedFriction,
       Search!SimulatedCaught
  <2> QED
    BY <1>1, <2>1, <2>2, <2>3
<1> QED
  BY <1>1, <1>2, <1>3 DEF Search!Actions

\* The simulator's breakdown of a frame, at one position.
LEMMA BreakdownAddsUp ==
    ASSUME NEW rows, IsFrame(rows), NEW d \in Search!Slider
    PROVE  LET sim == Search!Simulate(rows, d)
           IN  /\ sim.total = sim.missed + sim.friction
               /\ sim.caught + sim.missed
                    = Search!Sum(rows, [r \in DOMAIN rows |->
                                          IF r.fraud THEN Search!Amount(r) ELSE 0])
               /\ sim.count["approve"] + sim.count["verify"] + sim.count["decline"]
                    = Search!SumFunction(rows)
               /\ sim.verify < d
               /\ sim.total
                    = Search!Sum(rows, [r \in DOMAIN rows |->
                        Search!RealizedCost(Search!ActionFor(r.p, Search!Follow(d)), r)])
<1> DEFINE t == Search!Follow(d)
           act(r) == Search!SimulatedAction(r.p, t)
           lost == [r \in DOMAIN rows |-> Search!SimulatedMissed(r, t)]
           friction == [r \in DOMAIN rows |-> Search!SimulatedFriction(r, t)]
           caught == [r \in DOMAIN rows |-> Search!SimulatedCaught(r, t)]
           taking(a) == [r \in DOMAIN rows |-> IF act(r) = a THEN 1 ELSE 0]
           sim == Search!Simulate(rows, d)
           real == [r \in DOMAIN rows |-> Search!RealizedCost(Search!ActionFor(r.p, t), r)]
           cost == [r \in DOMAIN rows |-> Search!SimulatedCost(r, t)]
           fraud == [r \in DOMAIN rows |-> IF r.fraud THEN Search!Amount(r) ELSE 0]
<1>1. /\ sim.verify = t.verify /\ sim.total = Search!Sum(rows, cost)
      /\ sim.missed = Search!Sum(rows, lost) /\ sim.friction = Search!Sum(rows, friction)
      /\ sim.caught = Search!Sum(rows, caught)
      /\ sim.count = [a \in Search!Actions |-> Search!Sum(rows, taking(a))]
  BY DEF Search!Simulate
<1>2. t.decline = d /\ t.verify \in Int /\ t.verify < d /\ d \in Int
  BY FollowFacts
<1> HIDE DEF t, sim
<1>3. \A r \in DOMAIN rows :
        /\ act(r) \in {"approve", "verify", "decline"}
        /\ cost[r] = real[r] /\ cost[r] = lost[r] + friction[r]
        /\ lost[r] \in Int /\ friction[r] \in Int /\ caught[r] \in Int
        /\ fraud[r] = caught[r] + lost[r]
  BY <1>2, SimulatedRow DEF IsFrame, Search!Actions
<1>4. Search!Sum(rows, cost) = Search!Sum(rows, real)
  <2>1. \A r \in DOMAIN rows : cost[r] = real[r]
    BY <1>3
  <2> HIDE DEF cost, real
  <2> QED
    BY <2>1, EqualSums
<1>5. Search!Sum(rows, cost) = Search!Sum(rows, lost) + Search!Sum(rows, friction)
  <2>1. \A r \in DOMAIN rows : lost[r] \in Int /\ friction[r] \in Int /\ cost[r] = lost[r] + friction[r]
    BY <1>3
  <2> HIDE DEF lost, friction, cost
  <2> QED
    BY <2>1, FrameSums
<1>6. Search!Sum(rows, fraud) = Search!Sum(rows, caught) + Search!Sum(rows, lost)
  <2>1. \A r \in DOMAIN rows : caught[r] \in Int /\ lost[r] \in Int /\ fraud[r] = caught[r] + lost[r]
    BY <1>3
  <2> HIDE DEF lost, caught, fraud
  <2> QED
    BY <2>1, FrameSums
<1>7. Search!Sum(rows, taking("approve")) + Search!Sum(rows, taking("verify"))
        + Search!Sum(rows, taking("decline")) = Search!SumFunction(rows)
  <2> DEFINE a == taking("approve")
             v == taking("verify")
             e == taking("decline")
             av == [r \in DOMAIN rows |-> a[r] + v[r]]
             one == [r \in DOMAIN rows |-> 1]
  <2>1. \A r \in DOMAIN rows : /\ a[r] \in Int /\ v[r] \in Int /\ av[r] = a[r] + v[r]
                               /\ av[r] \in Int /\ e[r] \in Int /\ one[r] = av[r] + e[r]
    <3> TAKE r \in DOMAIN rows
    <3>1. act(r) \in {"approve", "verify", "decline"}
      BY <1>3
    <3> HIDE DEF act
    <3> QED
      BY <3>1
  <2>2. Search!SumFunction(rows) = Search!Sum(rows, one)
    <3>1. \A r \in DOMAIN rows : rows[r] \in Int
      BY DEF IsFrame
    <3> DEFINE k == [r \in DOMAIN rows |-> rows[r] * one[r]]
    <3>2. \A r \in DOMAIN rows : k[r] = rows[r] /\ k[r] \in Int
      BY <3>1
    <3>3. Search!Sum(rows, one) = SumOn(k, DOMAIN rows)
      BY SumOfFrame
    <3>4. Search!SumFunction(rows) = SumOn(rows, DOMAIN rows)
      BY DEF Search!SumFunction, SumOn
    <3>5. SumOn(k, DOMAIN rows) = SumOn(rows, DOMAIN rows)
      <4> HIDE DEF k
      <4> QED
        BY <3>1, <3>2, SumsCompare DEF IsFrame
    <3> QED
      BY <3>3, <3>4, <3>5
  <2> HIDE DEF a, v, e, av, one
  <2>3. Search!Sum(rows, av) = Search!Sum(rows, a) + Search!Sum(rows, v)
    BY <2>1, FrameSums
  <2>4. Search!Sum(rows, one) = Search!Sum(rows, av) + Search!Sum(rows, e)
    BY <2>1, FrameSums
  <2> QED
    BY <2>2, <2>3, <2>4 DEF a, v, e
<1> HIDE DEF lost, friction, caught, taking, real, cost, fraud
<1>8. /\ sim.count["approve"] = Search!Sum(rows, taking("approve"))
      /\ sim.count["verify"] = Search!Sum(rows, taking("verify"))
      /\ sim.count["decline"] = Search!Sum(rows, taking("decline"))
  BY <1>1 DEF Search!Actions
<1> QED
  BY <1>1, <1>2, <1>4, <1>5, <1>6, <1>7, <1>8 DEF sim, t, real, fraud

-----------------------------------------------------------------------------
(* The grid search. *)

\* Frames, the frames of segments, and the pairs of the grid.
LEMMA SegmentFrames ==
    ASSUME frame \in Frames
    PROVE  /\ \A c \in Categories : IsFrame(frame[c]) /\ Search!Rows(c) = frame[c]
           /\ IsFrame(Search!Rows(Global))
<1>1. /\ IsFiniteSet(Categories) /\ Global \notin Categories /\ DOMAIN frame = Categories
      /\ \A c \in Categories : /\ IsFiniteSet(DOMAIN frame[c]) /\ DOMAIN frame[c] \subseteq Search!Scored
                               /\ frame[c] \in [DOMAIN frame[c] -> Nat]
  <2>1. Search!IsFiniteSet(Categories) /\ Global \notin Categories
    BY TrainingAssumed DEF Search!TrainingAssumption
  <2>2. \A f \in Frames :
          /\ DOMAIN f = Categories
          /\ \A c \in Categories : /\ Search!IsFiniteSet(DOMAIN f[c])
                                  /\ DOMAIN f[c] \subseteq Search!Scored
                                  /\ f[c] \in [DOMAIN f[c] -> Nat]
    BY TrainingAssumed, Zenon DEF Search!TrainingAssumption
  <2> QED
    BY <2>1, <2>2 DEF IsFiniteSet, Search!IsFiniteSet
<1>2. \A c \in Categories : IsFrame(frame[c]) /\ Search!Rows(c) = frame[c]
  BY <1>1 DEF IsFrame, Search!Rows
<1> DEFINE D == {DOMAIN frame[c] : c \in Categories}
           U == UNION D
           n(r) == [c \in Categories |-> IF r \in DOMAIN frame[c] THEN frame[c][r] ELSE 0]
<1>3. Search!Rows(Global) = [r \in U |-> Search!SumFunction(n(r))]
  BY DEF Search!Rows
<1>4. IsFiniteSet(U)
  <2> DEFINE d == [c \in Categories |-> DOMAIN frame[c]]
  <2>1. IsFiniteSet(D)
    <3>1. d \in Surjection(Categories, D)
      BY DEF Surjection
    <3> HIDE DEF d, D
    <3> QED
      BY <1>1, <3>1, FS_Surjection
  <2>2. \A e \in D : IsFiniteSet(e)
    BY <1>1
  <2> HIDE DEF D
  <2> QED
    BY <2>1, <2>2, FS_UNION
<1>5. U \subseteq Search!Scored
  BY <1>1
<1>6. ASSUME NEW r \in U PROVE Search!SumFunction(n(r)) \in Nat
  <2> DEFINE k == n(r)
  <2>1. DOMAIN k = Categories /\ \A c \in Categories : k[c] \in Nat
    BY <1>1
  <2> HIDE DEF k
  <2>2. SumOn(k, Categories) \in Nat
    BY <1>1, <2>1, SumIsNat
  <2>3. Search!SumFunction(k) = SumOn(k, Categories)
    BY <2>1 DEF Search!SumFunction, SumOn
  <2> QED
    BY <2>2, <2>3 DEF k
<1> QED
  <2> HIDE DEF U, n
  <2> QED
    BY <1>2, <1>3, <1>4, <1>5, <1>6 DEF IsFrame

LEMMA GridFacts ==
    /\ Len(VerifyGrid) \in Nat /\ DOMAIN VerifyGrid = 1 .. Len(VerifyGrid)
    /\ Len(DeclineGrid) \in Nat /\ DOMAIN DeclineGrid = 1 .. Len(DeclineGrid)
    /\ \A i \in DOMAIN VerifyGrid : VerifyGrid[i] \in Nat
    /\ \A i \in DOMAIN DeclineGrid : DeclineGrid[i] \in Nat
    /\ Search!Ordered # {} /\ DOMAIN DeclineGrid # {}
<1>1. PICK i \in DOMAIN VerifyGrid, j \in DOMAIN DeclineGrid : VerifyGrid[i] < DeclineGrid[j]
  BY TrainingAssumed DEF Search!TrainingAssumption
<1>2. <<i, j>> \in Search!Ordered
  BY <1>1 DEF Search!Ordered
<1>3. VerifyGrid \in Seq(Nat) /\ DeclineGrid \in Seq(Nat)
  BY TrainingAssumed DEF Search!TrainingAssumption
<1> QED
  BY <1>1, <1>2, <1>3

\* Whatever the rows, a pair of the grid costs a number that is not negative.
LEMMA PairCosts ==
    ASSUME NEW rows, IsFrame(rows), NEW i \in DOMAIN VerifyGrid, NEW j \in DOMAIN DeclineGrid
    PROVE  Search!Total(rows, Search!Pair(i, j)) \in Nat
<1>1. Search!Pair(i, j).verify \in Int /\ Search!Pair(i, j).decline \in Int
  BY GridFacts DEF Search!Pair
<1> QED
  BY <1>1, TotalOfFrame

\* The sweep prices every row, under every pair, as a response would.
LEMMA SweepPrices == frame \in Frames => Search!SweepMatchesScoring
<1> SUFFICES ASSUME frame \in Frames,
                    NEW c \in Categories, NEW i \in DOMAIN VerifyGrid, NEW j \in DOMAIN DeclineGrid,
                    NEW r \in DOMAIN frame[c]
             PROVE  Search!Chosen(r, Search!Pair(i, j))
                      = Search!RealizedCost(Search!ActionFor(r.p, Search!Pair(i, j)), r)
  BY DEF Search!SweepMatchesScoring
<1>1. Search!Pair(i, j).verify \in Int /\ Search!Pair(i, j).decline \in Int
  BY GridFacts DEF Search!Pair
<1>2. r \in Search!Scored
  BY SegmentFrames DEF IsFrame
<1> QED
  BY <1>1, <1>2, ChosenIsRealized

LEMMA SimulationAddsUp == frame \in Frames => Search!SimulationReconciles
<1> SUFFICES ASSUME frame \in Frames PROVE Search!SimulationReconciles
  OBVIOUS
<1>1. \A c \in Categories : IsFrame(frame[c])
  BY SegmentFrames
<1> QED
  BY <1>1, BreakdownAddsUp DEF Search!SimulationReconciles

\* The other parts of the page leave the search alone.
LEMMA SearchRuns == SpecAll => Search!Spec
<1>1. InitAll => Search!Init
  BY DEF InitAll
<1>2. [NextAll]_all => [Search!Next]_Search!vars
  BY DEF NextAll, OfHealth, OfCache, OfDrivers, OfSearch, all, search, Search!vars
<1> QED
  BY <1>1, <1>2, PTL DEF SpecAll, Search!Spec

\* A step of the loops passes one position of the grid.
LEMMA Passing ==
    ASSUME vi \in 1 .. Len(VerifyGrid), di \in 1 .. Len(DeclineGrid), Search!Advances
    PROVE  /\ vi' \in 1 .. Len(VerifyGrid) + 1 /\ di' \in 1 .. Len(DeclineGrid)
           /\ Search!Tried' = Search!Tried \cup (IF Search!Unordered(Search!Pair(vi, di))
                                                   THEN {} ELSE {<<vi, di>>})
           /\ \A x \in Search!Tried : Search!Earlier(x, <<vi, di>>) /\ x # <<vi, di>>
<1>1. vi \in Nat /\ di \in Nat /\ vi \in DOMAIN VerifyGrid /\ di \in DOMAIN DeclineGrid
  BY GridFacts
<1>2. vi' \in 1 .. Len(VerifyGrid) + 1 /\ di' \in 1 .. Len(DeclineGrid)
  BY GridFacts DEF Search!Advances
<1> DEFINE Passed(x) == x[1] < vi \/ (x[1] = vi /\ x[2] < di)
           PassedNext(x) == x[1] < vi' \/ (x[1] = vi' /\ x[2] < di')
           G == (DOMAIN VerifyGrid) \X (DOMAIN DeclineGrid)
<1>3. \A x \in G : x[1] \in Nat /\ x[2] \in Nat /\ x[2] >= 1 /\ x[2] <= Len(DeclineGrid)
                   /\ x = <<x[1], x[2]>>
  BY GridFacts
<1>4. \A x \in G : PassedNext(x) <=> Passed(x) \/ x = <<vi, di>>
  <2> SUFFICES ASSUME NEW x \in G PROVE PassedNext(x) <=> Passed(x) \/ (x[1] = vi /\ x[2] = di)
    BY <1>1, <1>3
  <2>1. x[1] \in Nat /\ x[2] \in Nat /\ x[2] >= 1 /\ x[2] <= Len(DeclineGrid)
    BY <1>3
  <2>2. di < Len(DeclineGrid) \/ di = Len(DeclineGrid)
    <3>1. Len(DeclineGrid) \in Nat
      BY GridFacts
    <3> QED
      BY <3>1
  <2>3. CASE di < Len(DeclineGrid)
    <3>1. vi' = vi /\ di' = di + 1
      BY <2>3 DEF Search!Advances
    <3> QED
      BY <1>1, <2>1, <3>1
  <2>4. CASE di = Len(DeclineGrid)
    <3>1. vi' = vi + 1 /\ di' = 1
      BY <1>1, <2>4 DEF Search!Advances
    <3> QED
      BY <1>1, <2>1, <2>4, <3>1
  <2> QED
    BY <2>2, <2>3, <2>4
<1>5. Search!Unordered(Search!Pair(vi, di)) <=> ~ (VerifyGrid[vi] < DeclineGrid[di])
  BY <1>1, GridFacts DEF Search!Unordered, Search!Pair
<1>6. /\ Search!Tried = {x \in G : Passed(x) /\ VerifyGrid[x[1]] < DeclineGrid[x[2]]}
      /\ Search!Tried' = {x \in G : PassedNext(x) /\ VerifyGrid[x[1]] < DeclineGrid[x[2]]}
  BY DEF Search!Tried
<1>7. <<vi, di>> \in G
  BY <1>1
<1>8. Search!Tried' = Search!Tried \cup (IF Search!Unordered(Search!Pair(vi, di))
                                           THEN {} ELSE {<<vi, di>>})
  <2> HIDE DEF Passed, PassedNext, G
  <2>1. \A x : x \in Search!Tried' <=> x \in Search!Tried
                 \/ (x = <<vi, di>> /\ VerifyGrid[vi] < DeclineGrid[di])
    BY <1>4, <1>6, <1>7
  <2> QED
    BY <1>5, <2>1
<1>9. \A x \in Search!Tried : Search!Earlier(x, <<vi, di>>) /\ x # <<vi, di>>
  BY <1>1, <1>3, <1>6 DEF Search!Earlier
<1> QED
  BY <1>2, <1>8, <1>9

\* The loop invariant of a sweep, whose best pair is the first of the cheapest.
LEMMA SweepInit == Search!Init => Search!SweepInv
<1> SUFFICES ASSUME Search!Init PROVE Search!SweepInv
  OBVIOUS
<1>1. vi = 1 /\ di = 1 /\ segment = Global /\ best = Search!Unset /\ frame \in Frames
  BY DEF Search!Init
<1>2. 1 \in 1 .. Len(VerifyGrid) + 1 /\ 1 \in 1 .. Len(DeclineGrid)
  BY GridFacts
<1>3. Search!Tried = {}
  <2>1. \A i \in DOMAIN VerifyGrid : i \in Nat /\ ~ (i < 1)
    BY GridFacts
  <2>2. \A j \in DOMAIN DeclineGrid : j \in Nat /\ ~ (j < 1)
    BY GridFacts
  <2> QED
    BY <1>1, <2>1, <2>2 DEF Search!Tried
<1> QED
  BY <1>1, <1>2, <1>3 DEF Search!SweepInv, Search!BestIsFirstMinimum

\* A sweep that starts has tried nothing.
LEMMA RestartKeeps ==
    ASSUME NEW rest, rest \subseteq Search!Present, Search!Restarts(rest), UNCHANGED frame,
           Search!SweepInv
    PROVE  Search!SweepInv'
<1>1. /\ segment' \in {Search!Done} \cup Search!Present
      /\ vi' = 1 /\ di' = 1 /\ best' = Search!Unset
  BY DEF Search!Restarts
<1>2. 1 \in 1 .. Len(VerifyGrid) + 1 /\ 1 \in 1 .. Len(DeclineGrid)
  BY GridFacts
<1>3. Search!Tried' = {}
  <2>1. \A i \in DOMAIN VerifyGrid : i \in Nat /\ ~ (i < 1)
    BY GridFacts
  <2>2. \A j \in DOMAIN DeclineGrid : j \in Nat /\ ~ (j < 1)
    BY GridFacts
  <2> QED
    BY <1>1, <2>1, <2>2 DEF Search!Tried
<1>4. Search!Present' = Search!Present
  BY DEF Search!Present
<1>5. frame' \in Frames
  BY DEF Search!SweepInv
<1> QED
  BY <1>1, <1>2, <1>3, <1>4, <1>5 DEF Search!SweepInv, Search!BestIsFirstMinimum

\* What a pair cost does not depend on the loop.
LEMMA CostStays ==
    ASSUME UNCHANGED <<frame, segment>>
    PROVE  \A x : Search!CostAt(x)' = Search!CostAt(x)
BY DEF Search!CostAt, Search!Rows, Search!Total, Search!Sum

\* Every position tried costs a number that is not negative.
LEMMA CostsAreNumbers ==
    ASSUME Search!SweepInv, segment # Search!Done
    PROVE  \A i \in DOMAIN VerifyGrid, j \in DOMAIN DeclineGrid : Search!CostAt(<<i, j>>) \in Nat
<1>1. IsFrame(Search!Rows(segment))
  <2>1. frame \in Frames /\ (segment = Global \/ segment \in Categories)
    BY DEF Search!SweepInv, Search!Present
  <2> QED
    BY <2>1, SegmentFrames
<1> QED
  BY <1>1, PairCosts DEF Search!CostAt

LEMMA SweepStep ==
    ASSUME Search!SweepInv, [Search!Next]_Search!vars
    PROVE  Search!SweepInv'
<1>1. CASE Search!SkipsPair
  <2>1. /\ segment # Search!Done /\ vi <= Len(VerifyGrid) /\ Search!Unordered(Search!Pair(vi, di))
        /\ Search!Advances /\ UNCHANGED <<frame, segment, best>>
    BY <1>1 DEF Search!SkipsPair, Search!Sweeping
  <2>2. vi \in 1 .. Len(VerifyGrid) /\ di \in 1 .. Len(DeclineGrid)
    BY <2>1, GridFacts DEF Search!SweepInv
  <2>3. /\ vi' \in 1 .. Len(VerifyGrid) + 1 /\ di' \in 1 .. Len(DeclineGrid)
        /\ Search!Tried' = Search!Tried
    BY <2>1, <2>2, Passing
  <2>4. Search!Present' = Search!Present
    BY <2>1 DEF Search!Present
  <2>5. Search!BestIsFirstMinimum'
    BY <2>1, <2>3, CostStays DEF Search!SweepInv, Search!BestIsFirstMinimum, Search!Earlier
  <2> QED
    BY <2>1, <2>3, <2>4, <2>5 DEF Search!SweepInv
<1>2. CASE Search!TriesPair
  <2> DEFINE here == <<vi, di>>
             total == Search!CostAt(here)
  <2>1. /\ segment # Search!Done /\ vi <= Len(VerifyGrid) /\ ~ Search!Unordered(Search!Pair(vi, di))
        /\ Search!Advances /\ UNCHANGED <<frame, segment>>
        /\ best' = IF Search!Beats(total)
                     THEN [verify |-> VerifyGrid[vi], decline |-> DeclineGrid[di], cost |-> total]
                     ELSE best
    BY <1>2 DEF Search!TriesPair, Search!Sweeping, Search!CostAt, Search!Pair
  <2>2. vi \in 1 .. Len(VerifyGrid) /\ di \in 1 .. Len(DeclineGrid)
        /\ vi \in DOMAIN VerifyGrid /\ di \in DOMAIN DeclineGrid
    BY <2>1, GridFacts DEF Search!SweepInv
  <2>3. /\ vi' \in 1 .. Len(VerifyGrid) + 1 /\ di' \in 1 .. Len(DeclineGrid)
        /\ Search!Tried' = Search!Tried \cup {here}
        /\ \A x \in Search!Tried : Search!Earlier(x, here) /\ x # here
    BY <2>1, <2>2, Passing
  <2>4. total \in Nat /\ \A x \in Search!Tried : Search!CostAt(x) \in Nat
    <3>1. \A x \in Search!Tried : x = <<x[1], x[2]>> /\ x[1] \in DOMAIN VerifyGrid /\ x[2] \in DOMAIN DeclineGrid
      BY DEF Search!Tried
    <3> QED
      BY <2>1, <2>2, <3>1, CostsAreNumbers
  <2>5. /\ \A x : Search!CostAt(x)' = Search!CostAt(x)
        /\ \A x, y : Search!Earlier(x, y)' = Search!Earlier(x, y)
    BY <2>1, CostStays DEF Search!Earlier
  <2> HIDE DEF here, total
  <2>6. Search!BestIsFirstMinimum'
    <3>1. CASE Search!Tried = {} /\ best = Search!Unset
      <4>1. best' = [verify |-> VerifyGrid[here[1]], decline |-> DeclineGrid[here[2]], cost |-> total]
        BY <2>1, <3>1 DEF Search!Beats, Search!Unset, here
      <4>2. Search!Tried' = {here}
        BY <2>3, <3>1
      <4> QED
        BY <2>5, <4>1, <4>2 DEF Search!BestIsFirstMinimum, total
    <3>2. ASSUME NEW x \in Search!Tried,
                 best = [verify |-> VerifyGrid[x[1]], decline |-> DeclineGrid[x[2]],
                         cost |-> Search!CostAt(x)],
                 \A y \in Search!Tried \ {x} :
                   Search!CostAt(x) < Search!CostAt(y)
                   \/ (Search!CostAt(x) = Search!CostAt(y) /\ Search!Earlier(x, y))
          PROVE  Search!BestIsFirstMinimum'
      <4>1. Search!CostAt(x) \in Nat /\ best.cost = Search!CostAt(x)
        BY <2>4, <3>2
      <4>2. Search!Beats(total) <=> total < Search!CostAt(x)
        BY <2>4, <4>1 DEF Search!Beats, Search!Infinity
      <4>3. CASE total < Search!CostAt(x)
        <5>1. best' = [verify |-> VerifyGrid[here[1]], decline |-> DeclineGrid[here[2]], cost |-> total]
          BY <2>1, <4>2, <4>3 DEF here
        <5>2. \A y \in Search!Tried' \ {here} : total < Search!CostAt(y)
          <6>1. \A y \in Search!Tried : Search!CostAt(x) <= Search!CostAt(y)
            BY <2>4, <3>2
          <6> QED
            BY <2>3, <2>4, <4>1, <4>3, <6>1
        <5> QED
          BY <2>3, <2>5, <5>1, <5>2 DEF Search!BestIsFirstMinimum, total
      <4>4. CASE ~ (total < Search!CostAt(x))
        <5>1. best' = best
          BY <2>1, <4>2, <4>4
        <5>2. Search!CostAt(x) < total \/ (Search!CostAt(x) = total /\ Search!Earlier(x, here))
          BY <2>3, <2>4, <4>1, <4>4
        <5>3. \A y \in Search!Tried' \ {x} :
                   Search!CostAt(x) < Search!CostAt(y)
                   \/ (Search!CostAt(x) = Search!CostAt(y) /\ Search!Earlier(x, y))
          BY <2>3, <3>2, <5>2 DEF total
        <5> QED
          BY <2>3, <2>5, <3>2, <5>1, <5>3 DEF Search!BestIsFirstMinimum
      <4> QED
        BY <4>3, <4>4
    <3> QED
      BY <2>1, <3>1, <3>2 DEF Search!SweepInv, Search!BestIsFirstMinimum
  <2>7. Search!Present' = Search!Present
    BY <2>1 DEF Search!Present
  <2> QED
    BY <2>1, <2>3, <2>6, <2>7 DEF Search!SweepInv
<1>3. CASE Search!EndsSweep \/ Search!FallsBack
  <2> DEFINE rest == Search!Present \ (DOMAIN pairs \cup {segment})
  <2>1. Search!Restarts(rest) /\ UNCHANGED frame
    BY <1>3 DEF Search!EndsSweep, Search!FallsBack, Search!Keeps
  <2> QED
    BY <2>1, RestartKeeps
<1>4. CASE UNCHANGED Search!vars
  <2>1. UNCHANGED <<frame, segment, vi, di, best, pairs>>
    BY <1>4 DEF Search!vars
  <2>2. Search!Tried' = Search!Tried /\ Search!Present' = Search!Present
    BY <2>1 DEF Search!Tried, Search!Present
  <2> QED
    BY <2>1, <2>2, CostStays DEF Search!SweepInv, Search!BestIsFirstMinimum, Search!Earlier
<1> QED
  BY <1>1, <1>2, <1>3, <1>4 DEF Search!Next

\* The best pair of a sweep is the cheapest pair tried, and the first of those.
THEOREM FirstMinimumFound == SpecAll => []BestIsFirstMinimum
<1>1. Search!Init => Search!SweepInv
  BY SweepInit
<1>2. Search!SweepInv /\ [Search!Next]_Search!vars => Search!SweepInv'
  BY SweepStep
<1>3. Search!SweepInv => BestIsFirstMinimum
  BY DEF Search!SweepInv, BestIsFirstMinimum
<1> QED
  BY <1>1, <1>2, <1>3, SearchRuns, PTL DEF Search!Spec

\* What the sweep minimizes is what responses realize, for every frame.
THEOREM SweepIsScoring == SpecAll => []SweepMatchesScoring
<1>1. Search!Init => Search!SweepInv
  BY SweepInit
<1>2. Search!SweepInv /\ [Search!Next]_Search!vars => Search!SweepInv'
  BY SweepStep
<1>3. Search!SweepInv => SweepMatchesScoring
  BY SweepPrices DEF Search!SweepInv, SweepMatchesScoring
<1> QED
  BY <1>1, <1>2, <1>3, SearchRuns, PTL DEF Search!Spec

\* The dashboard's breakdown adds up at every position of its slider, for
\* every frame.
THEOREM SimulationAdds == SpecAll => []SimulationReconciles
<1>1. Search!Init => Search!SweepInv
  BY SweepInit
<1>2. Search!SweepInv /\ [Search!Next]_Search!vars => Search!SweepInv'
  BY SweepStep
<1>3. Search!SweepInv => SimulationReconciles
  BY SimulationAddsUp DEF Search!SweepInv, SimulationReconciles
<1> QED
  BY <1>1, <1>2, <1>3, SearchRuns, PTL DEF Search!Spec

-----------------------------------------------------------------------------
(* The thresholds of the categories. *)

\* Segments are told apart, and the categories present are categories.
LEMMA SegmentFacts ==
    /\ Global \notin Categories /\ Search!Done \notin Categories /\ Global # Search!Done
    /\ Search!Present \subseteq Categories /\ IsFiniteSet(Categories)
<1>1. Search!IsFiniteSet(Categories) /\ Global \notin Categories \cup {Search!Done}
      /\ Search!Done \notin Categories
  BY TrainingAssumed DEF Search!TrainingAssumption
<1> QED
  BY <1>1 DEF Search!Present, IsFiniteSet, Search!IsFiniteSet

\* A segment's pair is kept, and the next sweep is of a segment without one.
LEMMA KeepsPairs ==
    ASSUME Search!SweepInv, Search!PairsInv, segment # Search!Done,
           NEW t, Search!Keeps(t), \E x \in Search!Ordered : t = Search!Pair(x[1], x[2]),
           segment # Global =>
             \/ t = pairs[Global]
             \/ \A x \in Search!Ordered :
                  Search!Total(frame[segment], t) <= Search!Total(frame[segment], Search!Pair(x[1], x[2]))
    PROVE  Search!PairsInv'
<1> DEFINE kept == DOMAIN pairs \cup {segment}
           rest == Search!Present \ kept
<1>1. /\ pairs' = [s \in kept |-> IF s = segment THEN t ELSE pairs[s]]
      /\ segment' \in IF rest = {} THEN {Search!Done} ELSE rest
      /\ frame' = frame
  BY DEF Search!Keeps, Search!Restarts
<1>2. segment \in {Global} \cup Search!Present
  BY DEF Search!SweepInv
<1>3. /\ segment \notin DOMAIN pairs /\ DOMAIN pairs \subseteq {Global} \cup Search!Present
      /\ Global \in DOMAIN pairs \/ (segment = Global /\ DOMAIN pairs = {})
  BY DEF Search!PairsInv
<1>4. DOMAIN pairs' = kept
  BY <1>1
<1>5. Search!Present' = Search!Present /\ Search!Ordered' = Search!Ordered
  BY <1>1 DEF Search!Present, Search!Ordered
<1>6. segment' \notin kept /\ kept \subseteq {Global} \cup Search!Present /\ Global \in kept
  BY <1>1, <1>2, <1>3, SegmentFacts
<1>7. segment' = Search!Done => Search!Present \subseteq kept
  BY <1>1, SegmentFacts
<1>8. ASSUME NEW s \in kept
      PROVE  \E x \in Search!Ordered : pairs'[s] = Search!Pair(x[1], x[2])
  BY <1>1 DEF Search!PairsInv
<1>9. ASSUME NEW c \in kept \ {Global}
      PROVE  \/ pairs'[c] = pairs'[Global]
             \/ \A x \in Search!Ordered :
                  Search!Total(frame[c], pairs'[c]) <= Search!Total(frame[c], Search!Pair(x[1], x[2]))
  <2>1. CASE c = segment
    <3>1. pairs'[c] = t /\ pairs'[Global] = pairs[Global]
      BY <1>1, <1>3, <2>1
    <3> QED
      BY <2>1, <3>1
  <2>2. CASE c # segment
    <3>1. c \in DOMAIN pairs \ {Global} /\ Global \in DOMAIN pairs /\ segment # Global
      BY <1>3, <2>2
    <3>2. pairs'[c] = pairs[c] /\ pairs'[Global] = pairs[Global]
      BY <1>1, <2>2, <3>1
    <3> QED
      BY <3>1, <3>2 DEF Search!PairsInv, Search!CheapestFor
  <2> QED
    BY <2>1, <2>2
<1>10. \A x : Search!Pair(x[1], x[2])' = Search!Pair(x[1], x[2])
  BY DEF Search!Pair
<1> HIDE DEF kept, rest
<1> QED
  BY <1>1, <1>4, <1>5, <1>6, <1>7, <1>8, <1>9, <1>10 DEF Search!PairsInv, Search!CheapestFor

\* Every pair kept is one of the grid, the cheapest for its category or the
\* global one.
LEMMA PairsInit == Search!Init => Search!PairsInv
BY SegmentFacts DEF Search!Init, Search!PairsInv

LEMMA PairsStep ==
    ASSUME Search!SweepInv, Search!PairsInv, [Search!Next]_Search!vars
    PROVE  Search!PairsInv'
<1>1. CASE Search!SkipsPair \/ Search!TriesPair \/ UNCHANGED Search!vars
  <2>1. UNCHANGED <<frame, segment, pairs>>
    BY <1>1 DEF Search!SkipsPair, Search!TriesPair, Search!vars
  <2>2. Search!Present' = Search!Present /\ Search!Ordered' = Search!Ordered
    BY <2>1 DEF Search!Present, Search!Ordered
  <2> QED
    BY <2>1, <2>2 DEF Search!PairsInv, Search!CheapestFor
<1>2. CASE Search!EndsSweep
  <2> DEFINE t == [verify |-> best.verify, decline |-> best.decline]
  <2>1. segment # Search!Done /\ vi > Len(VerifyGrid) /\ Search!Keeps(t)
    BY <1>2 DEF Search!EndsSweep
  <2>2. Search!Tried = Search!Ordered
    <3>1. vi \in Nat
      BY GridFacts DEF Search!SweepInv
    <3>2. \A i \in DOMAIN VerifyGrid : i < vi
      BY <2>1, <3>1, GridFacts
    <3> QED
      BY <3>2 DEF Search!Tried, Search!Ordered
  <2>3. PICK x \in Search!Ordered :
          /\ best = [verify |-> VerifyGrid[x[1]], decline |-> DeclineGrid[x[2]], cost |-> Search!CostAt(x)]
          /\ \A y \in Search!Ordered \ {x} :
               Search!CostAt(x) < Search!CostAt(y)
               \/ (Search!CostAt(x) = Search!CostAt(y) /\ Search!Earlier(x, y))
    BY <2>1, <2>2, GridFacts DEF Search!SweepInv, Search!BestIsFirstMinimum
  <2>4. t = Search!Pair(x[1], x[2])
    BY <2>3 DEF Search!Pair
  <2>5. \A y \in Search!Ordered : Search!CostAt(y) \in Nat
    <3>1. \A y \in Search!Ordered : y = <<y[1], y[2]>> /\ y[1] \in DOMAIN VerifyGrid /\ y[2] \in DOMAIN DeclineGrid
      BY DEF Search!Ordered
    <3> QED
      BY <2>1, <3>1, CostsAreNumbers
  <2>6. \A y \in Search!Ordered : Search!CostAt(x) <= Search!CostAt(y)
    BY <2>3, <2>5
  <2>7. ASSUME segment # Global
        PROVE  \A y \in Search!Ordered :
                 Search!Total(frame[segment], t) <= Search!Total(frame[segment], Search!Pair(y[1], y[2]))
    <3>1. segment \in Categories /\ frame \in Frames
      BY <2>1, <2>7, SegmentFacts DEF Search!SweepInv
    <3>2. Search!Rows(segment) = frame[segment]
      BY <3>1, SegmentFrames
    <3> QED
      BY <2>4, <2>6, <3>2 DEF Search!CostAt
  <2> HIDE DEF t
  <2> QED
    BY <2>1, <2>4, <2>7, KeepsPairs
<1>3. CASE Search!FallsBack
  <2>1. segment # Search!Done /\ ~ Search!EnoughFraud(segment) /\ Search!Keeps(pairs[Global])
    BY <1>3 DEF Search!FallsBack
  <2>2. segment # Global
    BY <2>1 DEF Search!EnoughFraud
  <2>3. \E x \in Search!Ordered : pairs[Global] = Search!Pair(x[1], x[2])
    BY <2>2 DEF Search!PairsInv
  <2> QED
    BY <2>1, <2>3, KeepsPairs
<1> QED
  BY <1>1, <1>2, <1>3 DEF Search!Next

\* The rows of the whole frame: as many copies of each as its categories hold.
LEMMA GlobalRows ==
    ASSUME frame \in Frames
    PROVE  /\ \A c \in Categories : DOMAIN frame[c] \subseteq DOMAIN Search!Rows(Global)
           /\ \A r \in DOMAIN Search!Rows(Global) :
                Search!Rows(Global)[r]
                  = SumOn([c \in Categories |-> IF r \in DOMAIN frame[c] THEN frame[c][r] ELSE 0],
                          Categories)
<1> DEFINE U == UNION {DOMAIN frame[c] : c \in Categories}
           n(r) == [c \in Categories |-> IF r \in DOMAIN frame[c] THEN frame[c][r] ELSE 0]
<1>1. Search!Rows(Global) = [r \in U |-> Search!SumFunction(n(r))]
  BY DEF Search!Rows
<1>2. ASSUME NEW r PROVE Search!SumFunction(n(r)) = SumOn(n(r), Categories)
  <2> DEFINE k == n(r)
  <2>1. DOMAIN k = Categories
    OBVIOUS
  <2> HIDE DEF k
  <2>2. Search!SumFunction(k) = SumOn(k, Categories)
    BY <2>1 DEF Search!SumFunction, SumOn
  <2> QED
    BY <2>2 DEF k
<1>3. \A c \in Categories : DOMAIN frame[c] \subseteq U
  OBVIOUS
<1> HIDE DEF U, n
<1>4. DOMAIN Search!Rows(Global) = U /\ \A r \in U : Search!Rows(Global)[r] = SumOn(n(r), Categories)
  BY <1>1, <1>2
<1> QED
  BY <1>3, <1>4 DEF n

\* One pair of thresholds costs on the whole frame what it costs on the rows
\* of its categories together.
LEMMA TotalsAddUp ==
    ASSUME frame \in Frames, NEW t, t.verify \in Int, t.decline \in Int
    PROVE  SumOn([c \in Categories |-> Search!Total(frame[c], t)], Categories)
             = Search!Total(Search!Rows(Global), t)
<1> DEFINE whole == Search!Rows(Global)
           B == DOMAIN whole
           n(c, r) == IF r \in DOMAIN frame[c] THEN frame[c][r] ELSE 0
           m == [c \in Categories |-> [r \in B |-> n(c, r) * Search!Chosen(r, t)]]
           rows == [c \in Categories |-> Search!Total(frame[c], t)]
           columns == [r \in B |-> whole[r] * Search!Chosen(r, t)]
<1>1. IsFiniteSet(Categories) /\ IsFiniteSet(B) /\ IsFrame(whole) /\ \A c \in Categories : IsFrame(frame[c])
  BY SegmentFrames, SegmentFacts DEF IsFrame
<1>2. \A r \in B : Search!Chosen(r, t) \in Nat
  BY <1>1, ChosenIsRealized DEF IsFrame
<1>3. \A c \in Categories : DOMAIN frame[c] \subseteq B
  BY GlobalRows
<1>4. \A c \in Categories : \A r \in B : n(c, r) \in Nat
  BY <1>1 DEF IsFrame
<1>5. \A c \in Categories, r \in B : m[c][r] = n(c, r) * Search!Chosen(r, t) /\ m[c][r] \in Int
  <2> SUFFICES ASSUME NEW c \in Categories, NEW r \in B PROVE n(c, r) * Search!Chosen(r, t) \in Int
    OBVIOUS
  <2> HIDE DEF n
  <2> QED
    BY <1>2, <1>4
<1>6. ASSUME NEW c \in Categories PROVE rows[c] = SumOn(m[c], B)
  <2> DEFINE D == DOMAIN frame[c]
             h == [r \in D |-> frame[c][r] * Search!Chosen(r, t)]
             g == m[c]
  <2>1. rows[c] = SumOn(h, D)
    BY <1>1, TotalOfFrame
  <2>2. \A r \in B : g[r] \in Int
    BY <1>5
  <2>3. \A r \in B \ D : g[r] = 0
    <3> TAKE r \in B \ D
    <3>1. n(c, r) = 0 /\ g[r] = n(c, r) * Search!Chosen(r, t) /\ Search!Chosen(r, t) \in Nat
      BY <1>2, <1>5
    <3> HIDE DEF n, g
    <3> QED
      BY <3>1
  <2>4. \A r \in D : g[r] = h[r] /\ g[r] \in Int /\ h[r] \in Int
    BY <1>3, <1>5
  <2>5. D \in SUBSET B /\ IsFiniteSet(D)
    BY <1>1, <1>3 DEF IsFrame
  <2> HIDE DEF D, g, h, B, m, rows
  <2>6. SumOn(g, B) = SumOn(g, D)
    BY <1>1, <2>2, <2>3, <2>5, SumRestricts
  <2>7. SumOn(g, D) = SumOn(h, D)
    BY <2>4, <2>5, SumsCompare
  <2> QED
    BY <2>1, <2>6, <2>7 DEF g
<1>7. ASSUME NEW r \in B PROVE columns[r] = SumOn(Column(Categories, m, r), Categories)
  <2> DEFINE k == [c \in Categories |-> n(c, r)]
             h == Column(Categories, m, r)
             w == Search!Chosen(r, t)
  <2>1. whole[r] = SumOn(k, Categories)
    BY GlobalRows
  <2>2. w \in Int
    BY <1>2
  <2>3. \A c \in Categories : k[c] \in Int /\ h[c] \in Int /\ h[c] = w * k[c]
    <3> TAKE c \in Categories
    <3>1. k[c] = n(c, r) /\ h[c] = n(c, r) * w /\ n(c, r) \in Nat
      BY <1>4, <1>5 DEF Column
    <3> HIDE DEF n, k, h, w
    <3> QED
      BY <2>2, <3>1
  <2>4. columns[r] = whole[r] * w
    OBVIOUS
  <2> HIDE DEF k, h, w, columns, whole
  <2>5. SumOn(h, Categories) = w * SumOn(k, Categories)
    BY <1>1, <2>2, <2>3, SumsCompare
  <2>6. SumOn(k, Categories) \in Int
    <3>1. \A c \in Categories : k[c] \in Int
      BY <2>3
    <3> QED
      BY <1>1, <3>1, SumIsInt
  <2>7. columns[r] = SumOn(h, Categories)
    BY <2>1, <2>2, <2>4, <2>5, <2>6
  <2> QED
    BY <2>7 DEF h
<1>8. Search!Total(whole, t) = SumOn(columns, B)
  BY <1>1, TotalOfFrame
<1> HIDE DEF whole, B, m, rows, columns
<1>9. \A c \in Categories, r \in B : m[c][r] \in Int
  BY <1>5
<1>10. SumOn(rows, Categories) = SumOn(columns, B)
  <2>1. \A c \in Categories : rows[c] = SumOn(m[c], B)
    BY <1>6
  <2>2. \A r \in B : columns[r] = SumOn(Column(Categories, m, r), Categories)
    BY <1>7
  <2>3. IsFiniteSet(Categories) /\ IsFiniteSet(B)
    BY <1>1
  <2> QED
    BY ONLY <1>9, <2>1, <2>2, <2>3, SumsExchange
<1> QED
  BY <1>8, <1>10 DEF rows, whole

\* The pair a category was given is on its rows no worse than the global one.
LEMMA CategoriesSave ==
    ASSUME Search!SweepInv, Search!PairsInv
    PROVE  Search!CategoriesNeverCostMore
<1> SUFFICES ASSUME segment = Search!Done
             PROVE  Search!SumFunction([c \in Search!Present |-> Search!Total(frame[c], pairs[c])])
                      <= Search!Total(Search!Rows(Global), pairs[Global])
  BY DEF Search!CategoriesNeverCostMore
<1> DEFINE t == pairs[Global]
           P == Search!Present
           f == [c \in P |-> Search!Total(frame[c], pairs[c])]
           g == [c \in Categories |-> Search!Total(frame[c], t)]
<1>1. frame \in Frames /\ P \subseteq DOMAIN pairs /\ Global \in DOMAIN pairs /\ P \subseteq Categories
      /\ Global \notin P
  BY SegmentFacts DEF Search!SweepInv, Search!PairsInv
<1>2. ASSUME NEW s \in DOMAIN pairs PROVE pairs[s].verify \in Int /\ pairs[s].decline \in Int
  <2>1. PICK x \in Search!Ordered : pairs[s] = Search!Pair(x[1], x[2])
    BY DEF Search!PairsInv
  <2> QED
    BY <2>1, GridFacts DEF Search!Ordered, Search!Pair
<1>3. PICK x \in Search!Ordered : t = Search!Pair(x[1], x[2])
  BY <1>1 DEF Search!PairsInv
<1>4. \A c \in Categories : IsFrame(frame[c]) /\ g[c] \in Nat
  BY <1>1, <1>2, SegmentFrames, TotalOfFrame
<1>5. \A c \in P : f[c] \in Nat
  BY <1>1, <1>2, <1>4, TotalOfFrame
<1>6. \A c \in P : f[c] <= g[c]
  <2> TAKE c \in P
  <2>1. CASE pairs[c] = t
    BY <1>1, <1>5, <2>1
  <2>2. CASE Search!CheapestFor(c)
    BY <1>1, <1>3, <2>2 DEF Search!CheapestFor
  <2> QED
    BY <1>1, <2>1, <2>2 DEF Search!PairsInv
<1>7. \A c \in Categories \ P : g[c] = 0
  <2> SUFFICES ASSUME NEW c \in Categories, ~ (Search!SumFunction(frame[c]) > 0)
               PROVE  g[c] = 0
    BY DEF Search!Present
  <2> DEFINE n == frame[c]
             h == [r \in DOMAIN n |-> n[r] * Search!Chosen(r, t)]
  <2>1. IsFiniteSet(DOMAIN n) /\ \A r \in DOMAIN n : n[r] \in Nat /\ Search!Chosen(r, t) \in Nat
    BY <1>1, <1>2, <1>4, ChosenIsRealized DEF IsFrame
  <2>2. g[c] = SumOn(h, DOMAIN n)
    BY <1>1, <1>2, <1>4, TotalOfFrame
  <2>3. Search!SumFunction(n) = SumOn(n, DOMAIN n)
    BY DEF Search!SumFunction, SumOn
  <2> HIDE DEF n
  <2>4. SumOn(n, DOMAIN n) \in Nat /\ \A r \in DOMAIN n : n[r] <= SumOn(n, DOMAIN n)
    <3>1. \A r \in DOMAIN n : n[r] \in Nat
      BY <2>1
    <3> QED
      BY <2>1, <3>1, SumIsNat
  <2>5. \A r \in DOMAIN n : n[r] = 0
    <3>1. ~ (SumOn(n, DOMAIN n) > 0)
      BY <2>3 DEF n
    <3> QED
      BY <2>1, <2>4, <3>1
  <2>6. \A r \in DOMAIN n : h[r] \in Int /\ h[r] = 0
    BY <2>1, <2>5
  <2> HIDE DEF h
  <2>7. SumOn(h, DOMAIN n) = SumOn(h, {})
    <3>1. {} \in SUBSET DOMAIN n /\ \A r \in DOMAIN n \ {} : h[r] = 0
      BY <2>6
    <3> QED
      BY <2>1, <2>6, <3>1, SumRestricts
  <2>8. SumOn(h, {}) = 0
    BY SumUnfolds, FS_EmptySet
  <2> QED
    BY <2>2, <2>7, <2>8
<1>8. IsFiniteSet(P) /\ IsFiniteSet(Categories)
  BY <1>1, SegmentFacts, FS_Subset
<1>9. Search!SumFunction(f) = SumOn(f, P)
  <2>1. DOMAIN f = P
    OBVIOUS
  <2> HIDE DEF f
  <2> QED
    BY <2>1 DEF Search!SumFunction, SumOn
<1>10. SumOn(g, Categories) = Search!Total(Search!Rows(Global), t)
  BY <1>1, <1>2, TotalsAddUp
<1> HIDE DEF f, g, t, P
<1>11. SumOn(f, P) <= SumOn(g, P)
  <2>1. \A c \in P : f[c] \in Int /\ g[c] \in Int
    BY <1>1, <1>4, <1>5
  <2> QED
    BY <1>6, <1>8, <2>1, SumsCompare
<1>12. SumOn(g, Categories) = SumOn(g, P)
  <2>1. \A c \in Categories : g[c] \in Int
    BY <1>4
  <2>2. P \in SUBSET Categories
    BY <1>1
  <2> QED
    BY <1>7, <1>8, <2>1, <2>2, SumRestricts
<1>13. Search!SumFunction(f) <= Search!Total(Search!Rows(Global), t)
  BY <1>9, <1>10, <1>11, <1>12
<1> QED
  BY <1>13 DEF f, t, P

\* On the validation frame the thresholds of the categories together never
\* cost more than the global pair, whatever the frame, the grids and the
\* number of fraud rows that a category must have.
THEOREM CategoriesSaveTogether == SpecAll => []CategoriesNeverCostMore
<1>1. Search!Init => Search!SweepInv /\ Search!PairsInv
  BY SweepInit, PairsInit
<1>2. Search!SweepInv /\ Search!PairsInv /\ [Search!Next]_Search!vars
        => (Search!SweepInv /\ Search!PairsInv)'
  BY SweepStep, PairsStep
<1>3. Search!SweepInv /\ Search!PairsInv => CategoriesNeverCostMore
  BY CategoriesSave DEF CategoriesNeverCostMore
<1> QED
  BY <1>1, <1>2, <1>3, SearchRuns, PTL DEF Search!Spec

-----------------------------------------------------------------------------
(* The drivers of an explanation. *)

\* A set of numbers that is not empty has a least one.
LEMMA LeastNumber ==
    ASSUME NEW T, T \subseteq Nat, T # {}
    PROVE  \E n \in T : \A m \in T : n <= m
<1> DEFINE R == {ss \in Nat \X Nat : ss[1] < ss[2]}
<1>1. PICK n \in T : \A m \in T : <<m, n>> \notin R
  <2>1. IsWellFoundedOn(R, Nat)
    BY NatLessThanWellFounded DEF OpToRel
  <2> HIDE DEF R
  <2> QED
    BY <2>1, WFMin
<1>2. ASSUME NEW m \in T PROVE n <= m
  <2>1. m \in Nat /\ n \in Nat /\ <<m, n>> \notin R
    BY <1>1
  <2>2. ~ (m < n)
    BY <2>1
  <2> QED
    BY <2>1, <2>2
<1> QED
  BY <1>2

\* The first of the contributions S that is of feature f.
FirstIn(its, S, f) == CHOOSE k \in S : its[k].feature = f /\ \A l \in S : its[l].feature = f => k <= l
FeaturesIn(its, S) == {its[k].feature : k \in S}

LEMMA FirstIsThere ==
    ASSUME NEW its, NEW S, S \subseteq Nat, NEW f \in FeaturesIn(its, S)
    PROVE  /\ FirstIn(its, S, f) \in S /\ its[FirstIn(its, S, f)].feature = f
           /\ \A l \in S : its[l].feature = f => FirstIn(its, S, f) <= l
<1> DEFINE T == {k \in S : its[k].feature = f}
<1>1. T # {} /\ T \subseteq Nat
  BY DEF FeaturesIn
<1>2. \E n \in T : \A m \in T : n <= m
  <2> HIDE DEF T
  <2> QED
    BY ONLY <1>1, LeastNumber
<1>3. \E k \in S : its[k].feature = f /\ \A l \in S : its[l].feature = f => k <= l
  BY <1>2
<1> QED
  BY <1>3 DEF FirstIn

\* A later contribution does not change which one is the first of a feature,
\* and is itself the first of a feature not seen before.
LEMMA FirstStays ==
    ASSUME NEW its, NEW S, S \subseteq Nat, NEW a \in Nat, \A k \in S : k < a
    PROVE  /\ \A f \in FeaturesIn(its, S) :
                FirstIn(its, S \cup {a}, f) = FirstIn(its, S, f) /\ FirstIn(its, S, f) < a
           /\ its[a].feature \notin FeaturesIn(its, S) => FirstIn(its, S \cup {a}, its[a].feature) = a
           /\ FeaturesIn(its, S \cup {a}) = FeaturesIn(its, S) \cup {its[a].feature}
<1> DEFINE T == S \cup {a}
<1>1. T \subseteq Nat /\ FeaturesIn(its, T) = FeaturesIn(its, S) \cup {its[a].feature}
  BY DEF FeaturesIn
<1>2. ASSUME NEW f \in FeaturesIn(its, S)
      PROVE  FirstIn(its, T, f) = FirstIn(its, S, f) /\ FirstIn(its, S, f) < a
  <2> DEFINE x == FirstIn(its, S, f)
             y == FirstIn(its, T, f)
  <2>1. x \in S /\ its[x].feature = f /\ \A l \in S : its[l].feature = f => x <= l
    BY FirstIsThere
  <2>2. y \in T /\ its[y].feature = f /\ \A l \in T : its[l].feature = f => y <= l
    <3>1. f \in FeaturesIn(its, T)
      BY <1>1
    <3> HIDE DEF T
    <3> QED
      BY <1>1, <3>1, FirstIsThere
  <2> HIDE DEF x, y
  <2>3. y <= x /\ x < a /\ x \in Nat /\ y \in Nat
    BY <1>1, <2>1, <2>2
  <2>4. y \in S
    BY <2>2, <2>3
  <2> QED
    BY <2>1, <2>2, <2>3, <2>4 DEF x, y
<1>3. ASSUME its[a].feature \notin FeaturesIn(its, S)
      PROVE  FirstIn(its, T, its[a].feature) = a
  <2> DEFINE f == its[a].feature
             y == FirstIn(its, T, f)
  <2>1. f \in FeaturesIn(its, T) /\ its[a].feature = f
    BY <1>1
  <2> HIDE DEF f
  <2>2. y \in T /\ its[y].feature = f
    <3>1. T \subseteq Nat /\ f \in FeaturesIn(its, T)
      BY <1>1, <2>1
    <3> HIDE DEF T
    <3> QED
      BY ONLY <3>1, FirstIsThere
  <2> HIDE DEF y
  <2>3. y \notin S
    BY <1>3, <2>1, <2>2 DEF FeaturesIn
  <2> QED
    BY <2>2, <2>3 DEF y, f
<1> QED
  BY <1>1, <1>2, <1>3

\* The other parts of the page leave the drivers alone.
LEMMA DriversRun == SpecAll => Drivers!Spec
<1>1. InitAll => Drivers!Init
  BY DEF InitAll
<1>2. [NextAll]_all => [Drivers!Next]_Drivers!vars
  BY DEF NextAll, OfHealth, OfCache, OfDrivers, OfSearch, all, drivers, Drivers!vars
<1> QED
  BY <1>1, <1>2, PTL DEF SpecAll, Drivers!Spec

\* The lists of contributions.
LEMMA ListFacts ==
    ASSUME items \in Contributions
    PROVE  /\ items \in Seq(Drivers!Items) /\ Len(items) \in Nat
           /\ \A k \in 1 .. Len(items) : items[k] \in Drivers!Items
<1>1. items \in Seq(Drivers!Items)
  BY DriversAssumed DEF Drivers!DriversAssumption
<1> QED
  BY <1>1

\* The loop's invariant: of each feature seen, the first of its strongest
\* contributions, in the order in which the features came.
LEMMA DriversStart == Drivers!Init => Drivers!DriversInv
<1> SUFFICES ASSUME Drivers!Init PROVE Drivers!DriversInv
  OBVIOUS
<1>1. items \in Contributions /\ at = 1 /\ strongest = <<>>
  BY DEF Drivers!Init
<1>2. Drivers!Seen = {}
  BY <1>1 DEF Drivers!Seen
<1>3. at \in 1 .. Len(items) + 1
  BY <1>1, ListFacts
<1>4. strongest \in Seq(Drivers!Items) /\ DOMAIN strongest = {} /\ Len(strongest) = 0
  BY <1>1
<1>5. Drivers!StrongestOfEach
  <2>1. {items[k].feature : k \in Drivers!Seen} = {}
    BY <1>2
  <2>2. Drivers!Cardinality({}) = 0
    BY FS_EmptySet DEF Cardinality, Drivers!Cardinality
  <2> QED
    BY <1>4, <2>1, <2>2 DEF Drivers!StrongestOfEach
<1> QED
  BY <1>1, <1>2, <1>3, <1>4, <1>5 DEF Drivers!DriversInv

\* What a step of the loop starts from.
LEMMA LoopFacts ==
    ASSUME Drivers!DriversInv
    PROVE  /\ at \in Nat /\ Drivers!Seen \subseteq Nat /\ \A k \in Drivers!Seen : k < at
           /\ \A k \in Drivers!Seen : items[k] \in Drivers!Items
           /\ DOMAIN strongest = 1 .. Len(strongest) /\ Len(strongest) \in Nat
           /\ \A i \in DOMAIN strongest : strongest[i] \in Drivers!Items
           /\ \A f : Drivers!FirstOf(f) = FirstIn(items, Drivers!Seen, f)
           /\ FeaturesIn(items, Drivers!Seen) = {items[k].feature : k \in Drivers!Seen}
           /\ IsFiniteSet(FeaturesIn(items, Drivers!Seen))
<1>1. items \in Contributions /\ at \in 1 .. Len(items) + 1 /\ strongest \in Seq(Drivers!Items)
  BY DEF Drivers!DriversInv
<1>2. at \in Nat /\ Len(items) \in Nat /\ \A k \in 1 .. Len(items) : items[k] \in Drivers!Items
  BY <1>1, ListFacts
<1>3. Drivers!Seen \subseteq 1 .. at - 1
  BY DEF Drivers!Seen
<1>4. \A k \in Drivers!Seen : k \in Nat /\ k < at /\ k \in 1 .. Len(items)
  BY <1>1, <1>2, <1>3
<1>5. \A f : Drivers!FirstOf(f) = FirstIn(items, Drivers!Seen, f)
  BY DEF Drivers!FirstOf, FirstIn
<1>6. IsFiniteSet(FeaturesIn(items, Drivers!Seen))
  <2> DEFINE s == [k \in Drivers!Seen |-> items[k].feature]
  <2>1. IsFiniteSet(Drivers!Seen)
    <3>1. at - 1 \in Int /\ 1 \in Int
      BY <1>2
    <3>2. IsFiniteSet(1 .. at - 1)
      BY ONLY <3>1, FS_Interval
    <3> QED
      BY <1>3, <3>2, FS_Subset
  <2>2. s \in Surjection(Drivers!Seen, FeaturesIn(items, Drivers!Seen))
    BY DEF Surjection, FeaturesIn
  <2> HIDE DEF s
  <2> QED
    BY <2>1, <2>2, FS_Surjection
<1> QED
  BY <1>1, <1>2, <1>4, <1>5, <1>6 DEF FeaturesIn

\* The features kept, what is kept of each, and their order, as the loop's
\* invariant says them.
Kept == {strongest[i].feature : i \in DOMAIN strongest}
Apart == \A i, j \in DOMAIN strongest : strongest[i].feature = strongest[j].feature => i = j
Strong == \A i \in DOMAIN strongest : \E k \in Drivers!Seen : Drivers!Best(k) /\ strongest[i] = items[k]
InOrder == \A i, j \in DOMAIN strongest :
             j < i => FirstIn(items, Drivers!Seen, strongest[j].feature)
                        < FirstIn(items, Drivers!Seen, strongest[i].feature)

DriversAre ==
    /\ items \in Contributions /\ at \in 1 .. Len(items) + 1
    /\ strongest \in Seq(Drivers!Items)
    /\ Apart /\ Strong /\ InOrder
    /\ Kept = FeaturesIn(items, Drivers!Seen)
    /\ Len(strongest) = Cardinality(FeaturesIn(items, Drivers!Seen))

LEMMA DriversParts == Drivers!DriversInv <=> DriversAre
<1>1. \A f : Drivers!FirstOf(f) = FirstIn(items, Drivers!Seen, f)
  BY DEF Drivers!FirstOf, FirstIn
<1>2. Drivers!Cardinality({items[k].feature : k \in Drivers!Seen})
        = Cardinality(FeaturesIn(items, Drivers!Seen))
  BY DEF Cardinality, Drivers!Cardinality, FeaturesIn
<1>3. ASSUME strongest \in Seq(Drivers!Items)
      PROVE  Drivers!StrongestOfEach <=>
               Strong /\ InOrder /\ Len(strongest) = Cardinality(FeaturesIn(items, Drivers!Seen))
  <2>1. DOMAIN strongest = 1 .. Len(strongest) /\ Len(strongest) \in Nat
    BY <1>3
  <2>2. \A i \in DOMAIN strongest : 1 .. i - 1 = {j \in DOMAIN strongest : j < i}
    BY <2>1
  <2>3. InOrder <=> \A i \in DOMAIN strongest : \A j \in 1 .. i - 1 :
                      FirstIn(items, Drivers!Seen, strongest[j].feature)
                        < FirstIn(items, Drivers!Seen, strongest[i].feature)
    BY <2>2 DEF InOrder
  <2>4. InOrder <=> \A i \in DOMAIN strongest : \A j \in 1 .. i - 1 :
                      Drivers!FirstOf(strongest[j].feature) < Drivers!FirstOf(strongest[i].feature)
    BY <1>1, <2>3
  <2> QED
    BY <1>2, <2>4 DEF Drivers!StrongestOfEach, Strong
<1>4. Kept = FeaturesIn(items, Drivers!Seen)
        <=> {strongest[i].feature : i \in DOMAIN strongest} = {items[k].feature : k \in Drivers!Seen}
  BY DEF Kept, FeaturesIn
<1> QED
  BY <1>3, <1>4 DEF Drivers!DriversInv, DriversAre, Apart

LEMMA DriversPartsNext == Drivers!DriversInv' <=> DriversAre'
BY DriversParts, PTL

\* The contribution the loop is at, and what it makes of those seen.
LEMMA OneMore ==
    ASSUME Drivers!DriversInv, at <= Len(items), at' = at + 1, items' = items
    PROVE  /\ at \in Nat /\ at' \in 1 .. Len(items) + 1
           /\ items[at] \in Drivers!Items /\ Drivers!Item = items[at]
           /\ Drivers!Seen' = IF items[at].feature = Drivers!Unusable THEN Drivers!Seen
                              ELSE Drivers!Seen \cup {at}
<1>1. at \in 1 .. Len(items) + 1 /\ at \in Nat /\ Len(items) \in Nat
      /\ \A k \in 1 .. Len(items) : items[k] \in Drivers!Items
  BY ListFacts, LoopFacts DEF Drivers!DriversInv
<1>2. 1 .. at' - 1 = (1 .. at - 1) \cup {at}
  BY <1>1
<1>3. Drivers!Seen' = {k \in 1 .. at' - 1 : items[k].feature # Drivers!Unusable}
  BY DEF Drivers!Seen
<1>4. Drivers!Seen' = IF items[at].feature = Drivers!Unusable THEN Drivers!Seen
                      ELSE Drivers!Seen \cup {at}
  BY <1>2, <1>3 DEF Drivers!Seen
<1> QED
  BY <1>1, <1>4 DEF Drivers!Item

\* A contribution of another feature does not change which one is the best.
LEMMA BestStays ==
    ASSUME Drivers!DriversInv, items' = items, Drivers!Seen' = Drivers!Seen \cup {at},
           items[at] \in Drivers!Items, NEW k \in Drivers!Seen, Drivers!Best(k),
           \/ items[k].feature # items[at].feature
           \/ items[at].strength <= items[k].strength
    PROVE  Drivers!Best(k)'
<1> SUFFICES ASSUME NEW l \in Drivers!Seen \cup {at}, items[l].feature = items[k].feature
             PROVE  items[l].strength < items[k].strength
                    \/ (items[l].strength = items[k].strength /\ k <= l)
  BY DEF Drivers!Best
<1>1. CASE l \in Drivers!Seen
  BY <1>1 DEF Drivers!Best
<1>2. CASE l = at
  <2>1. items[at].strength <= items[k].strength
    BY <1>2
  <2>2. items[k] \in Drivers!Items /\ k < at /\ k \in Nat /\ at \in Nat
    BY LoopFacts
  <2>3. items[k].strength \in Nat /\ items[at].strength \in Nat
    BY <2>2 DEF Drivers!Items
  <2> QED
    BY <1>2, <2>1, <2>2, <2>3
<1> QED
  BY <1>1, <1>2

\* The first contribution of a feature comes last, and is the best of it.
LEMMA AddsKeeps ==
    ASSUME Drivers!DriversInv, Drivers!Adds
    PROVE  Drivers!DriversInv'
<1> DEFINE S == Drivers!Seen
           n == Len(strongest)
           new == items[at]
<1>1. /\ at <= Len(items) /\ at' = at + 1 /\ items' = items
      /\ new.feature # Drivers!Unusable /\ Drivers!SameFeature = {}
      /\ strongest' = Append(strongest, new)
  BY DEF Drivers!Adds, Drivers!Item
<1>2. at \in Nat /\ at' \in 1 .. Len(items) + 1 /\ new \in Drivers!Items /\ Drivers!Seen' = S \cup {at}
  BY <1>1, OneMore
<1>3. DriversAre
  BY DriversParts
<1>4. /\ S \subseteq Nat /\ \A k \in S : k < at
      /\ n \in Nat /\ DOMAIN strongest = 1 .. n /\ \A i \in 1 .. n : strongest[i] \in Drivers!Items
      /\ IsFiniteSet(FeaturesIn(items, S))
  BY LoopFacts
<1>5. /\ strongest' \in Seq(Drivers!Items) /\ Len(strongest') = n + 1
      /\ DOMAIN strongest' = 1 .. n + 1
      /\ \A i \in 1 .. n : strongest'[i] = strongest[i]
      /\ strongest'[n + 1] = new
  BY <1>1, <1>2, <1>3 DEF DriversAre
<1>6. \A i \in 1 .. n : strongest[i].feature # new.feature
  BY <1>1, <1>4 DEF Drivers!SameFeature, Drivers!Item
<1>7. Kept = FeaturesIn(items, S)
  BY <1>3 DEF DriversAre
<1>8. new.feature \notin FeaturesIn(items, S)
  BY <1>4, <1>6, <1>7 DEF Kept
<1>9. /\ \A f \in FeaturesIn(items, S) :
           FirstIn(items, S \cup {at}, f) = FirstIn(items, S, f) /\ FirstIn(items, S, f) < at
      /\ FirstIn(items, S \cup {at}, new.feature) = at
      /\ FeaturesIn(items, S \cup {at}) = FeaturesIn(items, S) \cup {new.feature}
  BY ONLY <1>2, <1>4, <1>8, FirstStays
<1>10. \A i \in 1 .. n : strongest[i].feature \in FeaturesIn(items, S)
  BY <1>4, <1>7 DEF Kept
<1> HIDE DEF S, n, new
<1>11. Apart'
  <2> SUFFICES ASSUME NEW i \in 1 .. n + 1, NEW j \in 1 .. n + 1,
                      strongest'[i].feature = strongest'[j].feature
               PROVE  i = j
    BY <1>5 DEF Apart
  <2>1. (i \in 1 .. n \/ i = n + 1) /\ (j \in 1 .. n \/ j = n + 1)
    BY <1>4
  <2> QED
    BY <1>3, <1>4, <1>5, <1>6, <2>1 DEF DriversAre, Apart
<1>12. Strong'
  <2> SUFFICES ASSUME NEW i \in 1 .. n + 1
               PROVE  \E k \in S \cup {at} : Drivers!Best(k)' /\ strongest'[i] = items[k]
    BY <1>1, <1>2, <1>5 DEF Strong, S
  <2>1. CASE i \in 1 .. n
    <3>1. PICK k \in S : Drivers!Best(k) /\ strongest[i] = items[k]
      BY <1>3, <1>4, <2>1 DEF DriversAre, Strong, S
    <3>2. items[k].feature # new.feature
      BY <1>6, <2>1, <3>1
    <3>3. Drivers!Best(k)'
      BY <1>1, <1>2, <3>1, <3>2, BestStays DEF S, new
    <3> QED
      BY <1>5, <2>1, <3>1, <3>3
  <2>2. CASE i = n + 1
    <3>1. \A l \in S \cup {at} : items[l].feature = items[at].feature => l = at
      BY <1>8 DEF FeaturesIn, new
    <3>2. PICK a \in Nat : a = at
      BY <1>2
    <3>3. Drivers!Best(a)'
      BY <1>1, <1>2, <3>1, <3>2 DEF Drivers!Best, S
    <3> QED
      BY <1>5, <2>2, <3>2, <3>3 DEF new
  <2> QED
    BY <1>4, <2>1, <2>2
<1>13. InOrder'
  <2> SUFFICES ASSUME NEW i \in 1 .. n + 1, NEW j \in 1 .. n + 1, j < i
               PROVE  FirstIn(items, S \cup {at}, strongest'[j].feature)
                        < FirstIn(items, S \cup {at}, strongest'[i].feature)
    BY <1>1, <1>2, <1>5 DEF InOrder, S
  <2>1. j \in 1 .. n
    BY <1>4
  <2>2. CASE i \in 1 .. n
    <3>1. FirstIn(items, S, strongest[j].feature) < FirstIn(items, S, strongest[i].feature)
      BY <1>3, <1>4, <2>1, <2>2 DEF DriversAre, InOrder, S
    <3> QED
      BY <1>5, <1>9, <1>10, <2>1, <2>2, <3>1
  <2>3. CASE i = n + 1
    BY <1>5, <1>9, <1>10, <2>1, <2>3
  <2> QED
    BY <1>4, <2>2, <2>3
<1>14. Kept' = FeaturesIn(items, S \cup {at})
  <2>1. Kept' = {strongest'[i].feature : i \in 1 .. n + 1}
    BY <1>5 DEF Kept
  <2>2. Kept = {strongest[i].feature : i \in 1 .. n}
    BY <1>4 DEF Kept
  <2>3. 1 .. n + 1 = (1 .. n) \cup {n + 1}
    BY <1>4
  <2>4. Kept' = Kept \cup {new.feature}
    BY <1>5, <2>1, <2>2, <2>3
  <2> QED
    BY <1>7, <1>9, <2>4
<1>15. Len(strongest') = Cardinality(FeaturesIn(items, S \cup {at}))
  <2>1. n = Cardinality(FeaturesIn(items, S))
    BY <1>3 DEF DriversAre, S, n
  <2> QED
    BY <1>4, <1>5, <1>8, <1>9, <2>1, FS_AddElement
<1>16. DriversAre'
  <2>1. FeaturesIn(items, Drivers!Seen)' = FeaturesIn(items, S \cup {at})
    BY <1>1, <1>2 DEF FeaturesIn
  <2>2. items' \in Contributions
    BY <1>1, <1>3 DEF DriversAre
  <2> QED
    BY <1>1, <1>2, <1>5, <1>11, <1>12, <1>13, <1>14, <1>15, <2>1, <2>2 DEF DriversAre
<1> QED
  BY <1>16, DriversPartsNext

\* Another contribution of a feature takes the place of a weaker one, and
\* becomes the best of the feature.
LEMMA CompetesKeeps ==
    ASSUME Drivers!DriversInv, Drivers!Competes
    PROVE  Drivers!DriversInv'
<1> DEFINE S == Drivers!Seen
           new == items[at]
           D == DOMAIN strongest
<1>1. /\ at <= Len(items) /\ at' = at + 1 /\ items' = items
      /\ new.feature # Drivers!Unusable /\ Drivers!SameFeature # {}
      /\ strongest' = [i \in D |-> IF i \in Drivers!SameFeature /\ Drivers!Stronger(new, strongest[i])
                                     THEN new ELSE strongest[i]]
  BY DEF Drivers!Competes, Drivers!Item
<1>2. at \in Nat /\ at' \in 1 .. Len(items) + 1 /\ new \in Drivers!Items /\ Drivers!Seen' = S \cup {at}
  BY <1>1, OneMore
<1>3. DriversAre
  BY DriversParts
<1>4. /\ S \subseteq Nat /\ \A k \in S : k < at /\ items[k] \in Drivers!Items
      /\ D = 1 .. Len(strongest) /\ Len(strongest) \in Nat
      /\ \A i \in D : strongest[i] \in Drivers!Items
  BY LoopFacts
<1>5. Drivers!SameFeature = {i \in D : strongest[i].feature = new.feature}
  BY DEF Drivers!SameFeature, Drivers!Item
<1>6. /\ DOMAIN strongest' = D /\ strongest' \in Seq(Drivers!Items) /\ Len(strongest') = Len(strongest)
      /\ \A i \in D : strongest'[i].feature = strongest[i].feature
  <2>1. DOMAIN strongest' = D /\ \A i \in D : strongest'[i] \in Drivers!Items
    BY <1>1, <1>2, <1>4
  <2>2. strongest' \in [1 .. Len(strongest) -> Drivers!Items]
    BY <1>1, <1>4, <2>1
  <2>3. strongest' \in Seq(Drivers!Items) /\ Len(strongest') = Len(strongest)
    BY <1>4, <2>2
  <2>4. \A i \in D : strongest'[i].feature = strongest[i].feature
    BY <1>1, <1>5
  <2> QED
    BY <2>1, <2>3, <2>4
<1>7. Kept = FeaturesIn(items, S)
  BY <1>3 DEF DriversAre
<1>8. new.feature \in FeaturesIn(items, S)
  <2>1. \E i \in D : strongest[i].feature = new.feature
    BY <1>1, <1>5
  <2> QED
    BY <1>7, <2>1 DEF Kept
<1>9. /\ \A f \in FeaturesIn(items, S) : FirstIn(items, S \cup {at}, f) = FirstIn(items, S, f)
      /\ FeaturesIn(items, S \cup {at}) = FeaturesIn(items, S)
  <2>1. S \subseteq Nat /\ at \in Nat /\ \A k \in S : k < at
    BY <1>2, <1>4
  <2>2. FeaturesIn(items, S \cup {at}) = FeaturesIn(items, S) \cup {items[at].feature}
    BY DEF FeaturesIn
  <2> HIDE DEF S
  <2>3. \A f \in FeaturesIn(items, S) :
          FirstIn(items, S \cup {at}, f) = FirstIn(items, S, f) /\ FirstIn(items, S, f) < at
    BY ONLY <2>1, FirstStays
  <2> QED
    BY <1>8, <2>2, <2>3
<1>10. \A i \in D : strongest[i].feature \in FeaturesIn(items, S)
  BY <1>7 DEF Kept
<1>11. Apart'
  BY <1>3, <1>6 DEF DriversAre, Apart
<1>12. Strong'
  <2> SUFFICES ASSUME NEW i \in D
               PROVE  \E k \in S \cup {at} : Drivers!Best(k)' /\ strongest'[i] = items[k]
    BY <1>1, <1>2, <1>6 DEF Strong
  <2>1. PICK k \in S : Drivers!Best(k) /\ strongest[i] = items[k]
    BY <1>3 DEF DriversAre, Strong
  <2>2. new.strength \in Nat /\ items[k].strength \in Nat /\ k \in Nat /\ k < at
    BY <1>2, <1>4 DEF Drivers!Items
  <2>3. CASE i \in Drivers!SameFeature /\ Drivers!Stronger(new, strongest[i])
    <3>1. PICK a \in Nat : a = at
      BY <1>2
    <3>2. strongest'[i] = items[a] /\ items[k].strength < new.strength
          /\ items[k].feature = new.feature
      BY <1>1, <1>5, <2>1, <2>2, <2>3, <3>1 DEF Drivers!Stronger
    <3>3. \A l \in S : items[l].feature = new.feature => items[l].strength < new.strength
      <4> SUFFICES ASSUME NEW l \in S, items[l].feature = new.feature
                   PROVE  items[l].strength < new.strength
        OBVIOUS
      <4>1. items[l].strength \in Nat
        BY <1>4 DEF Drivers!Items
      <4>2. items[l].strength <= items[k].strength
        BY <2>1, <2>2, <3>2, <4>1 DEF Drivers!Best
      <4> QED
        BY <2>2, <3>2, <4>1, <4>2
    <3>4. Drivers!Best(a)'
      BY <1>1, <1>2, <3>1, <3>3 DEF Drivers!Best
    <3> QED
      BY <3>1, <3>2, <3>4
  <2>4. CASE ~ (i \in Drivers!SameFeature /\ Drivers!Stronger(new, strongest[i]))
    <3>1. strongest'[i] = items[k]
      BY <1>1, <2>1, <2>4
    <3>2. items[k].feature # new.feature \/ new.strength <= items[k].strength
      BY <1>5, <2>1, <2>2, <2>4 DEF Drivers!Stronger
    <3>3. Drivers!Best(k)'
      BY <1>1, <1>2, <2>1, <3>2, BestStays
    <3> QED
      BY <3>1, <3>3
  <2> QED
    BY <2>3, <2>4
<1>13. InOrder'
  <2> SUFFICES ASSUME NEW i \in D, NEW j \in D, j < i
               PROVE  FirstIn(items, S \cup {at}, strongest'[j].feature)
                        < FirstIn(items, S \cup {at}, strongest'[i].feature)
    BY <1>1, <1>2, <1>6 DEF InOrder
  <2>1. FirstIn(items, S, strongest[j].feature) < FirstIn(items, S, strongest[i].feature)
    BY <1>3 DEF DriversAre, InOrder
  <2> HIDE DEF D, S
  <2> QED
    BY <1>6, <1>9, <1>10, <2>1
<1>14. Kept' = Kept
  <2>1. Kept' = {strongest'[i].feature : i \in D}
    BY <1>6 DEF Kept
  <2> QED
    BY <1>6, <2>1 DEF Kept
<1>15. DriversAre'
  <2>1. FeaturesIn(items, Drivers!Seen)' = FeaturesIn(items, S)
    BY <1>1, <1>2, <1>9 DEF FeaturesIn
  <2>2. items' \in Contributions /\ Len(strongest) = Cardinality(FeaturesIn(items, S))
    BY <1>1, <1>3 DEF DriversAre
  <2> QED
    BY <1>1, <1>2, <1>6, <1>7, <1>11, <1>12, <1>13, <1>14, <2>1, <2>2 DEF DriversAre
<1> QED
  BY <1>15, DriversPartsNext

\* A step that keeps the contributions seen and the strongest keeps the rest.
LEMMA NothingSeen ==
    ASSUME Drivers!DriversInv, items' = items, strongest' = strongest,
           Drivers!Seen' = Drivers!Seen, at' \in 1 .. Len(items) + 1
    PROVE  Drivers!DriversInv'
<1>1. DriversAre
  BY DriversParts
<1>2. Apart' /\ Kept' = Kept
  BY <1>1 DEF DriversAre, Apart, Kept
<1>3. Strong'
  <2>1. \A k : Drivers!Best(k)' <=> Drivers!Best(k)
    BY DEF Drivers!Best
  <2> QED
    BY <1>1, <2>1 DEF DriversAre, Strong
<1>4. InOrder'
  BY <1>1 DEF DriversAre, InOrder
<1>5. FeaturesIn(items, Drivers!Seen)' = FeaturesIn(items, Drivers!Seen)
  BY DEF FeaturesIn
<1>6. DriversAre'
  BY <1>1, <1>2, <1>3, <1>4, <1>5 DEF DriversAre
<1> QED
  BY <1>6, DriversPartsNext

LEMMA DriversStep ==
    ASSUME Drivers!DriversInv, [Drivers!Next]_Drivers!vars
    PROVE  Drivers!DriversInv'
<1>1. CASE Drivers!Skips
  <2>1. /\ at <= Len(items) /\ at' = at + 1 /\ items' = items /\ strongest' = strongest
        /\ items[at].feature = Drivers!Unusable
    BY <1>1 DEF Drivers!Skips, Drivers!Item
  <2>2. at' \in 1 .. Len(items) + 1 /\ Drivers!Seen' = Drivers!Seen
    BY <2>1, OneMore
  <2> QED
    BY <2>1, <2>2, NothingSeen
<1>2. CASE Drivers!Adds
  BY <1>2, AddsKeeps
<1>3. CASE Drivers!Competes
  BY <1>3, CompetesKeeps
<1>4. CASE UNCHANGED Drivers!vars
  <2>1. UNCHANGED <<items, at, strongest>>
    BY <1>4 DEF Drivers!vars
  <2>2. Drivers!Seen' = Drivers!Seen
    BY <2>1 DEF Drivers!Seen
  <2>3. at' \in 1 .. Len(items) + 1
    BY <2>1 DEF Drivers!DriversInv
  <2> QED
    BY <2>1, <2>2, <2>3, NothingSeen
<1> QED
  BY <1>1, <1>2, <1>3, <1>4 DEF Drivers!Next

\* The loop keeps of each feature the first of its strongest contributions,
\* whatever the contributions are.
THEOREM StrongestKept == SpecAll => []StrongestOfEach
<1>1. Drivers!Init => Drivers!DriversInv
  BY DriversStart
<1>2. Drivers!DriversInv /\ [Drivers!Next]_Drivers!vars => Drivers!DriversInv'
  BY DriversStep
<1>3. Drivers!DriversInv => StrongestOfEach
  BY DEF Drivers!DriversInv, StrongestOfEach
<1> QED
  BY <1>1, <1>2, <1>3, DriversRun, PTL DEF Drivers!Spec

\* The places are the numbers up to how many features are ranked, one each, in
\* the order of the sort.
LEMMA Places ==
    ASSUME Drivers!DriversInv
    PROVE  /\ Drivers!Ranked \subseteq DOMAIN strongest
           /\ Drivers!Cardinality(Drivers!Ranked) \in Nat
           /\ \A i \in Drivers!Ranked : Drivers!Place(i) \in 1 .. Drivers!Cardinality(Drivers!Ranked)
           /\ \A i, j \in Drivers!Ranked : Drivers!Before(i, j) => Drivers!Place(i) < Drivers!Place(j)
           /\ \A i, j \in Drivers!Ranked : Drivers!Place(i) = Drivers!Place(j) => i = j
           /\ \A k \in 1 .. Drivers!Cardinality(Drivers!Ranked) : \E i \in Drivers!Ranked : Drivers!Place(i) = k
<1> DEFINE R == Drivers!Ranked
           n == Cardinality(R)
           ahead(i) == {j \in R : Drivers!Before(j, i)}
<1>1. DOMAIN strongest = 1 .. Len(strongest) /\ Len(strongest) \in Nat
      /\ \A i \in DOMAIN strongest : strongest[i] \in Drivers!Items
  BY LoopFacts
<1>2. R \subseteq DOMAIN strongest
  BY DEF Drivers!Ranked
<1>3. IsFiniteSet(R) /\ n \in Nat
  <2>1. IsFiniteSet(1 .. Len(strongest))
    BY <1>1, FS_Interval
  <2>2. IsFiniteSet(R)
    BY <1>1, <1>2, <2>1, FS_Subset
  <2> QED
    BY <2>2, FS_CardinalityType
<1>4. Drivers!Cardinality(R) = n /\ \A i : Drivers!Place(i) = Cardinality(ahead(i)) + 1
  BY DEF Drivers!Place, Cardinality, Drivers!Cardinality
<1>5. \A i \in R : i \in Nat /\ strongest[i].strength \in Nat
  <2>1. \A i \in R : i \in Nat /\ strongest[i] \in Drivers!Items
    BY <1>1, <1>2
  <2> QED
    BY <2>1 DEF Drivers!Items
<1>6. /\ \A i \in R : ~ Drivers!Before(i, i)
      /\ \A i, j \in R : Drivers!Before(i, j) \/ Drivers!Before(j, i) \/ i = j
      /\ \A h, i, j \in R : Drivers!Before(h, i) /\ Drivers!Before(i, j) => Drivers!Before(h, j)
  <2> HIDE DEF R
  <2> QED
    BY <1>5 DEF Drivers!Before
<1>7. \A i \in R : IsFiniteSet(ahead(i)) /\ Cardinality(ahead(i)) \in Nat
  <2> SUFFICES ASSUME NEW i \in R PROVE IsFiniteSet(ahead(i)) /\ Cardinality(ahead(i)) \in Nat
    OBVIOUS
  <2>1. ahead(i) \in SUBSET R
    OBVIOUS
  <2> HIDE DEF ahead, R
  <2>2. IsFiniteSet(ahead(i))
    BY <1>3, <2>1, FS_Subset
  <2> QED
    BY <2>2, FS_CardinalityType
<1>8. \A i \in R : Cardinality(ahead(i)) + 1 \in 1 .. n
  <2> SUFFICES ASSUME NEW i \in R PROVE Cardinality(ahead(i)) + 1 \in 1 .. n
    OBVIOUS
  <2>1. ahead(i) \in SUBSET R /\ i \notin ahead(i)
    BY <1>6
  <2>2. Cardinality(ahead(i)) <= n /\ (n = Cardinality(ahead(i)) => R = ahead(i))
    <3> HIDE DEF ahead, R
    <3> QED
      BY <1>3, <2>1, FS_Subset
  <2>3. R # ahead(i)
    BY <2>1
  <2>4. Cardinality(ahead(i)) \in Nat
    BY <1>7
  <2> HIDE DEF ahead, R, n
  <2> QED
    BY <1>3, <2>2, <2>3, <2>4
<1>9. \A i, j \in R : Drivers!Before(i, j) => Cardinality(ahead(i)) < Cardinality(ahead(j))
  <2> SUFFICES ASSUME NEW i \in R, NEW j \in R, Drivers!Before(i, j)
               PROVE  Cardinality(ahead(i)) < Cardinality(ahead(j))
    OBVIOUS
  <2>1. ahead(i) \in SUBSET ahead(j) /\ i \in ahead(j) /\ i \notin ahead(i)
    BY <1>6
  <2> HIDE DEF ahead, R
  <2>2. /\ Cardinality(ahead(i)) <= Cardinality(ahead(j))
        /\ Cardinality(ahead(j)) = Cardinality(ahead(i)) => ahead(j) = ahead(i)
    BY <1>7, <2>1, FS_Subset
  <2> QED
    BY <1>7, <2>1, <2>2
<1>10. \A i, j \in R : Cardinality(ahead(i)) = Cardinality(ahead(j)) => i = j
  <2> HIDE DEF ahead, R
  <2> QED
    BY <1>6, <1>7, <1>9
<1>11. \A k \in 1 .. n : \E i \in R : Cardinality(ahead(i)) + 1 = k
  <2> DEFINE f == [i \in R |-> Cardinality(ahead(i)) + 1]
  <2>1. f \in Injection(R, 1 .. n)
    <3>1. f \in [R -> 1 .. n]
      BY <1>8
    <3>2. \A i, j \in R : f[i] = f[j] => i = j
      <4>1. \A i \in R : f[i] = Cardinality(ahead(i)) + 1
        OBVIOUS
      <4> HIDE DEF f, ahead, R
      <4> QED
        BY <1>7, <1>10, <4>1
    <3> HIDE DEF f, R
    <3> QED
      BY <3>1, <3>2 DEF Injection, IsInjective
  <2>2. IsFiniteSet(1 .. n) /\ Cardinality(1 .. n) = n
    <3> HIDE DEF n
    <3> QED
      BY <1>3, FS_Interval
  <2>3. f \in Surjection(R, 1 .. n)
    <3> HIDE DEF f
    <3> QED
      BY <2>1, <2>2, FS_Injection
  <2>4. \A k \in 1 .. n : \E i \in R : f[i] = k
    <3> HIDE DEF f, R
    <3> QED
      BY <2>3 DEF Surjection
  <2> QED
    BY <2>4
<1> HIDE DEF ahead, n
<1>12. \A i \in R : Drivers!Place(i) \in 1 .. n
  BY <1>4, <1>8
<1>13. \A i, j \in R : Drivers!Before(i, j) => Drivers!Place(i) < Drivers!Place(j)
  BY <1>4, <1>7, <1>9
<1>14. \A i, j \in R : Drivers!Place(i) = Drivers!Place(j) => i = j
  BY <1>4, <1>7, <1>10
<1>15. \A k \in 1 .. n : \E i \in R : Drivers!Place(i) = k
  BY <1>4, <1>11
<1> QED
  BY <1>2, <1>3, <1>4, <1>12, <1>13, <1>14, <1>15

\* Only what raised the risk is reported, the strongest first.
LEMMA RaisedFirst ==
    ASSUME Drivers!DriversInv
    PROVE  Drivers!DriversRaisedRisk
<1> DEFINE R == Drivers!Ranked
           n == Drivers!Cardinality(R)
           nth(k) == CHOOSE i \in R : Drivers!Place(i) = k
<1> SUFFICES ASSUME NEW h \in DOMAIN strongest, strongest[h].up,
                    NEW k \in DOMAIN Drivers!Drivers
             PROVE  /\ Drivers!Drivers[k].up
                    /\ \A i \in DOMAIN strongest :
                         strongest[i].up /\ strongest[i].strength > Drivers!Drivers[k].strength
                           => \E l \in 1 .. k - 1 : Drivers!Drivers[l] = strongest[i]
  BY DEF Drivers!DriversRaisedRisk
<1>1. n \in Nat /\ Limit \in Nat
  BY Places, DriversAssumed DEF Drivers!DriversAssumption
<1>2. DOMAIN Drivers!Drivers = 1 .. Drivers!Reported /\ Drivers!Reported \in Nat /\ Drivers!Reported <= n
  BY <1>1 DEF Drivers!Drivers, Drivers!Reported
<1>3. \A l \in 1 .. Drivers!Reported : Drivers!Drivers[l] = strongest[nth(l)]
  BY DEF Drivers!Drivers
<1>4. R = {i \in DOMAIN strongest : strongest[i].up}
  BY DEF Drivers!Ranked
<1>5. \A l \in 1 .. n : nth(l) \in R /\ Drivers!Place(nth(l)) = l
  <2> TAKE l \in 1 .. n
  <2>1. \E i \in R : Drivers!Place(i) = l
    BY Places
  <2> QED
    BY <2>1
<1>6. \A i \in R : Drivers!Place(i) \in 1 .. n /\ nth(Drivers!Place(i)) = i
  <2> TAKE i \in R
  <2>1. Drivers!Place(i) \in 1 .. n
    BY Places
  <2>2. nth(Drivers!Place(i)) \in R /\ Drivers!Place(nth(Drivers!Place(i))) = Drivers!Place(i)
    BY <1>5, <2>1
  <2> HIDE DEF nth
  <2> QED
    BY <2>1, <2>2, Places
<1> HIDE DEF nth
<1>7. k \in 1 .. n /\ k \in 1 .. Drivers!Reported
  BY <1>1, <1>2
<1>8. Drivers!Drivers[k].up
  BY <1>3, <1>4, <1>5, <1>7
<1>9. ASSUME NEW i \in DOMAIN strongest, strongest[i].up,
             strongest[i].strength > Drivers!Drivers[k].strength
      PROVE  \E l \in 1 .. k - 1 : Drivers!Drivers[l] = strongest[i]
  <2> DEFINE l == Drivers!Place(i)
  <2>1. i \in R
    BY <1>4, <1>9
  <2>2. Drivers!Before(i, nth(k))
    BY <1>3, <1>7, <1>9 DEF Drivers!Before
  <2>3. l < k /\ l \in 1 .. n
    BY <1>5, <1>6, <1>7, <2>1, <2>2, Places
  <2>4. l \in 1 .. k - 1 /\ l \in 1 .. Drivers!Reported
    BY <1>1, <1>2, <1>7, <2>3
  <2>5. Drivers!Drivers[l] = strongest[i]
    BY <1>3, <1>6, <2>1, <2>4
  <2> QED
    BY <2>4, <2>5
<1> QED
  BY <1>8, <1>9

\* What an explanation names raised the risk, as long as the strongest
\* contribution of some feature did, and nothing that raised it more is left
\* out.
THEOREM DriversAreReasons == SpecAll => []DriversRaisedRisk
<1>1. Drivers!Init => Drivers!DriversInv
  BY DriversStart
<1>2. Drivers!DriversInv /\ [Drivers!Next]_Drivers!vars => Drivers!DriversInv'
  BY DriversStep
<1>3. Drivers!DriversInv => DriversRaisedRisk
  BY RaisedFirst DEF DriversRaisedRisk
<1> QED
  BY <1>1, <1>2, <1>3, DriversRun, PTL DEF Drivers!Spec
===============================================================================
