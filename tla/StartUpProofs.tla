---------------------------- MODULE StartUpProofs ----------------------------
(***************************************************************************)
(* Theorems about what compose runs once.  Migrations: for any number of    *)
(* runners, edits and failures, the services find a whole schema, and a     *)
(* record vouches for what made the schema.  ReplayProducer (Replay! below):*)
(* every run replays the dataset in order, and demo mode in time.           *)
(***************************************************************************)
EXTENDS MCStartUp, FiniteSetTheorems, TLAPS

-----------------------------------------------------------------------------
(***************************************************************************)
(* Migrations.                                                             *)
(***************************************************************************)


\* The initial states have the shapes.
LEMMA ShapesInit == Init => Shapes
BY DEF Init, Shapes, Versions, Objects, Absent, Legacy

\* Advancing keeps them.
LEMMA AdvanceShapes ==
  ASSUME Shapes, NEW r \in Runners, Advance(r)
  PROVE  /\ rpc' \in [Runners -> {"idle", "look", "apply", "record", "ok", "failed"}]
         /\ idx' \in [Runners -> Versions]
BY DEF Shapes, Advance, Goto, Versions

\* Every step keeps them.
LEMMA ShapesStep ==
  ASSUME Shapes, [Next]_vars
  PROVE  Shapes'
<1>1. ASSUME NEW r \in Runners, Begin(r) \/ Fails(r) PROVE Shapes'
  BY <1>1 DEF Begin, Fails, Goto, Shapes, Versions
<1>2. ASSUME NEW r \in Runners, Look(r) PROVE Shapes'
  <2>1. sum' \in [Runners -> Nat] BY <1>2 DEF Look, Shapes, Versions
  <2>2. /\ rpc' \in [Runners -> {"idle", "look", "apply", "record", "ok", "failed"}]
        /\ idx' \in [Runners -> Versions]
    <3>1. CASE Advance(r) BY <3>1, AdvanceShapes
    <3>2. CASE UNCHANGED idx /\ (Goto(r, "apply") \/ Goto(r, "failed"))
      BY <3>2 DEF Goto, Shapes
    <3>3. QED BY <1>2, <3>1, <3>2 DEF Look
  <2>3. UNCHANGED <<file, record, made>> BY <1>2 DEF Look
  <2>4. QED BY <2>1, <2>2, <2>3 DEF Shapes
<1>3. ASSUME NEW r \in Runners, Apply(r) PROVE Shapes'
  <2>1. made' \in [Objects -> Int] BY <1>3 DEF Apply, Shapes
  <2>2. QED BY <1>3, <2>1 DEF Apply, Goto, Shapes
<1>4. ASSUME NEW r \in Runners, Record(r) PROVE Shapes'
  <2>1. CASE record[idx[r]] = Absent
    <3>1. record' = [record EXCEPT ![idx[r]] = sum[r]] /\ Advance(r)
      BY <1>4, <2>1 DEF Record
    <3>2. record' \in [Versions -> Nat] BY <3>1 DEF Shapes
    <3>3. QED BY <1>4, <3>1, <3>2, AdvanceShapes DEF Record, Shapes
  <2>2. CASE record[idx[r]] # Absent
    BY <1>4, <2>2 DEF Record, Goto, Shapes
  <2>3. QED BY <2>1, <2>2
<1>5. CASE StartServices BY <1>5 DEF StartServices, Shapes
<1>6. ASSUME NEW v \in Versions, Edit(v) PROVE Shapes'
  BY <1>6 DEF Edit, Shapes
<1>7. CASE UNCHANGED vars BY <1>7 DEF vars, Shapes
<1>8. QED BY <1>1, <1>2, <1>3, <1>4, <1>5, <1>6, <1>7 DEF Next, Work

\* Every variable keeps its shape, for any number of runners, edits and failures.
THEOREM TypeCorrect == Spec => []TypeOK
<1>1. Init => TypeOK
  <2>1. Init => up \in BOOLEAN BY Zenon DEF Init
  <2>2. Init => raced \subseteq Versions /\ faults \in Nat BY DEF Init
  <2>3. QED BY <2>1, <2>2, ShapesInit, Zenon DEF TypeOK
<1>2. TypeOK /\ [Next]_vars => TypeOK'
  <2>1. SUFFICES ASSUME TypeOK, [Next]_vars PROVE TypeOK' OBVIOUS
  <2>2. Shapes' BY <2>1, ShapesStep DEF TypeOK
  <2>3. \/ UNCHANGED <<up, raced, faults>>
        \/ faults' = faults + 1 /\ UNCHANGED <<up, raced>>
        \/ up' = TRUE /\ UNCHANGED <<raced, faults>>
        \/ \E v \in Versions : raced' \in {raced, raced \cup {v}} /\ UNCHANGED <<up, faults>>
    <3>1. ASSUME NEW r \in Runners, Fails(r) PROVE faults' = faults + 1 /\ UNCHANGED <<up, raced>>
      BY <3>1 DEF Fails, Fault
    <3>2. ASSUME NEW v \in Versions, Edit(v)
          PROVE  raced' \in {raced, raced \cup {v}} /\ UNCHANGED <<up, faults>>
      BY <3>2 DEF Edit
    <3>3. ASSUME NEW r \in Runners, Begin(r) \/ Work(r) PROVE UNCHANGED <<up, raced, faults>>
      BY <3>3 DEF Work, Begin, Look, Apply, Record
    <3>4. QED BY <2>1, <3>1, <3>2, <3>3 DEF Next, StartServices, vars
  <2>4. up' \in BOOLEAN BY <2>1, <2>3, Zenon DEF TypeOK
  <2>5. raced \subseteq Versions /\ faults \in Nat BY <2>1, Zenon DEF TypeOK
  <2>6. raced' \subseteq Versions /\ faults' \in Nat
    <3>1. raced' \subseteq Versions BY <2>3, <2>5
    <3>2. faults' \in Nat BY <2>3, <2>5
    <3>3. QED BY <3>1, <3>2
  <2>7. QED BY <2>2, <2>4, <2>6, Zenon DEF TypeOK
<1>3. QED BY <1>1, <1>2, PTL DEF Spec

-----------------------------------------------------------------------------
(* The services find the schema. *)

LEMMA SchemaInit == Init => SchemaInv
BY DEF Init, SchemaInv, Running, Versions, Absent

\* Nothing is ever dropped.
LEMMA HasStays ==
  ASSUME Shapes, \A o \in Objects : made[o] # Absent => made'[o] # Absent,
         NEW v \in Versions, Has(v)
  PROVE  Has(v)'
BY DEF Has, Objects

\* A runner that advances has the version it was at behind it.
LEMMA AdvanceKeepsSchema ==
  ASSUME Shapes, SchemaInv, NEW r \in Runners, Running(r), Has(idx[r]), Advance(r),
         UNCHANGED <<made, up>>,
         \A v \in Versions : record'[v] # Absent => record[v] # Absent \/ v = idx[r]
  PROVE  SchemaInv'
<1>1. \A v \in Versions : Has(v) => Has(v)' BY DEF Has
<1>2. \A v \in Versions : record'[v] # Absent => Has(v)'
  BY <1>1 DEF SchemaInv
<1>3. \A q \in Runners \ {r} : rpc'[q] = rpc[q] /\ idx'[q] = idx[q]
  BY DEF Advance, Goto, Shapes
<1>4. CASE idx[r] = 3
  <2>1. \A v \in Versions : Has(v)'
    BY <1>1, <1>4 DEF SchemaInv, Versions
  <2>2. rpc'[r] = "ok" /\ idx' = idx BY <1>4 DEF Advance, Goto, Shapes
  <2>3. QED BY <1>2, <2>1, <2>2, <1>3 DEF SchemaInv, Running, Shapes, Has
<1>5. CASE idx[r] # 3
  <2>1. rpc'[r] = "look" /\ idx'[r] = idx[r] + 1 BY <1>5 DEF Advance, Goto, Shapes
  <2>2. \A v \in Versions : v < idx'[r] => Has(v)'
    BY <1>1, <2>1 DEF SchemaInv, Versions, Shapes
  <2>3. QED BY <1>1, <1>2, <1>3, <2>1, <2>2 DEF SchemaInv, Running, Has
<1>6. QED BY <1>4, <1>5

\* Every step keeps it: what is recorded, and what a runner has behind it, is
\* there.
LEMMA SchemaStep ==
  ASSUME Shapes, SchemaInv, [Next]_vars
  PROVE  SchemaInv'
<1>1. ASSUME NEW r \in Runners, Begin(r) PROVE SchemaInv'
  <2>1. \A v \in Versions : ~ v < 1 BY DEF Versions
  <2>2. \A q \in Runners : \/ q = r /\ rpc'[q] = "look" /\ idx'[q] = 1
                           \/ rpc'[q] = rpc[q] /\ idx'[q] = idx[q]
    BY <1>1 DEF Begin, Goto, Shapes
  <2>3. UNCHANGED <<record, made, up>> BY <1>1 DEF Begin
  <2>4. QED BY <2>1, <2>2, <2>3 DEF SchemaInv, Running, Has
<1>2. ASSUME NEW r \in Runners, Fails(r) PROVE SchemaInv'
  <2>1. \A q \in Runners : rpc'[q] = "failed" \/ rpc'[q] = rpc[q]
    BY <1>2 DEF Fails, Goto, Shapes
  <2>2. UNCHANGED <<record, made, idx, up>> BY <1>2 DEF Fails
  <2>3. QED BY <2>1, <2>2 DEF SchemaInv, Running, Has
<1>3. ASSUME NEW r \in Runners, Look(r) PROVE SchemaInv'
  <2>1. UNCHANGED <<file, record, made, up>> /\ Running(r) BY <1>3 DEF Look, Running
  <2>2. CASE Advance(r) /\ record[idx[r]] = file[idx[r]]
    <3>1. record[idx[r]] # Absent /\ idx[r] \in Versions BY <2>2 DEF Shapes, Absent
    <3>2. Has(idx[r]) BY <3>1 DEF SchemaInv
    <3>3. QED BY <2>1, <2>2, <3>2, AdvanceKeepsSchema
  <2>3. CASE UNCHANGED idx /\ (Goto(r, "apply") \/ Goto(r, "failed"))
    <3>1. \A q \in Runners : (rpc'[q] \in {"apply", "failed"} /\ q = r) \/ rpc'[q] = rpc[q]
      BY <2>3 DEF Goto, Shapes
    <3>2. QED BY <2>1, <2>3, <3>1 DEF SchemaInv, Running, Has
  <2>4. QED BY <1>3, <2>2, <2>3 DEF Look
<1>4. ASSUME NEW r \in Runners, Apply(r) PROVE SchemaInv'
  <2>1. \A o \in Objects : made[o] # Absent => made'[o] # Absent
    BY <1>4 DEF Apply, Shapes, Absent
  <2>2. file[idx[r]] # Absent /\ idx[r] \in Versions BY DEF Shapes, Absent
  <2>3. Has(idx[r])'
    BY <1>4, <2>1, <2>2 DEF Apply, Creates, Has, Versions, Objects, Absent
  <2>4. \A v \in Versions : Has(v) => Has(v)' BY <2>1, HasStays
  <2>5. UNCHANGED <<record, idx, up>> BY <1>4 DEF Apply
  <2>6. \A q \in Runners : rpc'[q] = IF q = r THEN "record" ELSE rpc[q]
    BY <1>4 DEF Apply, Goto, Shapes
  <2>7. Running(r) BY <1>4 DEF Apply, Running
  <2>8. \A v \in Versions : record'[v] # Absent \/ up' => Has(v)'
    BY <2>4, <2>5 DEF SchemaInv
  <2>9. ASSUME NEW q \in Runners
        PROVE  /\ Running(q)' => \A v \in Versions : v < idx'[q] => Has(v)'
               /\ rpc'[q] = "record" => Has(idx[q])'
               /\ rpc'[q] = "ok" => \A v \in Versions : Has(v)'
    <3>1. Running(q)' => \A v \in Versions : v < idx'[q] => Has(v)'
      BY <2>4, <2>5, <2>6, <2>7 DEF SchemaInv, Running
    <3>2. rpc'[q] = "record" => Has(idx[q])'
      <4>1. CASE q = r BY <2>3, <4>1
      <4>2. CASE q # r /\ rpc[q] = "record"
        <5>1. Has(idx[q]) /\ idx[q] \in Versions BY <4>2 DEF SchemaInv, Shapes
        <5>2. idx' = idx BY <2>5
        <5>3. QED BY <2>1, <5>1, <5>2 DEF Has, Objects
      <4>3. QED BY <2>6, <4>1, <4>2
    <3>3. rpc'[q] = "ok" => \A v \in Versions : Has(v)'
      BY <2>4, <2>6 DEF SchemaInv
    <3>4. QED BY <3>1, <3>2, <3>3
  <2>10. QED BY <2>8, <2>9 DEF SchemaInv, Running
<1>5. ASSUME NEW r \in Runners, Record(r) PROVE SchemaInv'
  <2>1. Running(r) /\ Has(idx[r]) /\ idx[r] \in Versions
    BY <1>5 DEF Record, Running, SchemaInv, Shapes
  <2>2. UNCHANGED <<made, up>> BY <1>5 DEF Record
  <2>3. CASE record[idx[r]] = Absent
    <3>1. record' = [record EXCEPT ![idx[r]] = sum[r]] /\ Advance(r)
      BY <1>5, <2>3 DEF Record
    <3>2. \A v \in Versions : record'[v] # Absent => record[v] # Absent \/ v = idx[r]
      BY <3>1 DEF Shapes
    <3>3. QED BY <2>1, <2>2, <3>1, <3>2, AdvanceKeepsSchema
  <2>4. CASE record[idx[r]] # Absent
    <3>1. Goto(r, "failed") /\ UNCHANGED <<record, idx>> BY <1>5, <2>4 DEF Record
    <3>2. \A q \in Runners : rpc'[q] = "failed" \/ rpc'[q] = rpc[q]
      BY <3>1 DEF Goto, Shapes
    <3>3. QED BY <2>2, <3>1, <3>2 DEF SchemaInv, Running, Has
  <2>5. QED BY <2>3, <2>4
<1>6. CASE StartServices
  <2>1. PICK r \in Runners : rpc[r] = "ok" BY <1>6 DEF StartServices
  <2>2. \A v \in Versions : Has(v) BY <2>1 DEF SchemaInv
  <2>3. QED BY <1>6, <2>2 DEF StartServices, SchemaInv, Running, Has
<1>7. ASSUME NEW v \in Versions, Edit(v) PROVE SchemaInv'
  BY <1>7 DEF Edit, SchemaInv, Running, Has
<1>8. CASE UNCHANGED vars BY <1>8 DEF vars, SchemaInv, Running, Has
<1>9. QED BY <1>1, <1>2, <1>3, <1>4, <1>5, <1>6, <1>7, <1>8 DEF Next, Work

\* The services find every object they need, whatever volume they start on,
\* however many runs died between a migration and its record, and whoever else
\* ran the script.
THEOREM SchemaFound == Spec => []ServicesFindTheSchema
<1>1. Init => Shapes /\ SchemaInv BY ShapesInit, SchemaInit
<1>2. Shapes /\ SchemaInv /\ [Next]_vars => Shapes' /\ SchemaInv'
  BY ShapesStep, SchemaStep
<1>3. Shapes /\ SchemaInv => ServicesFindTheSchema
  <2> SUFFICES ASSUME Shapes, SchemaInv, up, NEW o \in Objects PROVE made[o] # Absent
    BY DEF ServicesFindTheSchema
  <2>1. \A v \in Versions : Has(v) BY DEF SchemaInv
  <2>2. QED BY <2>1 DEF Has, Versions, Objects
<1>4. QED BY <1>1, <1>2, <1>3, PTL DEF Spec

-----------------------------------------------------------------------------
(* What a record vouches for. *)

LEMMA VouchInit == Init => VouchInv
BY DEF Init, VouchInv, RecordsVouch, MadeBy, Versions, Objects, Absent, Legacy

\* A runner that ends or begins, or goes on to the next file, disturbs nothing.
LEMMA VouchUndisturbed ==
  ASSUME Shapes, VouchInv, NEW r \in Runners,
         UNCHANGED <<file, record, made, raced>>,
         \A q \in Runners : q # r => rpc'[q] = rpc[q] /\ idx'[q] = idx[q] /\ sum'[q] = sum[q],
         rpc'[r] \in {"apply", "record"} => sum'[r] = file[idx'[r]]
  PROVE  VouchInv'
<1>1. RecordsVouch' BY DEF VouchInv, RecordsVouch, MadeBy
<1>2. ASSUME NEW v \in {1, 2} \ raced', record'[v] = Absent
      PROVE  /\ made'[MadeBy[v]] \in {Absent, Legacy, file'[v]}
             /\ \A q \in Runners : rpc'[q] \in {"apply", "record"} /\ idx'[q] = v =>
                  sum'[q] = file'[v]
  BY <1>2 DEF VouchInv
<1>3. QED BY <1>1, <1>2 DEF VouchInv, MadeBy

\* Every step keeps it.
LEMMA VouchStep ==
  ASSUME Shapes, SchemaInv, VouchInv, [Next]_vars
  PROVE  VouchInv'
<1> USE DEF Absent, Legacy
<1>1. ASSUME NEW r \in Runners, Begin(r) \/ Fails(r) PROVE VouchInv'
  <2>1. /\ rpc'[r] \in {"look", "failed"}
        /\ \A q \in Runners : q # r => rpc'[q] = rpc[q] /\ idx'[q] = idx[q] /\ sum'[q] = sum[q]
        /\ UNCHANGED <<file, record, made, raced>>
    BY <1>1 DEF Begin, Fails, Goto, Shapes
  <2>2. QED BY <2>1, VouchUndisturbed
<1>2. ASSUME NEW r \in Runners, Look(r) PROVE VouchInv'
  <2>1. UNCHANGED <<file, record, made, raced>> /\ sum' = [sum EXCEPT ![r] = file[idx[r]]]
    BY <1>2 DEF Look
  <2>2. /\ rpc'[r] \in {"apply", "record"} => idx'[r] = idx[r]
        /\ \A q \in Runners : q # r => rpc'[q] = rpc[q] /\ idx'[q] = idx[q]
    BY <1>2 DEF Look, Advance, Goto, Shapes
  <2>3. /\ \A q \in Runners : q # r => sum'[q] = sum[q]
        /\ sum'[r] = file[idx[r]]
    BY <2>1 DEF Shapes
  <2>4. QED BY <2>1, <2>2, <2>3, VouchUndisturbed
<1>3. ASSUME NEW r \in Runners, Apply(r) PROVE VouchInv'
  <2>1. /\ UNCHANGED <<file, record, idx, sum, raced>>
        /\ rpc[r] = "apply" /\ \A q \in Runners : q # r => rpc'[q] = rpc[q]
    BY <1>3 DEF Apply, Goto, Shapes
  <2>2. ASSUME NEW v \in {1, 2}
        PROVE  \/ made'[MadeBy[v]] = made[MadeBy[v]]
               \/ made[MadeBy[v]] = Absent /\ made'[MadeBy[v]] = file[v]
    BY <1>3 DEF Apply, Creates, MadeBy, Versions, Objects, Shapes
  <2>3. RecordsVouch'
    BY <2>1, <2>2 DEF VouchInv, RecordsVouch, Versions, Shapes, MadeBy
  <2>4. ASSUME NEW v \in {1, 2} \ raced', record'[v] = Absent
        PROVE  /\ made'[MadeBy[v]] \in {Absent, Legacy, file'[v]}
               /\ \A q \in Runners : rpc'[q] \in {"apply", "record"} /\ idx'[q] = v =>
                    sum'[q] = file'[v]
    BY <2>1, <2>2, <2>4 DEF VouchInv
  <2>5. QED BY <2>3, <2>4 DEF VouchInv, MadeBy
<1>4. ASSUME NEW r \in Runners, Record(r) PROVE VouchInv'
  <2>1. /\ UNCHANGED <<file, made, sum, raced>>
        /\ \A q \in Runners : q # r => rpc'[q] = rpc[q] /\ idx'[q] = idx[q]
        /\ rpc'[r] \notin {"apply", "record"}
    BY <1>4 DEF Record, Advance, Goto, Shapes
  <2>2. CASE record[idx[r]] = Absent
    <3>1. record' = [record EXCEPT ![idx[r]] = sum[r]] BY <1>4, <2>2 DEF Record
    <3>2. ASSUME NEW v \in {1, 2} \ raced', record'[v] # Absent
          PROVE  made'[MadeBy[v]] \in {record'[v], Legacy}
      <4>1. CASE v = idx[r]
        <5>1. made[MadeBy[v]] \in {Absent, Legacy, file[v]} /\ sum[r] = file[v]
          BY <1>4, <2>1, <2>2, <4>1 DEF VouchInv, Record
        <5>2. made[MadeBy[v]] # Absent
          <6>1. Has(idx[r]) BY <1>4 DEF Record, SchemaInv
          <6>2. QED BY <4>1, <6>1 DEF Has, MadeBy, Versions
        <5>3. QED BY <2>1, <3>1, <4>1, <5>1, <5>2 DEF Shapes, Versions
      <4>2. CASE v # idx[r]
        <5>1. record'[v] = record[v] BY <3>1, <4>2 DEF Shapes, Versions
        <5>2. QED BY <2>1, <3>2, <5>1 DEF VouchInv, RecordsVouch
      <4>3. QED BY <4>1, <4>2
    <3>3. \A v \in {1, 2} : record'[v] = Absent => record[v] = Absent
      BY <2>2, <3>1 DEF Shapes, Versions
    <3>4. ASSUME NEW v \in {1, 2} \ raced', record'[v] = Absent
          PROVE  /\ made'[MadeBy[v]] \in {Absent, Legacy, file'[v]}
                 /\ \A q \in Runners : rpc'[q] \in {"apply", "record"} /\ idx'[q] = v =>
                      sum'[q] = file'[v]
      BY <2>1, <3>3, <3>4 DEF VouchInv
    <3>5. RecordsVouch' BY <3>2 DEF RecordsVouch, MadeBy
    <3>6. QED BY <3>4, <3>5 DEF VouchInv, MadeBy
  <2>3. CASE record[idx[r]] # Absent
    <3>1. record' = record BY <1>4, <2>3 DEF Record
    <3>2. \A q \in Runners : q # r => rpc'[q] = rpc[q] /\ idx'[q] = idx[q] /\ sum'[q] = sum[q]
      BY <2>1
    <3>3. QED BY <2>1, <3>1, <3>2, VouchUndisturbed
  <2>4. QED BY <2>2, <2>3
<1>5. CASE StartServices
  BY <1>5 DEF StartServices, VouchInv, RecordsVouch, MadeBy
<1>6. ASSUME NEW w \in Versions, Edit(w) PROVE VouchInv'
  <2>1. UNCHANGED <<record, made, rpc, idx, sum>> /\ raced \subseteq raced'
    BY <1>6 DEF Edit
  <2>2. RecordsVouch' BY <2>1 DEF VouchInv, RecordsVouch, MadeBy
  <2>3. ASSUME NEW v \in {1, 2} \ raced', record'[v] = Absent
        PROVE  /\ made'[MadeBy[v]] \in {Absent, Legacy, file'[v]}
               /\ \A q \in Runners : rpc'[q] \in {"apply", "record"} /\ idx'[q] = v =>
                    sum'[q] = file'[v]
    <3>1. CASE v = w
      <4>1. ~ Applied(v) /\ \A q \in Runners : ~ (Running(q) /\ idx[q] = v)
        BY <1>6, <2>1, <2>3, <3>1 DEF Edit
      <4>2. ~ made[MadeBy[v]] > 0
        BY <4>1 DEF Applied, MadeBy, Versions
      <4>3. made[MadeBy[v]] \in {Absent, Legacy, file[v]} /\ file[v] \in Nat \ {0}
        BY <2>1, <2>3 DEF VouchInv, Shapes, Versions
      <4>4. QED BY <2>1, <4>1, <4>2, <4>3 DEF Running
    <3>2. CASE v # w
      <4>1. file'[v] = file[v] BY <1>6, <3>2 DEF Edit, Shapes, Versions
      <4>2. QED BY <2>1, <2>3, <4>1 DEF VouchInv
    <3>3. QED BY <3>1, <3>2
  <2>4. QED BY <2>2, <2>3 DEF VouchInv, MadeBy
<1>7. CASE UNCHANGED vars BY <1>7 DEF vars, VouchInv, RecordsVouch, MadeBy
<1>8. QED BY <1>1, <1>2, <1>3, <1>4, <1>5, <1>6, <1>7 DEF Next, Work

\* The checksum of a record is that of the text that made what is there, for
\* any number of runs, deaths and edits, unless an old release made it or the
\* file was edited under a run that had not recorded it.
THEOREM RecordsAreVouchedFor == Spec => []RecordsVouch
<1>1. Init => Shapes /\ SchemaInv /\ VouchInv BY ShapesInit, SchemaInit, VouchInit
<1>2. Shapes /\ SchemaInv /\ VouchInv /\ [Next]_vars
        => Shapes' /\ SchemaInv' /\ VouchInv'
  BY ShapesStep, SchemaStep, VouchStep
<1>3. VouchInv => RecordsVouch BY DEF VouchInv
<1>4. QED BY <1>1, <1>2, <1>3, PTL DEF Spec

-----------------------------------------------------------------------------
(***************************************************************************)
(* The replay producer.                                                    *)
(***************************************************************************)

\* The greater and the lesser of two numbers.
LEMMA MaxOfTwo ==
    ASSUME NEW a \in Int, NEW b \in Int
    PROVE  /\ Replay!Max({a, b}) = IF a >= b THEN a ELSE b
           /\ Replay!Min({a, b}) = IF a <= b THEN a ELSE b
BY DEF Replay!Max, Replay!Min

\* The rows of the dataset have times.
LEMMA DatasetFacts == \A k \in DOMAIN Dataset : Dataset[k].time \in Int
<1> DEFINE RowType == [ok : BOOLEAN, time : Int]
<1>1. Dataset \in Seq(RowType)
  BY ReplayAssumed DEF Replay!ReplayAssumption
<1> HIDE DEF RowType
<1>2. \A k \in DOMAIN Dataset : Dataset[k] \in RowType
  BY <1>1
<1> QED
  BY <1>2 DEF RowType

\* A delay is never negative, and in demo mode never shorter than the gap.
LEMMA DelayFacts ==
    ASSUME Replay!Shapes, NEW delta \in Int
    PROVE  Replay!Delay(delta) \in Nat /\ (mode = "demo" => Replay!Delay(delta) >= delta)
<1>1. GapCap \in Nat /\ mode \in {"realtime", "demo", "max"}
  BY ReplayAssumed DEF Replay!ReplayAssumption, Replay!Shapes
<1>2. Replay!Max({delta, 0}) \in Nat /\ Replay!Max({delta, 0}) >= delta
  BY MaxOfTwo
<1>3. ASSUME NEW gap \in Nat
      PROVE  /\ Replay!Max({gap, 1}) \in Nat /\ Replay!Max({gap, 1}) >= gap
             /\ Replay!Min({gap, GapCap}) \in Nat
  <2>1. Replay!Max({gap, 1}) = IF gap >= 1 THEN gap ELSE 1
    BY MaxOfTwo
  <2>2. Replay!Min({gap, GapCap}) = IF gap <= GapCap THEN gap ELSE GapCap
    BY <1>1, MaxOfTwo
  <2> QED
    BY <1>1, <2>1, <2>2
<1>4. CASE mode = "max"
  BY <1>4 DEF Replay!Delay
<1> DEFINE gap == Replay!Max({delta, 0})
<1>5. CASE mode = "demo"
  <2>1. Replay!Delay(delta) = Replay!Max({gap, 1})
    BY <1>5 DEF Replay!Delay
  <2>2. Replay!Max({gap, 1}) \in Nat /\ Replay!Max({gap, 1}) >= gap
    BY <1>2, <1>3
  <2> QED
    BY <1>2, <2>1, <2>2
<1>6. CASE mode = "realtime"
  <2>1. Replay!Delay(delta) = Replay!Max({Replay!Min({gap, GapCap}), 1})
    BY <1>6 DEF Replay!Delay
  <2>2. Replay!Min({gap, GapCap}) \in Nat
    BY <1>2, <1>3
  <2> QED
    BY <1>3, <1>6, <2>1, <2>2
<1> QED
  BY <1>1, <1>4, <1>5, <1>6

\* A row, and a log of a run.
Sent == [row : DOMAIN Dataset, at : Nat]

\* A log one record longer.
LEMMA Appending ==
    ASSUME NEW log \in Seq(Sent), NEW x \in Sent
    PROVE  /\ Append(log, x) \in Seq(Sent) /\ Len(log) \in Nat
           /\ Len(Append(log, x)) = Len(log) + 1
           /\ DOMAIN Append(log, x) = 1 .. (Len(log) + 1) /\ DOMAIN log = 1 .. Len(log)
           /\ Append(log, x)[Len(log) + 1] = x
           /\ \A i \in DOMAIN log : Append(log, x)[i] = log[i]
OBVIOUS

\* What a run has read goes on the log in order, when the next event does.
LEMMA LogGrows ==
    ASSUME NEW log \in Seq(Sent), NEW new \in Seq(Sent), NEW x \in Sent,
           new = Append(log, x), x.row \in Replay!Events, Replay!InSourceOrder(log),
           Replay!InLog(log) = {e \in Replay!Events : e <= x.row - 1}
    PROVE  /\ Replay!InSourceOrder(new)
           /\ Replay!InLog(new) = {e \in Replay!Events : e <= x.row}
<1> DEFINE n == Len(log) + 1
<1>1. /\ Len(log) \in Nat /\ DOMAIN log = 1 .. Len(log) /\ DOMAIN new = 1 .. n
      /\ \A i \in DOMAIN log : i \in DOMAIN new /\ new[i] = log[i] /\ i < n
      /\ n \in DOMAIN new /\ new[n] = x /\ \A i \in DOMAIN new : i \in DOMAIN log \/ i = n
  OBVIOUS
<1> HIDE DEF n
<1>2. DOMAIN Dataset = 1 .. Len(Dataset) /\ Len(Dataset) \in Nat
  BY ReplayAssumed DEF Replay!ReplayAssumption
<1>3. x.row \in Nat /\ \A e \in Replay!Events : e \in Nat
  BY <1>2 DEF Replay!Events
<1>4. \A i \in DOMAIN log : log[i].row \in Replay!Events /\ log[i].row <= x.row - 1
  BY DEF Replay!InLog
<1>5. Replay!InLog(new) = Replay!InLog(log) \cup {x.row}
  <2>1. \A r : r \in Replay!InLog(new) <=> r \in Replay!InLog(log) \/ r = x.row
    BY <1>1 DEF Replay!InLog
  <2> QED
    BY <2>1
<1>6. \A e \in Replay!Events : e <= x.row <=> e <= x.row - 1 \/ e = x.row
  BY <1>3
<1>7. Replay!InLog(new) = {e \in Replay!Events : e <= x.row}
  BY <1>5, <1>6
<1>8. \A i, j \in DOMAIN new : i < j => new[i].row < new[j].row
  <2> SUFFICES ASSUME NEW i \in DOMAIN new, NEW j \in DOMAIN new, i < j
               PROVE  new[i].row < new[j].row
    OBVIOUS
  <2>1. i \in DOMAIN log
    BY <1>1
  <2>2. CASE j \in DOMAIN log
    BY <1>1, <2>1, <2>2 DEF Replay!InSourceOrder
  <2>3. CASE j = n
    BY <1>1, <1>3, <1>4, <2>1, <2>3
  <2> QED
    BY <1>1, <2>2, <2>3
<1>9. \A e \in Replay!Events : e <= x.row <=> \E i \in DOMAIN new : e <= new[i].row
  <2> TAKE e \in Replay!Events
  <2>1. ASSUME NEW i \in DOMAIN new, e <= new[i].row PROVE e <= x.row
    <3>1. new[i].row \in Nat /\ new[i].row <= x.row
      BY <1>1, <1>3, <1>4
    <3> QED
      BY <1>3, <2>1, <3>1
  <2> QED
    BY <1>1, <2>1
<1> QED
  BY <1>7, <1>8, <1>9 DEF Replay!InSourceOrder

\* Nothing was started at first.
LEMMA ReplayInit == Replay!Init => Replay!ReplayInv
BY ReplayAssumed DEF Replay!Init, Replay!ReplayInv, Replay!Shapes, Replay!ReplayAssumption,
   Replay!NeverAheadOfSource

\* A step that publishes nothing keeps what was said of the logs.
LEMMA LogsKeep ==
    ASSUME Replay!ReplayInv, UNCHANGED <<mode, topic>>, Replay!Shapes',
           ppc' # "down" => /\ topic # <<>> /\ Replay!RunInv(topic[Len(topic)])'
                            /\ mode = "demo" => Replay!ClockInv(topic[Len(topic)])'
    PROVE  Replay!ReplayInv'
BY DEF Replay!ReplayInv, Replay!NeverAheadOfSource, Replay!InSourceOrder, Replay!InLog,
   Replay!Events

\* What a step that puts nothing on the log must keep.
LEMMA RunKeeps ==
    ASSUME UNCHANGED <<topic, published, previous, limit>>,
           Replay!RunInv(topic[Len(topic)]),
           {e \in Replay!Events : e <= Replay!Reached'} = {e \in Replay!Events : e <= Replay!Reached},
           ppc' = "send" => row' \in Replay!Events /\ (limit # 0 => published < limit),
           ppc' = "flush" => ~ running' \/ row' = Len(Dataset) \/ (limit # 0 /\ published = limit)
    PROVE  Replay!RunInv(topic[Len(topic)])'
<1>1. Replay!InLog(topic[Len(topic)])' = Replay!InLog(topic[Len(topic)])
  BY DEF Replay!InLog
<1>2. Replay!Events' = Replay!Events
  BY DEF Replay!Events
<1>3. {e \in Replay!Events : e <= Replay!Reached}' = {e \in Replay!Events : e <= Replay!Reached'}
  BY <1>2
<1>4. Replay!InLog(topic[Len(topic)])' = {e \in Replay!Events : e <= Replay!Reached}'
  BY <1>1, <1>3 DEF Replay!RunInv
<1> QED
  BY <1>2, <1>4 DEF Replay!RunInv

\* A step of a run that publishes nothing.
LEMMA QuietStep ==
    ASSUME Replay!ReplayInv,
           \/ Replay!Connect \/ Replay!Stop \/ Replay!LeaveLoop \/ Replay!SkipRow
           \/ Replay!TakeRow \/ Replay!Complete
    PROVE  Replay!ReplayInv'
<1> DEFINE log == topic[Len(topic)]
<1>1. /\ Replay!Shapes /\ UNCHANGED <<mode, topic, published, previous, limit>>
      /\ ppc # "down" => /\ topic # <<>> /\ Replay!RunInv(log)
                         /\ mode = "demo" => Replay!ClockInv(log)
  BY DEF Replay!ReplayInv, Replay!Connect, Replay!Stop, Replay!LeaveLoop, Replay!SkipRow,
     Replay!TakeRow, Replay!Complete
<1>2. /\ Len(Dataset) \in Nat /\ DOMAIN Dataset = 1 .. Len(Dataset)
      /\ Limits \subseteq Nat
  BY ReplayAssumed DEF Replay!ReplayAssumption
<1>3. row \in 0 .. Len(Dataset) /\ row \in Nat /\ limit \in Nat /\ published \in Nat
  BY <1>1, <1>2 DEF Replay!Shapes
<1>4. \A e \in Replay!Events : e \in Nat
  BY <1>2 DEF Replay!Events
<1>5. ppc # "down" /\ ppc' # "down"
        => /\ limit # 0 => published <= limit
           /\ ppc = "send" => row \in Replay!Events /\ (limit # 0 => published < limit)
           /\ ppc = "flush" => ~ running \/ row = Len(Dataset) \/ (limit # 0 /\ published = limit)
  BY <1>1 DEF Replay!RunInv
<1>6. CASE Replay!Connect \/ Replay!LeaveLoop \/ Replay!Complete \/ Replay!Stop
  <2>1. /\ ppc # "down" /\ ppc' \in {"down", "connect", "read", "send", "flush"}
        /\ UNCHANGED <<row, slept>>
        /\ ppc' = "send" <=> ppc = "send"
    BY <1>1, <1>6 DEF Replay!Connect, Replay!LeaveLoop, Replay!Complete, Replay!Stop, Replay!Shapes
  <2>2. Replay!Shapes'
    <3>1. running' \in BOOLEAN
      <4>1. running \in BOOLEAN /\ (running' = running \/ running' = FALSE)
        BY <1>1, <1>6 DEF Replay!Connect, Replay!LeaveLoop, Replay!Complete, Replay!Stop, Replay!Shapes
      <4> QED
        BY <4>1
    <3> QED
      BY <1>1, <2>1, <3>1 DEF Replay!Shapes
  <2>3. Replay!Reached' = Replay!Reached /\ Replay!Timed' = Replay!Timed
    BY <1>1, <2>1 DEF Replay!Reached, Replay!Timed
  <2>4. ASSUME ppc' = "flush"
        PROVE  ~ running' \/ row' = Len(Dataset) \/ (limit # 0 /\ published = limit)
    <3>1. CASE Replay!LeaveLoop
      BY <1>3, <1>5, <2>4, <3>1 DEF Replay!LeaveLoop, Replay!LoopEnds
    <3>2. CASE Replay!Stop
      BY <3>2 DEF Replay!Stop
    <3>3. CASE Replay!Connect \/ Replay!Complete
      BY <2>4, <3>3 DEF Replay!Connect, Replay!Complete
    <3> QED
      BY <1>6, <3>1, <3>2, <3>3
  <2>5. ppc' # "down" => Replay!RunInv(log)'
    BY <1>1, <1>5, <2>1, <2>3, <2>4, RunKeeps
  <2>6. ppc' # "down" /\ mode = "demo" => Replay!ClockInv(log)'
    BY <1>1, <2>1, <2>3 DEF Replay!ClockInv
  <2> QED
    BY <1>1, <2>1, <2>2, <2>5, <2>6, LogsKeep
<1>7. CASE Replay!SkipRow
  <2>1. /\ ppc = "read" /\ row < Len(Dataset) /\ ~ Dataset[row + 1].ok /\ row' = row + 1
        /\ UNCHANGED <<ppc, running, slept>>
    BY <1>7 DEF Replay!SkipRow
  <2>2. Replay!Shapes'
    BY <1>1, <1>2, <1>3, <2>1 DEF Replay!Shapes
  <2>3. Replay!Reached' = row + 1 /\ Replay!Reached = row /\ Replay!Timed' = Replay!Timed
    BY <1>1, <2>1 DEF Replay!Reached, Replay!Timed
  <2>4. \A e \in Replay!Events : e <= row <=> e <= row + 1
    <3>1. \A e \in Replay!Events : e # row + 1
      BY <2>1 DEF Replay!Events
    <3> QED
      BY <1>3, <1>4, <3>1
  <2>5. Replay!RunInv(log)'
    <3>1. {e \in Replay!Events : e <= Replay!Reached'} = {e \in Replay!Events : e <= Replay!Reached}
      BY <2>3, <2>4
    <3> QED
      BY <1>1, <2>1, <3>1, RunKeeps
  <2>6. mode = "demo" => Replay!ClockInv(log)'
    BY <1>1, <2>1, <2>3 DEF Replay!ClockInv
  <2> QED
    BY <1>1, <2>1, <2>2, <2>5, <2>6, LogsKeep
<1>8. CASE Replay!TakeRow
  <2>1. /\ ppc = "read" /\ ppc' = "send" /\ ~ Replay!LoopEnds /\ row < Len(Dataset)
        /\ Dataset[row + 1].ok /\ row' = row + 1 /\ UNCHANGED running
        /\ slept' = IF previous = 0 THEN slept
                    ELSE slept + Replay!Delay(Dataset[row + 1].time - Dataset[previous].time)
    BY <1>8 DEF Replay!TakeRow
  <2>2. row + 1 \in Replay!Events /\ row + 1 \in DOMAIN Dataset
    BY <1>2, <1>3, <2>1 DEF Replay!Events
  <2>3. \A k \in DOMAIN Dataset : Dataset[k].time \in Int
    BY DatasetFacts
  <2> DEFINE delta == Dataset[row + 1].time - Dataset[previous].time
  <2>4. ASSUME previous # 0
        PROVE  /\ previous \in DOMAIN Dataset
               /\ delta \in Int /\ Replay!Delay(delta) \in Nat
               /\ mode = "demo" => Replay!Delay(delta) >= delta
    <3>1. previous \in DOMAIN Dataset
      BY <1>1, <1>2, <2>4 DEF Replay!Shapes
    <3>2. delta \in Int
      BY <2>2, <2>3, <3>1
    <3> HIDE DEF delta
    <3> QED
      BY <1>1, <3>1, <3>2, DelayFacts
  <2>5. slept \in Nat /\ slept' \in Nat
    BY <1>1, <2>1, <2>4 DEF Replay!Shapes
  <2>6. Replay!Shapes'
    BY <1>1, <1>2, <1>3, <2>1, <2>5 DEF Replay!Shapes
  <2>7. Replay!Reached' = row /\ Replay!Reached = row /\ Replay!Timed' = row + 1
    BY <1>3, <2>1 DEF Replay!Reached, Replay!Timed
  <2>8. Replay!RunInv(log)'
    <3>1. limit # 0 => published < limit
      BY <1>3, <2>1 DEF Replay!LoopEnds
    <3> QED
      BY <1>1, <2>1, <2>2, <2>7, <3>1, RunKeeps
  <2>9. ASSUME mode = "demo", log # <<>>
        PROVE  slept' >= Dataset[row + 1].time - Dataset[log[1].row].time
    <3>1. log \in Seq(Sent)
      <4>1. topic \in Seq(Seq(Sent)) /\ topic # <<>>
        BY <1>1, <2>1 DEF Replay!Shapes, Sent
      <4>2. Len(topic) \in DOMAIN topic
        BY <4>1
      <4> QED
        BY <4>1, <4>2
    <3>2. 1 \in DOMAIN log /\ Len(log) \in DOMAIN log
      BY <2>9, <3>1
    <3>3. log[1] \in Sent /\ log[Len(log)] \in Sent
      BY <3>1, <3>2
    <3>4. log[1].row \in DOMAIN Dataset /\ log[Len(log)].row \in DOMAIN Dataset
      BY <3>3 DEF Sent
    <3>5. previous # 0
      BY <1>1, <1>2, <2>1, <2>9, <3>4 DEF Replay!RunInv
    <3>6. slept >= Dataset[previous].time - Dataset[log[1].row].time
      BY <1>1, <2>1, <2>9 DEF Replay!ClockInv, Replay!Timed
    <3>7. slept' = slept + Replay!Delay(delta) /\ Replay!Delay(delta) >= delta
      BY <2>1, <2>4, <2>9, <3>5
    <3>8. /\ Dataset[previous].time \in Int /\ Dataset[log[1].row].time \in Int
          /\ Dataset[row + 1].time \in Int
      BY <2>2, <2>3, <2>4, <3>4, <3>5
    <3> QED
      BY <2>4, <2>5, <3>5, <3>6, <3>7, <3>8
  <2>10. mode = "demo" => Replay!ClockInv(log)'
    BY <1>1, <2>1, <2>7, <2>9 DEF Replay!ClockInv
  <2> QED
    BY <1>1, <2>1, <2>6, <2>8, <2>10, LogsKeep
<1> QED
  BY <1>6, <1>7, <1>8

\* The broker has the record of the row that is being sent.
LEMMA RecordArrives ==
    ASSUME Replay!ReplayInv, ppc = "send", Replay!Arrives, UNCHANGED mode
    PROVE  /\ topic' \in Seq(Seq([row : DOMAIN Dataset, at : Nat])) /\ topic' # <<>>
           /\ \A k \in DOMAIN topic' : Replay!InSourceOrder(topic[k])'
           /\ Replay!NeverAheadOfSource'
           /\ Len(topic'[Len(topic')]) = published + 1
           /\ topic'[Len(topic')] # <<>>
           /\ topic'[Len(topic')][published + 1].row = row
           /\ Replay!InLog(topic'[Len(topic')]) = {e \in Replay!Events : e <= row}
           /\ mode = "demo" => slept >= Dataset[row].time - Dataset[topic'[Len(topic')][1].row].time
<1> DEFINE last == Len(topic)
           log == topic[last]
           x == [row |-> row, at |-> slept]
           new == Append(log, x)
<1>1. /\ Replay!Shapes /\ topic # <<>> /\ Replay!RunInv(log)
      /\ mode = "demo" => Replay!ClockInv(log)
      /\ \A k \in DOMAIN topic : Replay!InSourceOrder(topic[k])
      /\ Replay!NeverAheadOfSource
  BY DEF Replay!ReplayInv
<1>2. topic \in Seq(Seq(Sent)) /\ last \in Nat /\ last \in DOMAIN topic /\ log \in Seq(Sent)
  <2>1. topic \in Seq(Seq(Sent)) /\ topic # <<>>
    BY <1>1 DEF Replay!Shapes, Sent
  <2>2. last \in Nat /\ last \in DOMAIN topic
    BY <2>1
  <2> QED
    BY <2>1, <2>2
<1>3. topic' = [topic EXCEPT ![last] = new]
  BY DEF Replay!Arrives
<1>4. x \in Sent /\ x.row = row /\ x.at = slept /\ row \in Replay!Events /\ row \in Nat
      /\ slept \in Nat
  BY <1>1 DEF Sent, Replay!Shapes, Replay!RunInv, Replay!Events
<1> HIDE DEF log, x
<1>5. /\ new \in Seq(Sent) /\ new # <<>> /\ Len(log) \in Nat /\ Len(new) = Len(log) + 1
      /\ DOMAIN new = 1 .. Len(new) /\ DOMAIN log = 1 .. Len(log)
      /\ new[Len(log) + 1] = x
      /\ \A i \in DOMAIN log : new[i] = log[i]
  <2>1. /\ new \in Seq(Sent) /\ Len(log) \in Nat /\ Len(new) = Len(log) + 1
        /\ DOMAIN new = 1 .. (Len(log) + 1) /\ DOMAIN log = 1 .. Len(log)
        /\ new[Len(log) + 1] = x
        /\ \A i \in DOMAIN log : new[i] = log[i]
    BY <1>2, <1>4, Appending
  <2> HIDE DEF new
  <2> QED
    BY <2>1
<1>6. Replay!InSourceOrder(new) /\ Replay!InLog(new) = {e \in Replay!Events : e <= row}
  <2>1. Replay!InSourceOrder(log) /\ Replay!InLog(log) = {e \in Replay!Events : e <= row - 1}
    BY <1>1, <1>2 DEF Replay!RunInv, Replay!Reached, log
  <2>2. new = Append(log, x)
    OBVIOUS
  <2> HIDE DEF new
  <2>3. Replay!InLog(log) = {e \in Replay!Events : e <= x.row - 1} /\ x.row \in Replay!Events
    BY <1>4, <2>1
  <2>4. Replay!InSourceOrder(new) /\ Replay!InLog(new) = {e \in Replay!Events : e <= x.row}
    <3>1. log \in Seq(Sent) /\ new \in Seq(Sent) /\ x \in Sent /\ Replay!InSourceOrder(log)
      BY <1>2, <1>4, <1>5, <2>1
    <3> QED
      BY <2>2, <2>3, <3>1, LogGrows
  <2> QED
    BY <1>4, <2>4
<1> HIDE DEF new
<1>7. Len(log) = published
  BY <1>1 DEF Replay!RunInv
<1>8. topic' \in Seq(Seq(Sent)) /\ DOMAIN topic' = DOMAIN topic /\ Len(topic') = last
      /\ topic'[last] = new /\ \A k \in DOMAIN topic : k # last => topic'[k] = topic[k]
  BY <1>2, <1>3, <1>5
<1>9. \A k \in DOMAIN topic' : Replay!InSourceOrder(topic[k])'
  <2> TAKE k \in DOMAIN topic'
  <2>1. CASE k = last
    <3>1. topic'[k] = new
      BY <1>8, <2>1
    <3>2. Replay!InSourceOrder(new)
      BY <1>6
    <3>3. Replay!InSourceOrder(topic[k])' <=> Replay!InSourceOrder(new)
      BY <3>1 DEF Replay!InSourceOrder, Replay!InLog, Replay!Events
    <3> QED
      BY <3>2, <3>3
  <2>2. CASE k # last
    <3>1. topic'[k] = topic[k] /\ k \in DOMAIN topic
      BY <1>8, <2>2
    <3>2. Replay!InSourceOrder(topic[k])
      BY <1>1, <3>1
    <3>3. Replay!InSourceOrder(topic[k])' <=> Replay!InSourceOrder(topic[k])
      BY <3>1 DEF Replay!InSourceOrder, Replay!InLog, Replay!Events
    <3> QED
      BY <3>2, <3>3
  <2> QED
    BY <2>1, <2>2
<1>10. ASSUME mode = "demo"
       PROVE  /\ slept >= Dataset[row].time - Dataset[new[1].row].time
              /\ \A i \in DOMAIN new : new[i].at >= Dataset[new[i].row].time - Dataset[new[1].row].time
  <2>1. CASE log = <<>>
    <3>1. new[1] = x /\ DOMAIN new = {1}
      BY <1>5, <2>1
    <3>2. Dataset[row].time \in Int
      BY <1>4, DatasetFacts DEF Replay!Events
    <3> QED
      BY <1>4, <3>1, <3>2
  <2>2. CASE log # <<>>
    <3>1. 1 \in DOMAIN log /\ new[1] = log[1]
      BY <1>2, <1>5, <2>2
    <3>2. slept >= Dataset[row].time - Dataset[log[1].row].time
      BY <1>1, <1>10, <2>2 DEF Replay!ClockInv, Replay!Timed
    <3>3. \A i \in DOMAIN log : log[i].at >= Dataset[log[i].row].time - Dataset[log[1].row].time
      BY <1>1, <1>10 DEF Replay!NeverAheadOfSource, log
    <3>4. \A i \in DOMAIN new : i \in DOMAIN log \/ i = Len(log) + 1
      BY <1>5
    <3> QED
      BY <1>4, <1>5, <3>1, <3>2, <3>3, <3>4
  <2> QED
    BY <2>1, <2>2
<1>11. Replay!NeverAheadOfSource'
  BY <1>8, <1>10 DEF Replay!NeverAheadOfSource
<1>12. topic' \in Seq(Seq([row : DOMAIN Dataset, at : Nat])) /\ topic' # <<>>
  BY <1>1, <1>8 DEF Sent
<1>13. topic'[Len(topic')] = new
  BY <1>8
<1>14. Len(new) = published + 1 /\ new # <<>> /\ new[published + 1].row = row
  BY <1>4, <1>5, <1>7
<1> QED
  BY <1>6, <1>9, <1>10, <1>11, <1>12, <1>13, <1>14

\* A run starts, with nothing on its log.
LEMMA StartStep == ASSUME Replay!ReplayInv, Replay!Start PROVE Replay!ReplayInv'
<1> DEFINE Rows == [row : DOMAIN Dataset, at : Nat]
<1>1. /\ Replay!Shapes /\ \A k \in DOMAIN topic : Replay!InSourceOrder(topic[k])
      /\ Limits \subseteq Nat /\ Len(Dataset) \in Nat
  BY ReplayAssumed DEF Replay!ReplayInv, Replay!ReplayAssumption
<1>2. /\ topic' = Append(topic, <<>>) /\ ppc' = "connect" /\ running' = TRUE
      /\ mode' \in Modes /\ limit' \in Limits
      /\ row' = 0 /\ published' = 0 /\ previous' = 0 /\ slept' = 0
  BY DEF Replay!Start
<1>3. topic \in Seq(Seq(Rows))
  BY <1>1 DEF Replay!Shapes
<1> HIDE DEF Rows
<1>4. /\ topic' \in Seq(Seq(Rows)) /\ topic' # <<>> /\ topic'[Len(topic')] = <<>>
      /\ \A k \in DOMAIN topic' : topic'[k] = <<>> \/ (k \in DOMAIN topic /\ topic'[k] = topic[k])
  <2>1. <<>> \in Seq(Rows)
    OBVIOUS
  <2> QED
    BY <1>2, <1>3, <2>1
<1>5. Replay!Shapes'
  BY <1>1, <1>2, <1>4 DEF Replay!Shapes, Rows
<1>6. \A k \in DOMAIN topic' : Replay!InSourceOrder(topic[k])'
  <2> TAKE k \in DOMAIN topic'
  <2>1. CASE topic'[k] = <<>>
    BY <2>1 DEF Replay!InSourceOrder, Replay!InLog, Replay!Events
  <2>2. CASE k \in DOMAIN topic /\ topic'[k] = topic[k]
    <3>1. Replay!InSourceOrder(topic[k])
      BY <1>1, <2>2
    <3>2. Replay!InSourceOrder(topic[k])' <=> Replay!InSourceOrder(topic[k])
      BY <2>2 DEF Replay!InSourceOrder, Replay!InLog, Replay!Events
    <3> QED
      BY <3>1, <3>2
  <2> QED
    BY <1>4, <2>1, <2>2
<1>7. Replay!RunInv(topic[Len(topic)])'
  <2>1. Replay!Reached' = 0
    BY <1>2 DEF Replay!Reached
  <2>2. \A e \in Replay!Events : ~ (e <= 0)
    BY <1>1, ReplayAssumed DEF Replay!Events, Replay!ReplayAssumption
  <2>3. Replay!InLog(topic[Len(topic)])' = {} /\ Replay!Events' = Replay!Events
    BY <1>4 DEF Replay!InLog, Replay!Events
  <2>4. {e \in Replay!Events : e <= Replay!Reached}' = {}
    BY <2>1, <2>2, <2>3
  <2> QED
    BY <1>1, <1>2, <1>4, <2>3, <2>4 DEF Replay!RunInv
<1>8. Replay!NeverAheadOfSource' /\ Replay!ClockInv(topic[Len(topic)])'
  BY <1>4 DEF Replay!NeverAheadOfSource, Replay!ClockInv
<1> QED
  BY <1>4, <1>5, <1>6, <1>7, <1>8 DEF Replay!ReplayInv

\* The record is confirmed: what is on the log is what was read.
LEMMA DeliveredStep == ASSUME Replay!ReplayInv, Replay!Delivered PROVE Replay!ReplayInv'
<1>1. /\ ppc = "send" /\ Replay!Arrives /\ published' = published + 1 /\ previous' = row
      /\ ppc' = "read" /\ UNCHANGED <<mode, limit, row, slept, running>>
  BY DEF Replay!Delivered
<1>2. /\ Replay!Shapes /\ Replay!RunInv(topic[Len(topic)])
      /\ Limits \subseteq Nat
  BY <1>1, ReplayAssumed DEF Replay!ReplayInv, Replay!ReplayAssumption
<1>3. Replay!Shapes'
  BY <1>1, <1>2, RecordArrives DEF Replay!Shapes
<1>4. Replay!RunInv(topic[Len(topic)])'
  <2>1. /\ published \in Nat /\ limit \in Nat /\ (limit # 0 => published < limit)
    BY <1>1, <1>2 DEF Replay!Shapes, Replay!RunInv
  <2>2. Replay!Reached' = row /\ Replay!Events' = Replay!Events
    BY <1>1 DEF Replay!Reached, Replay!Events
  <2>3. {e \in Replay!Events : e <= Replay!Reached}' = {e \in Replay!Events : e <= row}
    BY <2>2
  <2>4. Replay!InLog(topic[Len(topic)])' = {e \in Replay!Events : e <= row}
    <3>1. Replay!InLog(topic'[Len(topic')]) = {e \in Replay!Events : e <= row}
      BY <1>1, RecordArrives
    <3> QED
      BY <3>1 DEF Replay!InLog
  <2>5. /\ Len(topic'[Len(topic')]) = published + 1 /\ topic'[Len(topic')] # <<>>
        /\ topic'[Len(topic')][published + 1].row = row
    BY <1>1, RecordArrives
  <2> QED
    BY <1>1, <2>1, <2>3, <2>4, <2>5 DEF Replay!RunInv
<1>5. mode = "demo" => Replay!ClockInv(topic[Len(topic)])'
  BY <1>1, RecordArrives DEF Replay!ClockInv, Replay!Timed
<1> QED
  BY <1>1, <1>3, <1>4, <1>5, RecordArrives DEF Replay!ReplayInv

\* The process is gone, before or after the broker had the record.
LEMMA DownStep ==
    ASSUME Replay!ReplayInv, Replay!PublishRaises \/ Replay!Crash
    PROVE  Replay!ReplayInv'
<1>1. /\ ppc' = "down"
      /\ UNCHANGED <<mode, limit, row, published, previous, slept, running>>
      /\ UNCHANGED topic \/ (ppc = "send" /\ Replay!Arrives)
  BY DEF Replay!PublishRaises, Replay!Crash
<1>2. Replay!Shapes
  BY DEF Replay!ReplayInv
<1>3. running' \in BOOLEAN
  <2>1. running \in BOOLEAN /\ running' = running
    BY <1>1, <1>2 DEF Replay!Shapes
  <2> QED
    BY <2>1
<1>4. CASE UNCHANGED topic
  <2>1. Replay!Shapes'
    BY <1>1, <1>2, <1>3, <1>4 DEF Replay!Shapes
  <2> QED
    BY <1>1, <1>4, <2>1, LogsKeep
<1>5. CASE ppc = "send" /\ Replay!Arrives
  <2>1. Replay!Shapes'
    BY <1>1, <1>2, <1>3, <1>5, RecordArrives DEF Replay!Shapes
  <2> QED
    BY <1>1, <1>5, <2>1, RecordArrives DEF Replay!ReplayInv
<1> QED
  BY <1>1, <1>4, <1>5

\* Neither part of the start-up moves the other.
LEMMA ReplayKept == SpecAll => []Replay!ReplayInv
<1>1. InitAll => Replay!ReplayInv
  BY ReplayInit DEF InitAll
<1>2. Replay!ReplayInv /\ [NextAll]_all => Replay!ReplayInv'
  <2> SUFFICES ASSUME Replay!ReplayInv, [NextAll]_all PROVE Replay!ReplayInv'
    OBVIOUS
  <2>1. CASE UNCHANGED producer
    <3>1. /\ UNCHANGED <<ppc, mode, limit, row, published, previous, slept, running, topic>>
          /\ Replay!Shapes
          /\ ppc # "down" => /\ topic # <<>> /\ Replay!RunInv(topic[Len(topic)])
                             /\ mode = "demo" => Replay!ClockInv(topic[Len(topic)])
      BY <2>1 DEF producer, Replay!ReplayInv
    <3>2. Replay!Shapes'
      <4>1. running' \in BOOLEAN
        BY <3>1 DEF Replay!Shapes
      <4> QED
        BY <3>1, <4>1 DEF Replay!Shapes
    <3>3. Replay!Reached' = Replay!Reached /\ Replay!Timed' = Replay!Timed
      BY <3>1 DEF Replay!Reached, Replay!Timed
    <3>4. ppc # "down"
            => /\ ppc = "send" => row \in Replay!Events /\ (limit # 0 => published < limit)
               /\ ppc = "flush" => ~ running \/ row = Len(Dataset)
                                    \/ (limit # 0 /\ published = limit)
      BY <3>1 DEF Replay!RunInv
    <3>5. ppc' # "down" => Replay!RunInv(topic[Len(topic)])'
      BY <3>1, <3>3, <3>4, RunKeeps
    <3>6. ppc' # "down" /\ mode = "demo" => Replay!ClockInv(topic[Len(topic)])'
      BY <3>1, <3>3 DEF Replay!ClockInv
    <3> QED
      BY <3>1, <3>2, <3>5, <3>6, LogsKeep
  <2>2. CASE Replay!Next
    BY <2>2, QuietStep, StartStep, DeliveredStep, DownStep DEF Replay!Next
  <2> QED
    BY <2>1, <2>2 DEF NextAll, OfSchema, OfReplay, all
<1> QED
  BY <1>1, <1>2, PTL DEF SpecAll

\* In demo mode no event goes out ahead of the source clock, whatever the
\* dataset, the cap on gaps and the runs before.
THEOREM SourceClockIsKept == SpecAll => []NeverAheadOfSource
<1>1. Replay!ReplayInv => NeverAheadOfSource
  BY DEF Replay!ReplayInv, NeverAheadOfSource
<1> QED
  BY <1>1, ReplayKept, PTL

\* A log that is in source order names as many rows as it is long.
LEMMA RowsOfLog ==
    ASSUME NEW log \in Seq(Sent), Replay!InSourceOrder(log)
    PROVE  IsFiniteSet(Replay!InLog(log)) /\ Cardinality(Replay!InLog(log)) = Len(log)
<1> DEFINE f == [i \in 1 .. Len(log) |-> log[i].row]
<1>1. Len(log) \in Nat /\ DOMAIN log = 1 .. Len(log)
  OBVIOUS
<1>2. f \in Surjection(1 .. Len(log), Replay!InLog(log))
  BY <1>1 DEF Surjection, Replay!InLog
<1>3. f \in Injection(1 .. Len(log), Replay!InLog(log))
  <2>1. \A i \in 1 .. Len(log) : log[i].row \in Int
    <3>1. \A i \in 1 .. Len(log) : log[i] \in Sent
      BY <1>1
    <3>2. DOMAIN Dataset \subseteq Int
      BY ReplayAssumed DEF Replay!ReplayAssumption
    <3> QED
      BY <3>1, <3>2 DEF Sent
  <2>2. \A i, j \in 1 .. Len(log) : i < j => log[i].row < log[j].row
    BY <1>1 DEF Replay!InSourceOrder
  <2>3. \A i, j \in 1 .. Len(log) : f[i] = f[j] => i = j
    BY <1>1, <2>1, <2>2
  <2> QED
    BY <1>2, <2>3 DEF Injection, Surjection, IsInjective
<1>4. IsFiniteSet(1 .. Len(log)) /\ Cardinality(1 .. Len(log)) = Len(log)
  BY <1>1, FS_Interval
<1> HIDE DEF f
<1> QED
  BY <1>2, <1>3, <1>4, FS_Surjection

\* Whatever fails, a run puts on the topic the beginning of the dataset's
\* events, in their order, none twice and none passed over; and all of them, or
\* as many as the limit says, when it comes to its end unstopped.
THEOREM ReplayIsInOrder == SpecAll => []RunsReplayInOrder
<1> DEFINE N == Cardinality(Replay!Events)
<1>1. IsFiniteSet(Replay!Events) /\ N \in Nat
  <2>1. Len(Dataset) \in Nat /\ DOMAIN Dataset = 1 .. Len(Dataset)
    BY ReplayAssumed DEF Replay!ReplayAssumption
  <2>2. IsFiniteSet(1 .. Len(Dataset)) /\ Replay!Events \in SUBSET (1 .. Len(Dataset))
    BY <2>1, FS_Interval DEF Replay!Events
  <2> QED
    BY <2>2, FS_Subset, FS_CardinalityType
<1>2. N = Replay!Cardinality(Replay!Events)
  BY DEF Cardinality, Replay!Cardinality
<1> HIDE DEF N
<1>3. Replay!ReplayInv => RunsReplayInOrder
  <2> SUFFICES ASSUME Replay!ReplayInv, ppc = "flush", running
               PROVE  Len(topic[Len(topic)]) = IF limit = 0 THEN N ELSE Replay!Min({limit, N})
    BY <1>2 DEF Replay!ReplayInv, RunsReplayInOrder, Replay!RunsReplayInOrder
  <2> DEFINE log == topic[Len(topic)]
  <2>1. /\ Replay!Shapes /\ topic # <<>> /\ Replay!RunInv(log)
        /\ \A k \in DOMAIN topic : Replay!InSourceOrder(topic[k])
    BY DEF Replay!ReplayInv
  <2>2. log \in Seq(Sent) /\ Replay!InSourceOrder(log)
    <3>1. topic \in Seq(Seq(Sent)) /\ topic # <<>>
      BY <2>1 DEF Replay!Shapes, Sent
    <3>2. Len(topic) \in DOMAIN topic
      BY <3>1
    <3> QED
      BY <2>1, <3>1, <3>2
  <2> HIDE DEF log
  <2>3. IsFiniteSet(Replay!InLog(log)) /\ Cardinality(Replay!InLog(log)) = Len(log)
        /\ Len(log) \in Nat
    BY <2>2, RowsOfLog
  <2>4. limit \in Nat /\ (limit # 0 => Len(log) <= limit)
    BY <2>1, ReplayAssumed DEF Replay!RunInv, Replay!Shapes, Replay!ReplayAssumption
  <2>5. Replay!InLog(log) \in SUBSET Replay!Events
    BY <2>1 DEF Replay!RunInv
  <2>6. Len(log) <= N
    BY <1>1, <2>3, <2>5, FS_Subset DEF N
  <2>7. CASE row = Len(Dataset)
    <3>1. \A e \in Replay!Events : e <= Replay!Reached
      BY <2>7, ReplayAssumed DEF Replay!Events, Replay!Reached, Replay!ReplayAssumption
    <3>2. Len(log) = N
      BY <2>1, <2>3, <3>1 DEF Replay!RunInv, N
    <3>3. Replay!Min({limit, N}) = IF limit <= N THEN limit ELSE N
      <4>1. limit \in Int /\ N \in Int
        BY <1>1, <2>4
      <4> QED
        BY <4>1, MaxOfTwo
    <3> QED
      BY <1>1, <2>4, <3>2, <3>3 DEF log
  <2>8. CASE limit # 0 /\ Len(log) = limit
    <3>1. Replay!Min({limit, N}) = limit
      BY <1>1, <2>4, <2>6, <2>8, MaxOfTwo
    <3> QED
      BY <2>8, <3>1 DEF log
  <2> QED
    BY <2>1, <2>7, <2>8 DEF Replay!RunInv
<1> QED
  BY <1>3, ReplayKept, PTL
=============================================================================
