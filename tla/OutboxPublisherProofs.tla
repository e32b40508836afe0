------------------------ MODULE OutboxPublisherProofs ------------------------
(***************************************************************************)
(* Theorems about OutboxPublisher: types, the exclusiveness of leases, and *)
(* what a marked row and an attempt are worth.                             *)
(***************************************************************************)
EXTENDS OutboxPublisher, FiniteSetTheorems, TLAPS

\* NoRow is not a row: the rows are numbered from zero on.
LEMMA NoRowIsNoRow == NoRow \notin Rows
BY OutboxAssumption DEF NoRow

-----------------------------------------------------------------------------
(* Types. *)

\* The initial state is well typed.
LEMMA TypeInit == Init => TypeOK
BY DEF Init, TypeOK, Locations, NoToken, NoRow

\* A claim keeps the table and the leases well typed.
LEMMA TakeLeaseTypes ==
  ASSUME TypeOK, TakeLease
  PROVE  /\ claims' \in Nat /\ expired' \in SUBSET Nat
         /\ claim' \in [Rows -> Nat] /\ attempts' \in [Rows -> Nat]
         /\ status' = status /\ backoff' = backoff
BY DEF TypeOK, TakeLease

\* So does handing the next row to publish_json, with or without a copy.
LEMMA SendsTypes ==
  ASSUME TypeOK, NEW p \in Publishers, NEW r \in Rows, Sends(p, r)
  PROVE  /\ mine' \in [Publishers -> SUBSET Rows]
         /\ cur' \in [Publishers -> Rows \cup {NoRow}]
         /\ [copies EXCEPT ![r] = @ + 1] \in [Rows -> Nat]
BY DEF TypeOK, Sends

\* Every step keeps every variable well typed.
LEMMA TypeStep ==
  ASSUME TypeOK, [Next]_vars
  PROVE  TypeOK'
<1> USE DEF TypeOK, Locations, Fault, NoToken, NoRow
<1>1. ASSUME NEW r \in Rows, Insert(r) \/ Retire(r) \/ BackoffEnds(r)
      PROVE TypeOK'
  BY <1>1 DEF Insert, Retire, BackoffEnds, leases, local
<1>2. ASSUME NEW t \in 1 .. claims, Expire(t) PROVE TypeOK'
  <2>1. expired' \in SUBSET Nat /\ faults' \in Nat
    BY <1>2 DEF Expire
  <2>2. QED BY <1>2, <2>1 DEF Expire, table, local
<1>3. ASSUME NEW p \in Publishers, Start(p) PROVE TypeOK'
  BY <1>3 DEF Start, table, leases
<1>4. ASSUME NEW p \in Publishers, Claim(p) PROVE TypeOK'
  <2>1. Oldest(Claimable) \in SUBSET Rows BY DEF Oldest, Claimable
  <2>2. /\ pc' \in [Publishers -> Locations] /\ tok' \in [Publishers -> Nat]
        /\ mine' \in [Publishers -> SUBSET Rows]
    BY <1>4, <2>1 DEF Claim
  <2>3. /\ copies' = copies /\ cur' = cur /\ late' = late /\ faults' = faults
        /\ TakeLease
    BY <1>4 DEF Claim
  <2>4. QED BY <2>2, <2>3, TakeLeaseTypes
<1>5. ASSUME NEW p \in Publishers, ClaimRaises(p) PROVE TypeOK'
  <2>1. TakeLease /\ copies' = copies /\ faults' \in Nat BY <1>5 DEF ClaimRaises
  <2>2. /\ pc' \in [Publishers -> Locations] /\ tok' \in [Publishers -> Nat]
        /\ mine' \in [Publishers -> SUBSET Rows] /\ late' \in [Publishers -> BOOLEAN]
        /\ cur' \in [Publishers -> Rows \cup {NoRow}]
    BY <1>5 DEF ClaimRaises, Gone
  <2>3. QED BY <2>1, <2>2, TakeLeaseTypes
<1>6. ASSUME NEW p \in Publishers, Acked(p) \/ DeliveryFails(p) \/ DeliveryTimesOut(p)
      PROVE TypeOK'
  <2>1. PICK r \in Rows : /\ Sends(p, r)
                          /\ \/ copies' = copies
                             \/ copies' = [copies EXCEPT ![r] = @ + 1]
    BY <1>6 DEF Acked, DeliveryFails, DeliveryTimesOut
  <2>2. /\ mine' \in [Publishers -> SUBSET Rows] /\ copies' \in [Rows -> Nat]
        /\ cur' \in [Publishers -> Rows \cup {NoRow}]
    BY <2>1, SendsTypes
  <2>3. late' \in [Publishers -> BOOLEAN] /\ faults' \in Nat
    BY <1>6 DEF Acked, DeliveryFails, DeliveryTimesOut
  <2>4. /\ pc' \in [Publishers -> Locations] /\ tok' = tok
        /\ UNCHANGED <<table, leases>>
    BY <1>6 DEF Acked, DeliveryFails, DeliveryTimesOut
  <2>5. QED BY <2>2, <2>3, <2>4 DEF table, leases
<1>9. ASSUME NEW p \in Publishers, ArrivesLate(p) PROVE TypeOK'
  <2>1. copies' \in [Rows -> Nat]
    <3>1. copies' = [copies EXCEPT ![cur[p]] = @ + 1] BY <1>9 DEF ArrivesLate
    <3>2. cur[p] \in Rows => copies[cur[p]] + 1 \in Nat OBVIOUS
    <3>3. QED BY <3>1, <3>2
  <2>2. QED BY <1>9, <2>1 DEF ArrivesLate, table, leases
<1>10. ASSUME NEW p \in Publishers, Mark(p) \/ MarkRaises(p) PROVE TypeOK'
  <2>1. /\ status' \in [Rows -> {"absent", "pending", "published", "deleted"}]
        /\ claim' \in [Rows -> Nat] /\ backoff' = backoff /\ attempts' = attempts
    BY <1>10 DEF Mark, MarkRaises, MarkPublished, table
  <2>2. /\ pc' \in [Publishers -> Locations] /\ tok' \in [Publishers -> Nat]
        /\ cur' \in [Publishers -> Rows \cup {NoRow}]
    BY <1>10 DEF Mark, MarkRaises
  <2>3. UNCHANGED <<leases, copies, mine, late>> /\ faults' \in Nat
    BY <1>10 DEF Mark, MarkRaises
  <2>4. QED BY <2>1, <2>2, <2>3 DEF leases
<1>11. ASSUME NEW p \in Publishers, Release(p) PROVE TypeOK'
  <2>1. UNCHANGED <<status, attempts, leases, copies, tok, mine, cur, late, faults>>
    BY <1>11 DEF Release, table
  <2>2. claim' \in [Rows -> Nat] /\ backoff' \in [Rows -> BOOLEAN]
    <3>1. CASE Owns(p)
      <4>1. /\ claim' = [claim EXCEPT ![cur[p]] = NoToken]
            /\ backoff' = [backoff EXCEPT ![cur[p]] = TRUE]
        BY <1>11, <3>1 DEF Release
      <4>2. QED BY <4>1
    <3>2. CASE ~ Owns(p) BY <1>11, <3>2 DEF Release, table
    <3>3. QED BY <3>1, <3>2
  <2>3. pc' \in [Publishers -> Locations] BY <1>11 DEF Release
  <2>4. QED BY <2>1, <2>2, <2>3 DEF leases
<1>12. ASSUME NEW p \in Publishers, Stop(p) PROVE TypeOK'
  BY <1>12 DEF Stop, table, leases
<1>15. ASSUME NEW p \in Publishers, Exit(p) \/ Crash(p) PROVE TypeOK'
  <2>1. /\ pc' \in [Publishers -> Locations] /\ tok' \in [Publishers -> Nat]
        /\ mine' \in [Publishers -> SUBSET Rows] /\ late' \in [Publishers -> BOOLEAN]
        /\ cur' \in [Publishers -> Rows \cup {NoRow}]
    <3>1. Gone(p) BY <1>15 DEF Exit, Crash
    <3>2. QED BY <3>1 DEF Gone
  <2>2. UNCHANGED <<table, leases, copies>> /\ faults' \in Nat
    BY <1>15 DEF Exit, Crash
  <2>3. QED BY <2>1, <2>2 DEF table, leases
<1>13. CASE UNCHANGED vars BY <1>13 DEF vars
<1>14. QED
  BY <1>1, <1>2, <1>3, <1>4, <1>5, <1>6, <1>9, <1>10, <1>11, <1>12,
     <1>13, <1>15 DEF Next, Work, Failure

\* Every reachable state is well typed.
THEOREM TypeCorrect == Spec => []TypeOK
BY TypeInit, TypeStep, PTL DEF Spec

-----------------------------------------------------------------------------
(* Leases. *)

\* A publisher that a step leaves alone keeps what is known about it.
LEMMA PublisherKeeps ==
  ASSUME TypeOK, TypeOK', NEW x \in Publishers, PublisherInv(x),
         pc'[x] = pc[x], tok'[x] = tok[x], mine'[x] = mine[x],
         cur'[x] = cur[x], late'[x] = late[x],
         \A r \in Rows : copies'[r] >= copies[r]
  PROVE  PublisherInv(x)'
<1>1. pc[x] = "mark" => copies'[cur[x]] > 0
  BY DEF PublisherInv, TypeOK
<1>2. QED BY <1>1 DEF PublisherInv

\* A claim takes only rows that are pending and that no live lease covers,
\* and its token is new.
LEMMA TakeLeaseFacts ==
  ASSUME TypeOK, TokenInv, TakeLease, NEW r \in Rows
  PROVE  /\ r \in Oldest(Claimable) =>
              /\ claim'[r] = claims + 1 /\ attempts'[r] = attempts[r] + 1
              /\ claim[r] = NoToken \/ claim[r] \in expired
              /\ status[r] = "pending"
         /\ r \notin Oldest(Claimable) =>
              claim'[r] = claim[r] /\ attempts'[r] = attempts[r]
         /\ claims' = claims + 1 /\ claims + 1 \notin expired
BY DEF TakeLease, Oldest, Claimable, TokenInv, TypeOK

\* A claim, whether its publisher learns of it or not, keeps tokens unique.
LEMMA TakeLeaseTokens ==
  ASSUME TypeOK, TokenInv, TakeLease, NEW p \in Publishers,
         tok'[p] \in {claims + 1, NoToken},
         \A x \in Publishers \ {p} : tok'[x] = tok[x]
  PROVE  TokenInv'
<1>1. claims' = claims + 1 /\ claims \in Nat /\ expired' = expired
  BY DEF TakeLease, TypeOK
<1>2. \A x \in Publishers : tok[x] \in Nat /\ tok[x] <= claims
  BY DEF TokenInv, TypeOK
<1>3. \A x \in Publishers : tok'[x] <= claims'
  BY <1>1, <1>2 DEF NoToken
<1>4. \A r \in Rows : claim'[r] <= claims'
  <2>1. \A r \in Rows : claim[r] \in Nat /\ claim[r] <= claims
    BY DEF TokenInv, TypeOK
  <2>2. \A r \in Rows : claim'[r] \in {claims + 1, claim[r]}
    BY TakeLeaseFacts
  <2>3. QED BY <1>1, <2>1, <2>2
<1>5. \A t \in expired' : t <= claims'
  <2>1. \A t \in expired : t \in Nat /\ t <= claims BY DEF TokenInv, TypeOK
  <2>2. QED BY <1>1, <2>1
<1>6. ASSUME NEW x \in Publishers, NEW y \in Publishers, x # y, tok'[x] = tok'[y]
      PROVE  tok'[x] = NoToken
  <2>1. \A z \in Publishers : tok[z] # claims + 1 BY <1>1, <1>2
  <2>2. QED BY <1>6, <2>1 DEF TokenInv
<1>7. QED BY <1>3, <1>4, <1>5, <1>6 DEF TokenInv

\* A publisher's claims on the rows it works on survive what another one
\* writes, since only the owner of a token writes under it.
LEMMA ExclusiveKeeps ==
  ASSUME TypeOK, LeaseIsExclusive, NEW x \in Publishers,
         pc'[x] = pc[x], tok'[x] = tok[x], mine'[x] = mine[x],
         cur'[x] = cur[x], expired \subseteq expired',
         \A r \in Rows : \/ claim'[r] = claim[r]
                         \/ claim[r] \in expired
                         \/ claim[r] # tok[x]
  PROVE  pc'[x] \in {"send", "mark", "release"} =>
           \A r \in Working(x)' : r \in Rows =>
             claim'[r] = tok'[x] \/ tok'[x] \in expired'
<1> SUFFICES ASSUME pc[x] \in {"send", "mark", "release"}, NEW r \in Working(x), r \in Rows
             PROVE  claim'[r] = tok[x] \/ tok[x] \in expired'
  BY DEF Working
<1>1. claim[r] = tok[x] \/ tok[x] \in expired BY DEF LeaseIsExclusive
<1>2. QED BY <1>1

\* What a publisher works on are rows.
LEMMA WorkingRows ==
  ASSUME TypeOK, NEW x \in Publishers, PublisherInv(x)
  PROVE  Working(x) \subseteq Rows
BY DEF TypeOK, PublisherInv, Working

\* No publisher holds anything at first.
LEMMA LeaseInit == Init => LeaseInv
BY DEF Init, LeaseInv, LeaseIsExclusive, TokenInv, PublisherInv, Working, NoToken, NoRow
\* The other publishers stay where they are, and what LeaseIsExclusive says
\* of one publisher.
OnlyOf(p) == \A x \in Publishers \ {p} :
               /\ pc'[x] = pc[x] /\ tok'[x] = tok[x] /\ mine'[x] = mine[x]
               /\ cur'[x] = cur[x] /\ late'[x] = late[x]
Exclusive(p) == pc[p] \in {"send", "mark", "release"} =>
                  \A r \in Working(p) : claim[r] = tok[p] \/ tok[p] \in expired

\* A step of one publisher: the invariant is kept if it holds for that one
\* and if what it writes to the table is its own, expired or unclaimed.
LEMMA LeaseFrame ==
  ASSUME TypeOK, TypeOK', LeaseInv, NEW p \in Publishers, OnlyOf(p),
         \A r \in Rows : copies'[r] >= copies[r],
         expired \subseteq expired',
         \A x \in Publishers \ {p} : \A r \in Rows :
            claim'[r] = claim[r] \/ claim[r] \in expired \/ claim[r] # tok[x]
                \/ tok[x] = NoToken,
         TokenInv', PublisherInv(p)', Exclusive(p)'
  PROVE  LeaseInv'
<1>1. ASSUME NEW x \in Publishers \ {p} PROVE PublisherInv(x)' /\ Exclusive(x)'
  <2>1. PublisherInv(x)'
    BY PublisherKeeps DEF OnlyOf, LeaseInv
  <2>2. CASE tok[x] = NoToken
    <3>1. pc[x] \notin {"send", "mark", "release"} BY <2>2 DEF LeaseInv, PublisherInv
    <3>2. QED BY <2>1, <3>1 DEF OnlyOf, Exclusive
  <2>3. CASE tok[x] # NoToken
    <3>1. pc'[x] \in {"send", "mark", "release"} =>
            \A r \in Working(x)' : r \in Rows =>
              claim'[r] = tok'[x] \/ tok'[x] \in expired'
      BY <2>3, ExclusiveKeeps DEF LeaseInv, OnlyOf
    <3>2. Working(x)' \subseteq Rows BY <2>1 DEF PublisherInv, Working, TypeOK
    <3>3. QED BY <2>1, <3>1, <3>2 DEF Exclusive
  <2>4. QED BY <2>1, <2>2, <2>3
<1>2. \A x \in Publishers : PublisherInv(x)' /\ Exclusive(x)' BY <1>1
<1>3. QED BY <1>2 DEF LeaseInv, LeaseIsExclusive, Exclusive
\* Every step keeps the leases' invariant.
LEMMA LeaseStep ==
  ASSUME TypeOK, TypeOK', LeaseInv, [Next]_vars
  PROVE  LeaseInv'
<1> USE DEF NoToken
<1>1. ASSUME NEW r \in Rows, Insert(r) \/ Retire(r) \/ BackoffEnds(r)
      PROVE LeaseInv'
  <2>1. UNCHANGED <<claim, claims, expired, copies, pc, tok, mine, cur, late>>
    BY <1>1 DEF Insert, Retire, BackoffEnds, leases, local
  <2>2. QED BY <2>1 DEF LeaseInv, LeaseIsExclusive, TokenInv, PublisherInv, Working
<1>2. ASSUME NEW t \in 1 .. claims, Expire(t) PROVE LeaseInv'
  <2>1. UNCHANGED <<claim, claims, copies, pc, tok, mine, cur, late>>
        /\ expired' = expired \cup {t}
    BY <1>2 DEF Expire, table, local
  <2>2. TokenInv' BY <2>1 DEF LeaseInv, TokenInv, TypeOK
  <2>3. LeaseIsExclusive' BY <2>1 DEF LeaseInv, LeaseIsExclusive, Working
  <2>4. \A p \in Publishers : PublisherInv(p)' BY <2>1 DEF LeaseInv, PublisherInv
  <2>5. QED BY <2>2, <2>3, <2>4 DEF LeaseInv
<1>3. ASSUME NEW p \in Publishers, Start(p) \/ Stop(p) \/ Exit(p) \/ Crash(p)
      PROVE LeaseInv'
  <2>1. UNCHANGED <<claim, claims, expired, copies>>
    BY <1>3 DEF Start, Stop, Exit, Crash, table, leases
  <2>2. OnlyOf(p)
    BY <1>3 DEF OnlyOf, Start, Stop, Exit, Crash, Gone, TypeOK
  <2>3. /\ pc'[p] \in {"idle", "exit", "down"}
        /\ tok'[p] \in {tok[p], NoToken}
    BY <1>3 DEF Start, Stop, Exit, Crash, Gone, TypeOK
  <2>4. PublisherInv(p)'
    <3>1. CASE Start(p) BY <3>1 DEF Start, PublisherInv, LeaseInv, TypeOK
    <3>2. CASE Stop(p) BY <3>2 DEF Stop, PublisherInv, LeaseInv, TypeOK
    <3>3. CASE Exit(p) \/ Crash(p)
      BY <3>3 DEF Exit, Crash, Gone, PublisherInv, TypeOK
    <3>4. QED BY <1>3, <3>1, <3>2, <3>3
  <2>5. TokenInv'
    BY <2>1, <2>2, <2>3 DEF LeaseInv, TokenInv, OnlyOf, TypeOK
  <2>6. Exclusive(p)' BY <2>3 DEF Exclusive
  <2>7. \A r \in Rows : copies'[r] >= copies[r] BY <2>1 DEF TypeOK
  <2>8. QED BY <2>1, <2>2, <2>4, <2>5, <2>6, <2>7, LeaseFrame
<1>4. ASSUME NEW p \in Publishers, Claim(p) PROVE LeaseInv'
  <2>1. OnlyOf(p) BY <1>4 DEF OnlyOf, Claim, TypeOK
  <2>2. /\ pc'[p] = "send" /\ tok'[p] = claims + 1
        /\ mine'[p] = Oldest(Claimable) /\ cur' = cur /\ late' = late
        /\ copies' = copies /\ pc[p] = "idle" /\ TakeLease /\ expired' = expired
    BY <1>4 DEF Claim, TakeLease, TypeOK
  <2>3. PublisherInv(p)'
    BY <2>2 DEF PublisherInv, LeaseInv, TypeOK
  <2>4. TokenInv' BY <2>1, <2>2, TakeLeaseTokens DEF LeaseInv, OnlyOf
  <2>5. Exclusive(p)'
    BY <2>2, TakeLeaseFacts DEF LeaseInv, Exclusive, Working, Oldest, Claimable
  <2>6. \A x \in Publishers \ {p} : \A r \in Rows :
           claim'[r] = claim[r] \/ claim[r] \in expired \/ claim[r] # tok[x]
               \/ tok[x] = NoToken
    BY <2>2, TakeLeaseFacts DEF LeaseInv
  <2>7. \A r \in Rows : copies'[r] >= copies[r] BY <2>2 DEF TypeOK
  <2>8. QED BY <2>1, <2>2, <2>3, <2>4, <2>5, <2>6, <2>7, LeaseFrame
<1>5. ASSUME NEW p \in Publishers, ClaimRaises(p) PROVE LeaseInv'
  <2>1. OnlyOf(p) BY <1>5 DEF OnlyOf, ClaimRaises, Gone, TypeOK
  <2>2. /\ pc'[p] = "down" /\ tok'[p] = NoToken /\ ~ late'[p]
        /\ mine'[p] = {}
    BY <1>5 DEF ClaimRaises, Gone, TypeOK
  <2>3. copies' = copies /\ TakeLease /\ expired' = expired
    BY <1>5 DEF ClaimRaises, TakeLease
  <2>4. PublisherInv(p)' BY <2>2 DEF PublisherInv
  <2>5. TokenInv' BY <2>1, <2>2, <2>3, TakeLeaseTokens DEF LeaseInv, OnlyOf
  <2>6. Exclusive(p)' BY <2>2 DEF Exclusive
  <2>7. \A x \in Publishers \ {p} : \A r \in Rows :
           claim'[r] = claim[r] \/ claim[r] \in expired \/ claim[r] # tok[x]
               \/ tok[x] = NoToken
    BY <2>3, TakeLeaseFacts DEF LeaseInv
  <2>8. \A r \in Rows : copies'[r] >= copies[r] BY <2>3 DEF TypeOK
  <2>9. QED BY <2>1, <2>3, <2>4, <2>5, <2>6, <2>7, <2>8, LeaseFrame
<1>6. ASSUME NEW p \in Publishers, Acked(p) \/ DeliveryFails(p) \/ DeliveryTimesOut(p)
      PROVE LeaseInv'
  <2>1. PICK r \in Rows : /\ Sends(p, r)
                          /\ \/ copies' = copies /\ ~ Acked(p)
                             \/ copies' = [copies EXCEPT ![r] = @ + 1]
    BY <1>6 DEF Acked, DeliveryFails, DeliveryTimesOut
  <2>2. /\ UNCHANGED <<claim, claims, expired, tok>>
        /\ pc' = [pc EXCEPT ![p] = IF Acked(p) THEN "mark" ELSE "release"]
        /\ \/ late' = late
           \/ ~ Acked(p) /\ \E queued \in BOOLEAN : late' = [late EXCEPT ![p] = queued]
    <3>1. CASE Acked(p) BY <3>1 DEF Acked, table, leases
    <3>2. CASE ~ Acked(p)
      BY <1>6, <3>2 DEF DeliveryFails, DeliveryTimesOut, table, leases
    <3>3. QED BY <3>1, <3>2
  <2>3. OnlyOf(p) BY <2>1, <2>2 DEF OnlyOf, Sends, TypeOK
  <2>4. /\ pc[p] = "send" /\ pc'[p] = IF Acked(p) THEN "mark" ELSE "release"
        /\ r \in mine[p] /\ mine'[p] = mine[p] \ {r} /\ cur'[p] = r
        /\ tok'[p] = tok[p]
    BY <2>1, <2>2 DEF Sends, TypeOK
  <2>5. /\ \A q \in Rows : copies'[q] >= copies[q]
        /\ Acked(p) => copies'[r] > 0
    <3>1. copies \in [Rows -> Nat] BY DEF TypeOK
    <3>2. QED BY <2>1, <3>1
  <2>6. Acked(p) => ~ late'[p]
    BY <2>2, <2>4 DEF LeaseInv, PublisherInv
  <2>7. PublisherInv(p)'
    BY <2>4, <2>5, <2>6 DEF LeaseInv, PublisherInv, TypeOK
  <2>8. TokenInv' BY <2>2 DEF LeaseInv, TokenInv
  <2>9. Exclusive(p)'
    BY <2>2, <2>4 DEF LeaseInv, LeaseIsExclusive, Exclusive, Working
  <2>10. QED BY <2>2, <2>3, <2>5, <2>7, <2>8, <2>9, LeaseFrame
<1>7. ASSUME NEW p \in Publishers, ArrivesLate(p) PROVE LeaseInv'
  <2>1. UNCHANGED <<claim, claims, expired, pc, tok, mine, cur>>
    BY <1>7 DEF ArrivesLate, table, leases
  <2>2. OnlyOf(p) /\ ~ late'[p] BY <1>7, <2>1 DEF OnlyOf, ArrivesLate, TypeOK
  <2>3. \A r \in Rows : copies'[r] >= copies[r]
    <3>1. /\ copies \in [Rows -> Nat]
          /\ copies' = [copies EXCEPT ![cur[p]] = @ + 1]
      BY <1>7 DEF ArrivesLate, TypeOK
    <3>2. QED BY <3>1
  <2>4. pc[p] # "mark" BY <1>7 DEF ArrivesLate, LeaseInv, PublisherInv
  <2>5. PublisherInv(p)' BY <2>1, <2>2, <2>4 DEF LeaseInv, PublisherInv
  <2>6. TokenInv' BY <2>1 DEF LeaseInv, TokenInv
  <2>7. Exclusive(p)' BY <2>1 DEF LeaseInv, LeaseIsExclusive, Exclusive, Working
  <2>8. QED BY <2>1, <2>2, <2>3, <2>5, <2>6, <2>7, LeaseFrame
<1>8. ASSUME NEW p \in Publishers, Mark(p) \/ MarkRaises(p) \/ Release(p)
      PROVE LeaseInv'
  <2>1. /\ UNCHANGED <<claims, expired, copies, mine, late>>
        /\ pc[p] \in {"mark", "release"} /\ cur[p] \in Rows \ mine[p]
        /\ tok[p] # NoToken
    BY <1>8 DEF Mark, MarkRaises, Release, leases, LeaseInv, PublisherInv
  <2>2. OnlyOf(p) BY <1>8 DEF OnlyOf, Mark, MarkRaises, Release, TypeOK
  <2>3. \/ claim' = claim
        \/ Owns(p) /\ claim' = [claim EXCEPT ![cur[p]] = NoToken]
    BY <1>8 DEF Mark, MarkRaises, Release, MarkPublished, table
  <2>4. \A r \in Rows : \/ claim'[r] = claim[r]
                         \/ /\ claim'[r] = NoToken
                            /\ r = cur[p] /\ claim[r] = tok[p]
    BY <2>3 DEF Owns, TypeOK
  <2>5. \/ pc'[p] \in {"send", "idle"} /\ pc[p] = "mark"
           /\ pc'[p] = (IF mine[p] = {} THEN "idle" ELSE "send")
           /\ tok'[p] = (IF mine[p] = {} THEN NoToken ELSE tok[p])
        \/ pc'[p] = "exit" /\ tok'[p] = tok[p] /\ cur'[p] = cur[p]
    BY <1>8 DEF Mark, MarkRaises, Release, TypeOK
  <2>6. PublisherInv(p)'
    BY <2>1, <2>5 DEF LeaseInv, PublisherInv
  <2>7. TokenInv'
    <3>1. \A x \in Publishers : tok'[x] \in {tok[x], NoToken}
      BY <2>2, <2>5 DEF OnlyOf
    <3>2. \A r \in Rows : claim'[r] \in {claim[r], NoToken} BY <2>4
    <3>3. QED BY <2>1, <3>1, <3>2 DEF LeaseInv, TokenInv, TypeOK
  <2>8. Exclusive(p)'
    <3>1. CASE pc'[p] # "send" BY <2>5, <3>1 DEF Exclusive
    <3>2. CASE pc'[p] = "send"
      <4>1. Working(p)' = mine[p] /\ tok'[p] = tok[p] /\ pc[p] = "mark"
        BY <2>1, <2>5, <3>2 DEF Working
      <4>2. ASSUME NEW r \in mine[p]
            PROVE  claim[r] = tok[p] \/ tok[p] \in expired
        BY <4>1 DEF LeaseInv, LeaseIsExclusive, Working
      <4>3. \A r \in mine[p] : r \in Rows /\ r # cur[p] BY <2>1 DEF TypeOK
      <4>4. QED BY <2>1, <2>4, <4>1, <4>2, <4>3 DEF Exclusive
    <3>3. QED BY <3>1, <3>2
  <2>9. \A x \in Publishers \ {p} : \A r \in Rows :
           claim'[r] = claim[r] \/ claim[r] \in expired \/ claim[r] # tok[x]
               \/ tok[x] = NoToken
    BY <2>4 DEF LeaseInv, TokenInv
  <2>10. \A r \in Rows : copies'[r] >= copies[r] BY <2>1 DEF TypeOK
  <2>11. QED BY <2>1, <2>2, <2>6, <2>7, <2>8, <2>9, <2>10, LeaseFrame
<1>9. CASE UNCHANGED vars
  BY <1>9 DEF vars, LeaseInv, LeaseIsExclusive, TokenInv, PublisherInv, Working
<1>10. QED
  BY <1>1, <1>2, <1>3, <1>4, <1>5, <1>6, <1>7, <1>8, <1>9
  DEF Next, Work, Failure

-----------------------------------------------------------------------------
(* Rows. *)

\* The publishers that owe a row a copy are finitely many; what happens to
\* their number when they lose members, one member, or gain one.
LEMMA OwingCounts ==
  ASSUME NEW S \in SUBSET Publishers, NEW T \in SUBSET Publishers, NEW p \in Publishers
  PROVE  /\ Cardinality(S) \in Nat /\ Cardinality(T) \in Nat
         /\ T \subseteq S => Cardinality(T) <= Cardinality(S)
         /\ p \in S /\ T \subseteq S \ {p} => Cardinality(T) + 1 <= Cardinality(S)
         /\ T \subseteq S \cup {p} => Cardinality(T) <= Cardinality(S) + 1
<1>1. IsFiniteSet(S) /\ IsFiniteSet(T) BY FS_Subset, OutboxAssumption
<1>2. Cardinality(S) \in Nat /\ Cardinality(T) \in Nat BY <1>1, FS_CardinalityType
<1>3. T \subseteq S => Cardinality(T) <= Cardinality(S) BY <1>1, FS_Subset
<1>4. ASSUME p \in S, T \subseteq S \ {p} PROVE Cardinality(T) + 1 <= Cardinality(S)
  <2>1. /\ IsFiniteSet(S \ {p}) /\ Cardinality(S \ {p}) = Cardinality(S) - 1
    BY <1>1, <1>4, FS_RemoveElement
  <2>2. Cardinality(T) <= Cardinality(S \ {p}) BY <1>4, <2>1, FS_Subset
  <2>3. QED BY <1>2, <2>1, <2>2
<1>5. ASSUME T \subseteq S \cup {p} PROVE Cardinality(T) <= Cardinality(S) + 1
  <2>1. /\ IsFiniteSet(S \cup {p})
        /\ Cardinality(S \cup {p}) \in {Cardinality(S), Cardinality(S) + 1}
    BY <1>1, FS_AddElement
  <2>2. Cardinality(T) <= Cardinality(S \cup {p}) BY <1>5, <2>1, FS_Subset
  <2>3. QED BY <1>2, <2>1, <2>2
<1>6. QED BY <1>2, <1>3, <1>4, <1>5

\* One row's share of the invariant.
OneRow(r) == /\ status[r] \in {"published", "deleted"} =>
                  copies[r] > 0 /\ claim[r] = NoToken
             /\ copies[r] + Cardinality(Owing(r)) <= attempts[r]

\* A row no copy of which is made keeps its share when no more publishers
\* owe it one, and it is neither published nor claimed.
LEMMA RowKeeps ==
  ASSUME TypeOK, TypeOK', NEW r \in Rows, OneRow(r),
         copies'[r] = copies[r], attempts'[r] >= attempts[r],
         Owing(r)' \subseteq Owing(r),
         status'[r] \in {"published", "deleted"} =>
           status[r] \in {"published", "deleted"} /\ claim'[r] \in {claim[r], NoToken}
  PROVE  OneRow(r)'
<1>1. /\ Cardinality(Owing(r)) \in Nat /\ Cardinality(Owing(r)') \in Nat
      /\ Cardinality(Owing(r)') <= Cardinality(Owing(r))
  <2> DEFINE S == Owing(r)
             T == Owing(r)'
  <2>1. S \in SUBSET Publishers /\ T \in SUBSET Publishers BY DEF Owing
  <2>2. T \subseteq S OBVIOUS
  <2>3. CASE S = {}
    <3>1. T = S BY <2>2, <2>3
    <3>2. Cardinality(S) \in Nat BY <2>3, FS_EmptySet
    <3>3. QED BY <3>1, <3>2
  <2>4. CASE S # {}
    <3>1. PICK p \in Publishers : p \in S BY <2>1, <2>4
    <3> HIDE DEF S, T
    <3>2. Cardinality(S) \in Nat /\ Cardinality(T) \in Nat /\ Cardinality(T) <= Cardinality(S)
      BY <2>1, <2>2, <3>1, OwingCounts
    <3>3. QED BY <3>2 DEF S, T
  <2>5. QED BY <2>3, <2>4
<1>2. /\ attempts[r] \in Nat /\ attempts'[r] \in Nat /\ copies[r] \in Nat
  BY DEF TypeOK
<1>3. copies'[r] + Cardinality(Owing(r)') <= attempts'[r]
  BY <1>1, <1>2 DEF OneRow
<1>4. QED BY <1>3 DEF OneRow

\* A row that gets a copy is owed one less.
LEMMA RowGetsCopy ==
  ASSUME TypeOK, NEW r \in Rows, NEW p \in Publishers, OneRow(r),
         copies'[r] = copies[r] + 1, attempts' = attempts, status' = status,
         claim' = claim,
         p \in Owing(r), Owing(r)' \subseteq Owing(r) \ {p}
  PROVE  OneRow(r)'
<1> DEFINE S == Owing(r)
           T == Owing(r)'
<1>1. S \in SUBSET Publishers /\ T \in SUBSET Publishers BY DEF Owing
<1>2. p \in S /\ T \subseteq S \ {p} OBVIOUS
<1>3. /\ Cardinality(S) \in Nat /\ Cardinality(T) \in Nat
      /\ Cardinality(T) + 1 <= Cardinality(S)
  <2> HIDE DEF S, T
  <2>1. QED BY <1>1, <1>2, OwingCounts
<1>4. copies[r] \in Nat /\ attempts[r] \in Nat BY DEF TypeOK
<1>5. copies'[r] + Cardinality(Owing(r)') <= attempts'[r] BY <1>3, <1>4 DEF OneRow
<1>6. QED BY <1>4, <1>5 DEF OneRow

\* A claimed row is owed at most one copy more.
LEMMA RowIsClaimed ==
  ASSUME TypeOK, NEW r \in Rows, NEW p \in Publishers, OneRow(r),
         copies'[r] = copies[r], attempts'[r] = attempts[r] + 1,
         status'[r] = "pending", Owing(r)' \subseteq Owing(r) \cup {p}
  PROVE  OneRow(r)'
<1> DEFINE S == Owing(r)
           T == Owing(r)'
<1>1. S \in SUBSET Publishers /\ T \in SUBSET Publishers BY DEF Owing
<1>2. T \subseteq S \cup {p} OBVIOUS
<1>3. /\ Cardinality(S) \in Nat /\ Cardinality(T) \in Nat
      /\ Cardinality(T) <= Cardinality(S) + 1
  <2> HIDE DEF S, T
  <2>1. QED BY <1>1, <1>2, OwingCounts
<1>4. copies[r] \in Nat /\ attempts[r] \in Nat BY DEF TypeOK
<1>5. copies'[r] + Cardinality(Owing(r)') <= attempts'[r] BY <1>3, <1>4 DEF OneRow
<1>6. QED BY <1>5 DEF OneRow

\* No row is in the table at first, and nobody owes it a copy.
LEMMA RowInit == Init => RowInv
<1> SUFFICES ASSUME Init, NEW r \in Rows PROVE OneRow(r)
  BY DEF RowInv, OneRow
<1>1. Owing(r) = {} BY DEF Init, Owing
<1>2. QED BY <1>1, FS_EmptySet DEF Init, OneRow

\* Every step keeps every row's share.
LEMMA RowStep ==
  ASSUME TypeOK, TypeOK', LeaseInv, RowInv, [Next]_vars
  PROVE  RowInv'
<1> SUFFICES ASSUME NEW r \in Rows PROVE OneRow(r)'
  BY DEF RowInv, OneRow
<1>0. OneRow(r) BY DEF RowInv, OneRow
<1>1. ASSUME NEW q \in Rows, Insert(q) \/ Retire(q) \/ BackoffEnds(q)
      PROVE OneRow(r)'
  <2>1. UNCHANGED <<claim, attempts, copies, mine, cur, late>>
    BY <1>1 DEF Insert, Retire, BackoffEnds, leases, local
  <2>2. status'[r] \in {"published", "deleted"} => status[r] \in {"published", "deleted"}
    BY <1>1 DEF Insert, Retire, BackoffEnds, TypeOK
  <2>3. Owing(r)' = Owing(r) BY <2>1 DEF Owing
  <2>4. attempts'[r] >= attempts[r] BY <2>1 DEF TypeOK
  <2>5. QED BY <1>0, <2>1, <2>2, <2>3, <2>4, RowKeeps
<1>2. ASSUME UNCHANGED <<status, claim, attempts, copies, mine, cur, late>>
      PROVE OneRow(r)'
  BY <1>0, <1>2 DEF OneRow, Owing
<1>3. ASSUME NEW t \in 1 .. claims, Expire(t) PROVE OneRow(r)'
  BY <1>2, <1>3 DEF Expire, table, local
<1>4. ASSUME NEW p \in Publishers, Start(p) \/ Stop(p) PROVE OneRow(r)'
  BY <1>2, <1>4 DEF Start, Stop, table
<1>5. ASSUME NEW p \in Publishers, Exit(p) \/ Crash(p) PROVE OneRow(r)'
  <2>1. UNCHANGED <<status, claim, attempts, copies>> /\ Gone(p)
    BY <1>5 DEF Exit, Crash, table
  <2>2. Owing(r)' \subseteq Owing(r) BY <2>1 DEF Gone, Owing, TypeOK
  <2>3. attempts'[r] >= attempts[r] BY <2>1 DEF TypeOK
  <2>4. QED BY <1>0, <2>1, <2>2, <2>3, RowKeeps
<1>6. ASSUME NEW p \in Publishers, Claim(p) PROVE OneRow(r)'
  <2>1. /\ TakeLease /\ status' = status /\ copies' = copies /\ cur' = cur
        /\ late' = late /\ mine' = [mine EXCEPT ![p] = Oldest(Claimable)]
        /\ pc[p] = "idle"
    BY <1>6 DEF Claim, TakeLease
  <2>2. CASE r \in Oldest(Claimable)
    <3>1. Owing(r)' \subseteq Owing(r) \cup {p} BY <2>1 DEF Owing, TypeOK
    <3>2. status'[r] = "pending" /\ attempts'[r] = attempts[r] + 1
      BY <2>1, <2>2, TakeLeaseFacts DEF LeaseInv
    <3>3. QED BY <1>0, <2>1, <3>1, <3>2, RowIsClaimed
  <2>3. CASE r \notin Oldest(Claimable)
    <3>1. Owing(r)' \subseteq Owing(r) BY <2>1, <2>3 DEF Owing, TypeOK
    <3>2. claim'[r] = claim[r] /\ attempts'[r] = attempts[r]
      BY <2>1, <2>3, TakeLeaseFacts DEF LeaseInv
    <3>3. attempts'[r] >= attempts[r] BY <3>2 DEF TypeOK
    <3>4. QED BY <1>0, <2>1, <3>1, <3>2, <3>3, RowKeeps
  <2>4. QED BY <2>2, <2>3
<1>7. ASSUME NEW p \in Publishers, ClaimRaises(p) PROVE OneRow(r)'
  <2>1. TakeLease /\ Gone(p) /\ copies' = copies /\ status' = status
    BY <1>7 DEF ClaimRaises, TakeLease
  <2>2. Owing(r)' \subseteq Owing(r) BY <2>1 DEF Gone, Owing, TypeOK
  <2>3. /\ attempts'[r] \in {attempts[r], attempts[r] + 1}
        /\ status'[r] \in {"published", "deleted"} => claim'[r] = claim[r]
    BY <2>1, TakeLeaseFacts DEF LeaseInv
  <2>4. attempts'[r] >= attempts[r] BY <2>3 DEF TypeOK
  <2>5. QED BY <1>0, <2>1, <2>2, <2>3, <2>4, RowKeeps
<1>8. ASSUME NEW p \in Publishers, Acked(p) \/ DeliveryFails(p) \/ DeliveryTimesOut(p)
      PROVE OneRow(r)'
  <2>1. PICK q \in Rows : /\ Sends(p, q)
                          /\ \/ copies' = copies
                             \/ /\ copies' = [copies EXCEPT ![q] = @ + 1]
                                /\ late' = late
    BY <1>8 DEF Acked, DeliveryFails, DeliveryTimesOut
  <2>2. UNCHANGED <<status, claim, attempts>>
    BY <1>8 DEF Acked, DeliveryFails, DeliveryTimesOut, table
  <2>3. /\ pc[p] = "send" /\ q \in mine[p] /\ ~ late[p]
        /\ mine' = [mine EXCEPT ![p] = @ \ {q}] /\ cur' = [cur EXCEPT ![p] = q]
    BY <2>1 DEF Sends, LeaseInv, PublisherInv
  <2>4. \/ late' = late
        \/ \E queued \in BOOLEAN : late' = [late EXCEPT ![p] = queued]
    BY <1>8 DEF Acked, DeliveryFails, DeliveryTimesOut
  <2>5. \A x \in Publishers \ {p} :
           mine'[x] = mine[x] /\ cur'[x] = cur[x] /\ late'[x] = late[x]
    BY <2>3, <2>4 DEF TypeOK
  <2>6. mine'[p] = mine[p] \ {q} /\ cur'[p] = q BY <2>3 DEF TypeOK
  <2>7. Owing(r)' \subseteq Owing(r) BY <2>3, <2>5, <2>6 DEF Owing
  <2>8. attempts'[r] >= attempts[r] BY <2>2 DEF TypeOK
  <2>9. CASE copies'[r] = copies[r]
    BY <1>0, <2>2, <2>7, <2>8, <2>9, RowKeeps
  <2>10. CASE copies'[r] # copies[r]
    <3>1. copies \in [Rows -> Nat] BY DEF TypeOK
    <3>2. r = q /\ copies'[r] = copies[r] + 1 /\ late' = late
      BY <2>1, <2>10, <3>1
    <3>3. p \in Owing(r) /\ p \notin Owing(r)' BY <2>3, <2>6, <3>2 DEF Owing
    <3>4. QED BY <1>0, <2>2, <2>7, <3>2, <3>3, RowGetsCopy
  <2>11. QED BY <2>9, <2>10
<1>9. ASSUME NEW p \in Publishers, ArrivesLate(p) PROVE OneRow(r)'
  <2>1. /\ UNCHANGED <<status, claim, attempts, mine, cur>> /\ late[p]
        /\ copies' = [copies EXCEPT ![cur[p]] = @ + 1]
        /\ late' = [late EXCEPT ![p] = FALSE] /\ cur[p] \in Rows \ mine[p]
    BY <1>9 DEF ArrivesLate, table, LeaseInv, PublisherInv
  <2>2. Owing(r)' \subseteq Owing(r) BY <2>1 DEF Owing, TypeOK
  <2>3. CASE r # cur[p]
    <3>1. copies'[r] = copies[r] /\ attempts'[r] >= attempts[r]
      BY <2>1, <2>3 DEF TypeOK
    <3>2. QED BY <1>0, <2>1, <2>2, <3>1, RowKeeps
  <2>4. CASE r = cur[p]
    <3>1. copies'[r] = copies[r] + 1 BY <2>1, <2>4 DEF TypeOK
    <3>2. p \in Owing(r) /\ p \notin Owing(r)' BY <2>1, <2>4 DEF Owing, TypeOK
    <3>3. QED BY <1>0, <2>1, <2>2, <3>1, <3>2, RowGetsCopy
  <2>5. QED BY <2>3, <2>4
<1>10. ASSUME NEW p \in Publishers, Mark(p) \/ MarkRaises(p) \/ Release(p)
       PROVE OneRow(r)'
  <2>1. UNCHANGED <<attempts, copies, mine, late>>
    BY <1>10 DEF Mark, MarkRaises, Release, MarkPublished, table
  <2>2. /\ pc[p] \in {"mark", "release"} /\ cur[p] \in Rows
        /\ cur' = cur \/ (pc[p] = "mark" /\ cur' = [cur EXCEPT ![p] = NoRow])
    BY <1>10 DEF Mark, MarkRaises, Release, LeaseInv, PublisherInv
  <2>3. Owing(r)' \subseteq Owing(r)
    BY <2>1, <2>2 DEF Owing, LeaseInv, PublisherInv, TypeOK
  <2>4. \/ UNCHANGED <<status, claim>>
        \/ /\ claim' = [claim EXCEPT ![cur[p]] = NoToken]
           /\ \/ status' = status
              \/ /\ pc[p] = "mark"
                 /\ status' = [status EXCEPT ![cur[p]] = "published"]
    BY <1>10 DEF Mark, MarkRaises, Release, MarkPublished, table
  <2>5. claim'[r] \in {claim[r], NoToken} BY <2>4 DEF TypeOK
  <2>6. attempts'[r] >= attempts[r] BY <2>1 DEF TypeOK
  <2>7. CASE status'[r] = status[r]
    BY <1>0, <2>1, <2>3, <2>5, <2>6, <2>7, RowKeeps
  <2>8. CASE status'[r] # status[r]
    <3>1. /\ r = cur[p] /\ pc[p] = "mark" /\ claim'[r] = NoToken
          /\ status'[r] = "published"
      BY <2>2, <2>4, <2>8 DEF TypeOK
    <3>2. copies[r] > 0 BY <3>1 DEF LeaseInv, PublisherInv
    <3>3. Owing(r)' = Owing(r)
      BY <2>1, <2>2, <3>1 DEF Owing, LeaseInv, PublisherInv, TypeOK
    <3>4. QED BY <1>0, <2>1, <3>1, <3>2, <3>3 DEF OneRow
  <2>9. QED BY <2>7, <2>8
<1>11. CASE UNCHANGED vars BY <1>2, <1>11 DEF vars
<1>12. QED
  BY <1>1, <1>3, <1>4, <1>5, <1>6, <1>7, <1>8, <1>9, <1>10, <1>11
  DEF Next, Work, Failure

\* Everything the theorems below need of a reachable state.
LEMMA Reachable == Spec => [](TypeOK /\ LeaseInv /\ RowInv)
<1>1. Init => TypeOK /\ LeaseInv /\ RowInv BY TypeInit, LeaseInit, RowInit
<1>2. TypeOK /\ LeaseInv /\ RowInv /\ [Next]_vars => (TypeOK /\ LeaseInv /\ RowInv)'
  BY TypeStep, LeaseStep, RowStep
<1>3. QED BY <1>1, <1>2, PTL DEF Spec

\* A lease that has not run out is nobody else's, and two publishers at work
\* on one row never both have a live one.
THEOREM LeasesProtect == Spec => [](LeaseIsExclusive /\ OneLiveHolder)
<1>1. TypeOK /\ LeaseInv => LeaseIsExclusive /\ OneLiveHolder
  <2> SUFFICES ASSUME TypeOK, LeaseInv PROVE OneLiveHolder BY DEF LeaseInv
  <2> SUFFICES ASSUME NEW p \in Publishers, NEW q \in Publishers, NEW r \in Rows, p # q,
                      pc[p] \in {"send", "mark", "release"}, r \in Working(p),
                      pc[q] \in {"send", "mark", "release"}, r \in Working(q),
                      tok[p] \notin expired, tok[q] \notin expired
               PROVE  FALSE
    BY DEF OneLiveHolder
  <2>1. claim[r] = tok[p] /\ claim[r] = tok[q] BY DEF LeaseInv, LeaseIsExclusive
  <2>2. QED BY <2>1 DEF LeaseInv, TokenInv, PublisherInv
<1>2. QED BY <1>1, Reachable, PTL

\* What RowInv says of the number of copies, in terms of the table alone.
LEMMA CopiesBounds ==
  ASSUME TypeOK, RowInv, NEW r \in Rows
  PROVE  /\ status[r] \in {"published", "deleted"} => copies[r] > 0
         /\ copies[r] <= attempts[r]
<1>1. IsFiniteSet(Owing(r)) BY FS_Subset, OutboxAssumption DEF Owing
<1>2. Cardinality(Owing(r)) \in Nat BY <1>1, FS_CardinalityType
<1>3. QED BY <1>2 DEF RowInv, TypeOK

\* Marked and retired rows are on the topic: mark_published waits for the
\* acknowledgement, whichever faults and lease changes intervene.
THEOREM CopiesAreAccounted == Spec => []MarkedRowsAreOnTheTopic
<1>1. TypeOK /\ RowInv => MarkedRowsAreOnTheTopic
  BY CopiesBounds DEF MarkedRowsAreOnTheTopic
<1>2. QED BY <1>1, Reachable, PTL

\* A row has at most as many copies on the topic as it was claimed times: a
\* retry inside publish_json never multiplies it.
THEOREM OneCopy == Spec => []OneCopyPerClaim
<1>1. TypeOK /\ RowInv => OneCopyPerClaim
  BY CopiesBounds DEF OneCopyPerClaim
<1>2. QED BY <1>1, Reachable, PTL

\* Once published, a row stays so and is claimed no more.
THEOREM PublishedStays == Spec => PublishedIsFinal
<1> DEFINE Final == \A r \in Rows : status[r] \in {"published", "deleted"} =>
                      status'[r] \in {"published", "deleted"} /\ attempts'[r] = attempts[r]
<1>1. TypeOK /\ LeaseInv /\ RowInv /\ [Next]_vars => [Final]_vars
  <2> SUFFICES ASSUME TypeOK, LeaseInv, Next, NEW r \in Rows,
                      status[r] \in {"published", "deleted"}
               PROVE  status'[r] \in {"published", "deleted"} /\ attempts'[r] = attempts[r]
    OBVIOUS
  <2>1. ASSUME TakeLease
        PROVE  status'[r] \in {"published", "deleted"} /\ attempts'[r] = attempts[r]
    <3>1. r \notin Oldest(Claimable) BY DEF Oldest, Claimable
    <3>2. QED BY <2>1, <3>1, TakeLeaseFacts DEF TakeLease, LeaseInv
  <2>2. ASSUME NEW q \in Rows, Insert(q) \/ Retire(q) \/ BackoffEnds(q)
        PROVE  status'[r] \in {"published", "deleted"} /\ attempts'[r] = attempts[r]
    BY <2>2 DEF Insert, Retire, BackoffEnds, TypeOK
  <2>3. ASSUME NEW p \in Publishers, Mark(p) \/ MarkRaises(p)
        PROVE  status'[r] \in {"published", "deleted"} /\ attempts'[r] = attempts[r]
    BY <2>3 DEF Mark, MarkRaises, MarkPublished, table, TypeOK
  <2>4. CASE UNCHANGED <<status, attempts>> BY <2>4
  <2>5. \/ TakeLease
        \/ \E q \in Rows : Insert(q) \/ Retire(q) \/ BackoffEnds(q)
        \/ \E p \in Publishers : Mark(p) \/ MarkRaises(p)
        \/ UNCHANGED <<status, attempts>>
    <3>1. ASSUME NEW t \in 1 .. claims, Expire(t) PROVE UNCHANGED <<status, attempts>>
      BY <3>1 DEF Expire, table
    <3>2. ASSUME NEW p \in Publishers,
                 Start(p) \/ Acked(p) \/ DeliveryFails(p) \/ DeliveryTimesOut(p)
                   \/ ArrivesLate(p) \/ Release(p) \/ Stop(p) \/ Exit(p) \/ Crash(p)
          PROVE UNCHANGED <<status, attempts>>
      BY <3>2 DEF Start, Acked, DeliveryFails, DeliveryTimesOut, ArrivesLate, Release,
                  Stop, Exit, Crash, table
    <3>3. ASSUME NEW p \in Publishers, Claim(p) \/ ClaimRaises(p) PROVE TakeLease
      BY <3>3 DEF Claim, ClaimRaises
    <3>4. QED BY <3>1, <3>2, <3>3 DEF Next, Work, Failure
  <2>6. QED BY <2>1, <2>2, <2>3, <2>4, <2>5
<1>2. QED BY <1>1, Reachable, PTL DEF Spec, PublishedIsFinal

-----------------------------------------------------------------------------
(* What those who share the table need to know of the publishers. *)

\* Rows may appear, several at once (save_batch), or be deleted once they are
\* published, without a publisher noticing.
LEMMA InsertsKeep ==
  ASSUME TypeOK, LeaseInv, RowInv,
         UNCHANGED <<claim, backoff, attempts, leases, copies, local, faults>>,
         status' \in [Rows -> {"absent", "pending", "published", "deleted"}],
         \A r \in Rows : \/ status'[r] \in {status[r], "pending"}
                         \/ status[r] = "published"
  PROVE  TypeOK' /\ LeaseInv' /\ RowInv'
<1>1. TypeOK' BY DEF TypeOK, leases, local
<1>2. LeaseInv'
  BY DEF LeaseInv, LeaseIsExclusive, Working, TokenInv, PublisherInv, leases, local
<1>3. \A r \in Rows : OneRow(r)'
  BY DEF RowInv, OneRow, Owing, leases, local
<1>4. RowInv' BY <1>3 DEF RowInv, OneRow
<1>5. QED BY <1>1, <1>2, <1>4

\* A row nobody has claimed has no copy, and nobody is about to make one.
LEMMA PristineFacts ==
  ASSUME TypeOK, RowInv, NEW r \in Rows, attempts[r] = 0
  PROVE  copies[r] = 0 /\ Owing(r) = {}
<1>1. IsFiniteSet(Owing(r)) BY FS_Subset, OutboxAssumption DEF Owing
<1>2. Cardinality(Owing(r)) \in Nat /\ copies[r] \in Nat BY <1>1, FS_CardinalityType DEF TypeOK
<1>3. copies[r] = 0 /\ Cardinality(Owing(r)) = 0 BY <1>2 DEF RowInv
<1>4. QED BY <1>1, <1>3, FS_EmptySet

\* What a publisher does to the table: it claims pending rows, and marks a
\* pending row published.  Copies only ever get more.
LEMMA WorkStep ==
  ASSUME TypeOK, TypeOK', LeaseInv, RowInv, Pristine,
         NEW p \in Publishers, Work(p) \/ Failure(p), NEW r \in Rows
  PROVE  /\ \/ status'[r] = status[r]
            \/ status[r] = "pending" /\ status'[r] = "published"
         /\ status[r] = "absent" => attempts'[r] = attempts[r]
         /\ copies'[r] >= copies[r]
<1>1. CASE Claim(p) \/ ClaimRaises(p)
  <2>1. TakeLease /\ copies' = copies BY <1>1 DEF Claim, ClaimRaises
  <2>2. status' = status BY <2>1 DEF TakeLease
  <2>3. status[r] = "absent" => attempts'[r] = attempts[r]
    BY <2>1, TakeLeaseFacts DEF LeaseInv
  <2>4. QED BY <2>1, <2>2, <2>3 DEF TypeOK
<1>2. CASE Mark(p) \/ MarkRaises(p)
  <2>1. pc[p] = "mark" /\ copies' = copies /\ attempts' = attempts
    BY <1>2 DEF Mark, MarkRaises, MarkPublished, table
  <2>2. \/ status'[r] = status[r]
        \/ r = cur[p] /\ Owns(p) /\ status'[r] = "published"
    BY <1>2 DEF Mark, MarkRaises, MarkPublished, table, TypeOK
  <2>3. CASE r = cur[p] /\ Owns(p)
    <3>1. copies[r] > 0 /\ claim[r] # NoToken
      BY <2>1, <2>3 DEF LeaseInv, PublisherInv, Owns
    <3>2. status[r] \notin {"published", "deleted"} BY <3>1 DEF RowInv
    <3>3. status[r] # "absent" BY <3>1, PristineFacts DEF Pristine
    <3>4. status[r] = "pending" BY <3>2, <3>3 DEF TypeOK
    <3>5. QED BY <2>1, <2>2, <3>4 DEF TypeOK
  <2>4. CASE ~ (r = cur[p] /\ Owns(p))
    BY <2>1, <2>2, <2>4 DEF TypeOK
  <2>5. QED BY <2>3, <2>4
<1>3. CASE Start(p) \/ Release(p) \/ Stop(p) \/ Exit(p) \/ Crash(p)
  <2>1. UNCHANGED <<status, attempts, copies>>
    BY <1>3 DEF Start, Release, Stop, Exit, Crash, table
  <2>2. QED BY <2>1 DEF TypeOK
<1>4. CASE Acked(p) \/ DeliveryFails(p) \/ DeliveryTimesOut(p) \/ ArrivesLate(p)
  <2>1. UNCHANGED <<status, attempts>>
    BY <1>4 DEF Acked, DeliveryFails, DeliveryTimesOut, ArrivesLate, table
  <2>2. copies' = copies \/ \E q \in Rows : copies' = [copies EXCEPT ![q] = @ + 1]
    BY <1>4 DEF Acked, DeliveryFails, DeliveryTimesOut, ArrivesLate, LeaseInv, PublisherInv
  <2>3. copies'[r] >= copies[r] BY <2>2 DEF TypeOK
  <2>4. QED BY <2>1, <2>3
<1>5. QED BY <1>1, <1>2, <1>3, <1>4 DEF Work, Failure
=============================================================================
