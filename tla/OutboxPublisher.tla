--------------------------- MODULE OutboxPublisher ---------------------------
(***************************************************************************)
(* The transactional outbox on its way to Kafka: claim_outbox,             *)
(* mark_outbox_published and release_outbox (lossguard/database.py),       *)
(* publish_json (lossguard/kafka.py), the publisher loop                   *)
(* (apps/outbox_publisher/main.py) and the retention of published rows     *)
(* (maintenance/retention.py).                                             *)
(*                                                                         *)
(* There is no clock.  A lease of 300 seconds and a back-off of up to five *)
(* minutes are represented by the events that end them: a token expires,   *)
(* a row's back-off is over.  A lease may expire while its holder is alive *)
(* and still working, since a batch of 100 rows at up to 10 seconds each   *)
(* outlasts it.                                                            *)
(***************************************************************************)
EXTENDS Integers, FiniteSets

CONSTANTS
    Publishers,  \* publisher processes
    Rows,        \* outbox_id of the rows the consumer may insert
    ClaimSize,   \* OUTBOX_BATCH_SIZE
    MaxFaults    \* bound: failures and lapsed leases per run

ASSUME OutboxAssumption ==
    /\ IsFiniteSet(Publishers)
    /\ Rows \subseteq Nat
    /\ ClaimSize \in Nat \ {0}
    /\ MaxFaults \in Nat

\* Claim tokens are UUIDs: fresh at each claim.  Numbered by order of claim.
NoToken == 0
NoRow == -1

VARIABLES
    status,     \* kafka_outbox: absent, pending, published, deleted
    claim,      \* claim_token (NoToken for NULL)
    backoff,    \* available_at lies in the future
    attempts,   \* attempts
    claims,     \* how many claims were made: the last token
    expired,    \* tokens whose lease has run out
    copies,     \* the Kafka topics: copies of each row's message
    pc,         \* where each publisher is
    tok,        \* the publisher's token
    mine,       \* rows claimed and not yet handed to publish_json
    cur,        \* the row being published, marked or released
    late,       \* its message sits in the producer's queue after a timeout
    faults

table == <<status, claim, backoff, attempts>>
leases == <<claims, expired>>
local == <<pc, tok, mine, cur, late>>
vars == <<status, claim, backoff, attempts, claims, expired, copies,
          pc, tok, mine, cur, late, faults>>

Init ==
    /\ status = [r \in Rows |-> "absent"]
    /\ claim = [r \in Rows |-> NoToken]
    /\ backoff = [r \in Rows |-> FALSE]
    /\ attempts = [r \in Rows |-> 0]
    /\ claims = 0
    /\ expired = {}
    /\ copies = [r \in Rows |-> 0]
    /\ pc = [p \in Publishers |-> "down"]
    /\ tok = [p \in Publishers |-> NoToken]
    /\ mine = [p \in Publishers |-> {}]
    /\ cur = [p \in Publishers |-> NoRow]
    /\ late = [p \in Publishers |-> FALSE]
    /\ faults = 0

Fault == faults < MaxFaults /\ faults' = faults + 1

\* save_batch committed a new outbox row.
Insert(r) ==
    /\ status[r] = "absent"
    /\ status' = [status EXCEPT ![r] = "pending"]
    /\ UNCHANGED <<claim, backoff, attempts, leases, copies, local, faults>>

\* Mutant of Retire: the age of a row counts from its creation.
RetireAged(r) ==
    /\ status[r] \in {"pending", "published"}
    /\ status' = [status EXCEPT ![r] = "deleted"]
    /\ UNCHANGED <<claim, backoff, attempts, leases, copies, local, faults>>

\* retention: only rows with a published_at are old enough to delete.
Retire(r) ==
    /\ status[r] = "published"
    /\ status' = [status EXCEPT ![r] = "deleted"]
    /\ UNCHANGED <<claim, backoff, attempts, leases, copies, local, faults>>

\* available_at has been reached.
BackoffEnds(r) ==
    /\ backoff[r]
    /\ backoff' = [backoff EXCEPT ![r] = FALSE]
    /\ UNCHANGED <<status, claim, attempts, leases, copies, local, faults>>

\* A lease runs out: for free when its holder is gone, at the cost of a fault
\* when the holder is merely slow.
Held(t) == \E p \in Publishers : tok[p] = t
Expire(t) ==
    /\ t \notin expired
    /\ \E r \in Rows : claim[r] = t
    /\ expired' = expired \cup {t}
    /\ IF Held(t) THEN Fault ELSE UNCHANGED faults
    /\ UNCHANGED <<table, claims, copies, local>>

\* Mutants of Claimable: without the lease, without its expiry, and without
\* published_at IS NULL.
ClaimableLeaseless == {r \in Rows : status[r] = "pending" /\ ~ backoff[r]}
ClaimableNeverExpires ==
    {r \in Rows : status[r] = "pending" /\ ~ backoff[r] /\ claim[r] = NoToken}
ClaimablePublished ==
    {r \in Rows : /\ status[r] \in {"pending", "published"}
                  /\ ~ backoff[r]
                  /\ claim[r] = NoToken \/ claim[r] \in expired}

\* SQL's WHERE of claim_outbox.
Claimable == {r \in Rows : /\ status[r] = "pending"
                           /\ ~ backoff[r]
                           /\ claim[r] = NoToken \/ claim[r] \in expired}

\* ORDER BY outbox_id ... LIMIT: the oldest claimable rows.
Oldest(S) == {r \in S : Cardinality({q \in S : q < r}) < ClaimSize}

\* The UPDATE of claim_outbox, under a fresh token.
TakeLease ==
    LET taken == Oldest(Claimable)
    IN  /\ taken # {}
        /\ claims' = claims + 1
        /\ claim' = [r \in Rows |-> IF r \in taken THEN claims + 1 ELSE claim[r]]
        /\ attempts' = [r \in Rows |-> IF r \in taken THEN attempts[r] + 1 ELSE attempts[r]]
        /\ UNCHANGED <<status, backoff, expired>>

\* The publisher's variables once its process has ended: a message left in
\* the producer's queue is lost.
Gone(p) ==
    /\ pc' = [pc EXCEPT ![p] = "down"]
    /\ tok' = [tok EXCEPT ![p] = NoToken]
    /\ mine' = [mine EXCEPT ![p] = {}]
    /\ cur' = [cur EXCEPT ![p] = NoRow]
    /\ late' = [late EXCEPT ![p] = FALSE]

\* main() calls run() again, or the container is started again.
Start(p) ==
    /\ pc[p] = "down"
    /\ pc' = [pc EXCEPT ![p] = "idle"]
    /\ UNCHANGED <<table, leases, copies, tok, mine, cur, late, faults>>

Claim(p) ==
    /\ pc[p] = "idle"
    /\ TakeLease
    /\ pc' = [pc EXCEPT ![p] = "send"]
    /\ tok' = [tok EXCEPT ![p] = claims + 1]
    /\ mine' = [mine EXCEPT ![p] = Oldest(Claimable)]
    /\ UNCHANGED <<copies, cur, late, faults>>

\* The claim commits, but the publisher does not learn it.
ClaimRaises(p) ==
    /\ pc[p] = "idle"
    /\ TakeLease
    /\ Gone(p)
    /\ Fault
    /\ UNCHANGED copies

\* publish_json takes the next row; RETURNING promises no order.
Sends(p, r) ==
    /\ pc[p] = "send"
    /\ r \in mine[p]
    /\ mine' = [mine EXCEPT ![p] = @ \ {r}]
    /\ cur' = [cur EXCEPT ![p] = r]

\* The broker acknowledges within the deadline.
Acked(p) ==
    /\ \E r \in Rows : Sends(p, r) /\ copies' = [copies EXCEPT ![r] = @ + 1]
    /\ pc' = [pc EXCEPT ![p] = "mark"]
    /\ UNCHANGED <<table, leases, tok, late, faults>>

\* Mutant of DeliveryFails: the row is sent again under the same claim.
DeliveryFailsRetried(p) ==
    /\ pc[p] = "send"
    /\ \E r \in mine[p] : copies' = [copies EXCEPT ![r] = @ + 1]
    /\ Fault
    /\ UNCHANGED <<table, leases, local>>

\* The delivery report is an error; the broker may have the message anyway.
DeliveryFails(p) ==
    /\ \E r \in Rows : /\ Sends(p, r)
                       /\ \/ UNCHANGED copies
                          \/ copies' = [copies EXCEPT ![r] = @ + 1]
    /\ pc' = [pc EXCEPT ![p] = "release"]
    /\ Fault
    /\ UNCHANGED <<table, leases, tok, late>>

\* Mutant of DeliveryTimesOut: no answer is taken for an acknowledgement.
DeliveryTimesOutMarked(p) ==
    /\ \E r \in Rows : Sends(p, r)
    /\ pc' = [pc EXCEPT ![p] = "mark"]
    /\ Fault
    /\ UNCHANGED <<table, leases, copies, tok, late>>

\* The deadline passes: while the producer's queue was full, or while the
\* message waits in it for its confirmation.
DeliveryTimesOut(p) ==
    /\ \E r \in Rows : Sends(p, r)
    /\ \E queued \in BOOLEAN : late' = [late EXCEPT ![p] = queued]
    /\ pc' = [pc EXCEPT ![p] = "release"]
    /\ Fault
    /\ UNCHANGED <<table, leases, copies, tok>>

\* The message of a timed-out publish reaches the broker after all, at the
\* latest in the flush(10) that ends run.
ArrivesLate(p) ==
    /\ late[p]
    /\ copies' = [copies EXCEPT ![cur[p]] = @ + 1]
    /\ late' = [late EXCEPT ![p] = FALSE]
    /\ UNCHANGED <<table, leases, pc, tok, mine, cur, faults>>

\* UPDATE ... WHERE outbox_id = cur AND claim_token = tok.
Owns(p) == claim[cur[p]] = tok[p]

\* published_at is set and the claim cleared, unless the row is another's now.
MarkPublished(p) ==
    IF Owns(p)
      THEN /\ status' = [status EXCEPT ![cur[p]] = "published"]
           /\ claim' = [claim EXCEPT ![cur[p]] = NoToken]
           /\ UNCHANGED <<backoff, attempts>>
      ELSE UNCHANGED table

Mark(p) ==
    /\ pc[p] = "mark"
    /\ MarkPublished(p)
    /\ pc' = [pc EXCEPT ![p] = IF mine[p] = {} THEN "idle" ELSE "send"]
    /\ cur' = [cur EXCEPT ![p] = NoRow]
    /\ tok' = [tok EXCEPT ![p] = IF mine[p] = {} THEN NoToken ELSE @]
    /\ UNCHANGED <<leases, copies, mine, late, faults>>

\* The database fails under mark_outbox_published; the update may have
\* committed.  psycopg's errors are not among those publish_once handles.
MarkRaises(p) ==
    /\ pc[p] = "mark"
    /\ MarkPublished(p) \/ UNCHANGED table
    /\ pc' = [pc EXCEPT ![p] = "exit"]
    /\ Fault
    /\ UNCHANGED <<leases, copies, tok, mine, cur, late>>

\* release_outbox gives back the failed row alone; the rest of the batch
\* stays claimed until the lease expires.  Then the exception leaves run.
\* (A release that fails leaves what Crash leaves, or what Release does.)
Release(p) ==
    /\ pc[p] = "release"
    /\ IF Owns(p)
         THEN /\ claim' = [claim EXCEPT ![cur[p]] = NoToken]
              /\ backoff' = [backoff EXCEPT ![cur[p]] = TRUE]
              /\ UNCHANGED <<status, attempts>>
         ELSE UNCHANGED table
    /\ pc' = [pc EXCEPT ![p] = "exit"]
    /\ UNCHANGED <<leases, copies, tok, mine, cur, late, faults>>

\* SIGTERM or SIGINT: seen between two batches only.
Stop(p) ==
    /\ pc[p] = "idle"
    /\ pc' = [pc EXCEPT ![p] = "exit"]
    /\ Fault
    /\ UNCHANGED <<table, leases, copies, tok, mine, cur, late>>

\* The `finally` block of run has flushed the producer, and run returns.
Exit(p) ==
    /\ pc[p] = "exit"
    /\ Gone(p)
    /\ UNCHANGED <<table, leases, copies, faults>>

Crash(p) ==
    /\ pc[p] # "down"
    /\ Gone(p)
    /\ Fault
    /\ UNCHANGED <<table, leases, copies>>

-----------------------------------------------------------------------------
Work(p) == Start(p) \/ Claim(p) \/ Acked(p) \/ Mark(p) \/ Release(p) \/ Exit(p)
Failure(p) == \/ ClaimRaises(p) \/ DeliveryFails(p) \/ DeliveryTimesOut(p)
              \/ ArrivesLate(p) \/ MarkRaises(p) \/ Stop(p) \/ Crash(p)

Next == \/ \E r \in Rows : Insert(r) \/ Retire(r) \/ BackoffEnds(r)
        \/ \E t \in 1 .. claims : Expire(t)
        \/ \E p \in Publishers : Work(p) \/ Failure(p)

Spec == Init /\ [][Next]_vars

-----------------------------------------------------------------------------
(***************************************************************************)
(* Properties.                                                             *)
(***************************************************************************)

Locations == {"down", "idle", "send", "mark", "release", "exit"}

\* Every variable keeps its shape.
TypeOK ==
    /\ status \in [Rows -> {"absent", "pending", "published", "deleted"}]
    /\ claim \in [Rows -> Nat]
    /\ backoff \in [Rows -> BOOLEAN]
    /\ attempts \in [Rows -> Nat]
    /\ claims \in Nat
    /\ expired \in SUBSET Nat
    /\ copies \in [Rows -> Nat]
    /\ pc \in [Publishers -> Locations]
    /\ tok \in [Publishers -> Nat]
    /\ mine \in [Publishers -> SUBSET Rows]
    /\ cur \in [Publishers -> Rows \cup {NoRow}]
    /\ late \in [Publishers -> BOOLEAN]
    /\ faults \in Nat

\* "Publisher confirms outgoing broker writes before marking outbox rows
\* delivered" (README): a row that is marked, and a row that retention has
\* deleted, is on the topic, whichever publisher marked it and however late.
MarkedRowsAreOnTheTopic ==
    \A r \in Rows : status[r] \in {"published", "deleted"} => copies[r] > 0

\* The lease protects its holder: until its token expires, no other publisher
\* takes, marks or releases a row the holder still has to deal with.
Working(p) == IF pc[p] \in {"mark", "release"} THEN mine[p] \cup {cur[p]} ELSE mine[p]
LeaseIsExclusive ==
    \A p \in Publishers : pc[p] \in {"send", "mark", "release"} =>
      \A r \in Working(p) :
        claim[r] = tok[p] \/ tok[p] \in expired

\* Two publishers at work on one row: at most one of them has a live lease.
OneLiveHolder ==
    \A p, q \in Publishers : \A r \in Rows :
      /\ p # q
      /\ pc[p] \in {"send", "mark", "release"} /\ r \in Working(p)
      /\ pc[q] \in {"send", "mark", "release"} /\ r \in Working(q)
      => tok[p] \in expired \/ tok[q] \in expired

\* Duplicates are bounded by the attempts column: a claim puts at most one
\* copy on the topic, late deliveries included.
OneCopyPerClaim == \A r \in Rows : copies[r] <= attempts[r]

\* A published row stays published, and is never claimed again.
PublishedIsFinal ==
    [][\A r \in Rows : status[r] \in {"published", "deleted"} =>
         status'[r] \in {"published", "deleted"} /\ attempts'[r] = attempts[r]]_vars

\* What makes these inductive: a publisher's token is its own, it no longer
\* holds the row it works on among those it has yet to send, and the copies
\* still owed to a row (unsent, or late) are paid for by its attempts.
Owing(r) == {p \in Publishers : r \in mine[p] \/ (late[p] /\ cur[p] = r)}

PublisherInv(p) ==
    /\ pc[p] \in {"down", "idle"} => mine[p] = {}
    /\ pc[p] \in {"down", "idle", "send", "mark"} => ~ late[p]
    /\ pc[p] \in {"send", "mark", "release"} => tok[p] # NoToken
    /\ pc[p] \in {"mark", "release"} \/ late[p] => cur[p] \in Rows \ mine[p]
    /\ pc[p] = "mark" => copies[cur[p]] > 0

TokenInv ==
    /\ \A p \in Publishers : tok[p] <= claims
    /\ \A r \in Rows : claim[r] <= claims
    /\ \A t \in expired : t <= claims
    /\ \A p, q \in Publishers : p # q /\ tok[p] = tok[q] => tok[p] = NoToken

LeaseInv == /\ LeaseIsExclusive /\ TokenInv
            /\ \A p \in Publishers : PublisherInv(p)

RowInv == \A r \in Rows :
            /\ status[r] \in {"published", "deleted"} =>
                 copies[r] > 0 /\ claim[r] = NoToken
            /\ copies[r] + Cardinality(Owing(r)) <= attempts[r]

\* A row that is not there yet has never been claimed.
Pristine == \A r \in Rows : status[r] = "absent" => attempts[r] = 0
=============================================================================
