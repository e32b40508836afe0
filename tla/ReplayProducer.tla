---------------------------- MODULE ReplayProducer ----------------------------
(***************************************************************************)
(* The replay of the dataset to the raw topic (apps/producer/main.py, with  *)
(* publish_json and wait_for_kafka of lossguard/kafka.py).                  *)
(*                                                                         *)
(* A run reads the dataset from its first row, passes over the rows that    *)
(* are no event, waits the delay of the replay mode, and publishes with one *)
(* confirmation per record.  A failed publication ends the process; compose *)
(* does not restart it (restart: "no"), an operator does, from row one.     *)
(* Time is counted in ticks of the source clock, slept in ticks of the mode *)
(* (in demo mode 720 source seconds are slept in one).                      *)
(***************************************************************************)
EXTENDS Integers, Sequences, FiniteSetsExt

CONSTANTS
    Dataset,    \* the rows: [ok |-> it is an event, time |-> event_time]
    Modes,      \* the replay modes that are tried
    Limits,     \* settings.replay_limit that are tried, 0 for none
    GapCap,     \* REALTIME_GAP_CAP_SECONDS
    MaxRuns     \* bound: times the replay is started

ReplayAssumption ==
    /\ Dataset \in Seq([ok : BOOLEAN, time : Int])
    /\ Modes \subseteq {"realtime", "demo", "max"}
    /\ Limits \subseteq Nat
    /\ GapCap \in Nat

VARIABLES
    rpc,        \* down, connect, read, send, flush
    mode,       \* the mode of the run
    limit,      \* its replay_limit
    row,        \* rows that DictReader has yielded in this run
    published,  \* the counter of that name
    previous,   \* row that previous_event_time is of, 0 for None
    slept,      \* time slept by the run so far
    running,    \* RUNNING
    topic       \* raw topic: what each run has put there, [row, at]

vars == <<rpc, mode, limit, row, published, previous, slept, running, topic>>

Init ==
    /\ rpc = "down" /\ mode \in Modes /\ limit \in Limits
    /\ row = 0 /\ published = 0 /\ previous = 0 /\ slept = 0
    /\ running = TRUE
    /\ topic = <<>>

\* Mutant of Delay: the cap on gaps is not left to the realtime mode.
DelayCapped(delta) == IF mode = "max" THEN 0 ELSE Max({Min({delta, GapCap}), 1})

\* compute_delay; MIN_DELAY_SECONDS counts as one tick.
Delay(delta) ==
    LET gap == Max({delta, 0})
    IN  CASE mode = "max" -> 0
          [] mode = "demo" -> Max({gap, 1})
          [] mode = "realtime" -> Max({Min({gap, GapCap}), 1})

\* A process starts.
Start ==
    /\ rpc = "down"
    /\ Len(topic) < MaxRuns
    /\ mode' \in Modes /\ limit' \in Limits
    /\ rpc' = "connect"
    /\ row' = 0 /\ published' = 0 /\ previous' = 0 /\ slept' = 0
    /\ running' = TRUE
    /\ topic' = Append(topic, <<>>)

\* wait_for_kafka returns a producer, or gives up after its last attempt.
Connect ==
    /\ rpc = "connect"
    /\ rpc' \in {"read", "down"}
    /\ UNCHANGED <<mode, limit, row, published, previous, slept, running, topic>>

\* SIGTERM or SIGINT: the handler clears RUNNING.
Stop ==
    /\ rpc # "down"
    /\ running
    /\ running' = FALSE
    /\ UNCHANGED <<rpc, mode, limit, row, published, previous, slept, topic>>

LoopEnds == ~ running \/ (limit # 0 /\ published >= limit)

\* The loop is left: at the end of the file, on a stop, or at the limit.
LeaveLoop ==
    /\ rpc = "read"
    /\ LoopEnds \/ row = Len(Dataset)
    /\ rpc' = "flush"
    /\ UNCHANGED <<mode, limit, row, published, previous, slept, running, topic>>

\* The row is no event: a warning, and the next row.
SkipRow ==
    /\ rpc = "read" /\ ~ LoopEnds /\ row < Len(Dataset)
    /\ ~ Dataset[row + 1].ok
    /\ row' = row + 1
    /\ UNCHANGED <<rpc, mode, limit, published, previous, slept, running, topic>>

\* The row is an event: the delay since the event published last is slept.
TakeRow ==
    /\ rpc = "read" /\ ~ LoopEnds /\ row < Len(Dataset)
    /\ Dataset[row + 1].ok
    /\ row' = row + 1
    /\ slept' = IF previous = 0 THEN slept
                ELSE slept + Delay(Dataset[row + 1].time - Dataset[previous].time)
    /\ rpc' = "send"
    /\ UNCHANGED <<mode, limit, published, previous, running, topic>>

\* The broker has the message that is being published.
Arrives == topic' = [topic EXCEPT ![Len(topic)] = Append(@, [row |-> row, at |-> slept])]

Delivered ==
    /\ rpc = "send"
    /\ Arrives
    /\ published' = published + 1
    /\ previous' = row
    /\ rpc' = "read"
    /\ UNCHANGED <<mode, limit, row, slept, running>>

\* Mutant of PublishRaises: the error is logged, and the row passed over.
PublishRaisesLogged ==
    /\ rpc = "send"
    /\ rpc' = "read"
    /\ UNCHANGED <<mode, limit, row, published, previous, slept, running, topic>>

\* A delivery error or no confirmation in time: the exception ends the run,
\* with no final flush.  The broker may get the message all the same.
PublishRaises ==
    /\ rpc = "send"
    /\ Arrives \/ UNCHANGED topic
    /\ rpc' = "down"
    /\ UNCHANGED <<mode, limit, row, published, previous, slept, running>>

\* flush(30) has nothing left to deliver, and the run ends.
Complete ==
    /\ rpc = "flush"
    /\ rpc' = "down"
    /\ UNCHANGED <<mode, limit, row, published, previous, slept, running, topic>>

\* The process is killed, before or after the broker has its message.
Crash ==
    /\ rpc # "down"
    /\ \/ rpc = "send" /\ Arrives
       \/ UNCHANGED topic
    /\ rpc' = "down"
    /\ UNCHANGED <<mode, limit, row, published, previous, slept, running>>

Next == \/ Start \/ Connect \/ Stop \/ LeaveLoop \/ SkipRow \/ TakeRow
        \/ Delivered \/ PublishRaises \/ Complete \/ Crash

Spec == Init /\ [][Next]_vars

-----------------------------------------------------------------------------
(***************************************************************************)
(* Properties.                                                             *)
(***************************************************************************)

Events == {i \in DOMAIN Dataset : Dataset[i].ok}
InLog(log) == {log[i].row : i \in DOMAIN log}
InSourceOrder(log) ==
    /\ \A i, j \in DOMAIN log : i < j => log[i].row < log[j].row
    /\ InLog(log) = {e \in Events : \E i \in DOMAIN log : e <= log[i].row}

\* Source-order replay (docs/scope.md): whatever fails, what a run has put on
\* the topic is the beginning of the dataset's events, none twice and none
\* passed over; a run that comes to its end unstopped has put there all of them,
\* or as many as the limit says.
RunsReplayInOrder ==
    /\ \A n \in DOMAIN topic : InSourceOrder(topic[n])
    /\ rpc = "flush" /\ running =>
         Len(topic[Len(topic)]) = IF limit = 0 THEN Cardinality(Events)
                                              ELSE Min({limit, Cardinality(Events)})

\* Demo mode replays source time: though it sleeps gap by gap, skips rows and
\* never sleeps backwards, no event goes out ahead of the source clock.
NeverAheadOfSource ==
    mode = "demo" /\ topic # <<>> =>
      LET log == topic[Len(topic)]
      IN  \A i \in DOMAIN log :
            log[i].at >= Dataset[log[i].row].time - Dataset[log[1].row].time

\* Why these hold: until its process ends, the log of a run is what the run has
\* read of the dataset, but for the row that is being sent; and the clock has
\* reached the event sent last, or the one about to be.
Shapes ==
    /\ rpc \in {"down", "connect", "read", "send", "flush"}
    /\ mode \in Modes /\ limit \in Limits /\ running \in BOOLEAN
    /\ row \in 0 .. Len(Dataset) /\ published \in Nat
    /\ previous \in 0 .. Len(Dataset) /\ slept \in Nat
    /\ topic \in Seq(Seq([row : DOMAIN Dataset, at : Nat]))
Reached == IF rpc = "send" THEN row - 1 ELSE row
RunInv(log) ==
    /\ published = Len(log) /\ (limit # 0 => published <= limit)
    /\ previous = IF log = <<>> THEN 0 ELSE log[Len(log)].row
    /\ InLog(log) = {e \in Events : e <= Reached}
    /\ rpc = "send" => row \in Events /\ (limit # 0 => published < limit)
    /\ rpc = "flush" => ~ running \/ row = Len(Dataset) \/ (limit # 0 /\ published = limit)
Timed == IF rpc = "send" THEN row ELSE previous
ClockInv(log) ==
    log # <<>> => slept >= Dataset[Timed].time - Dataset[log[1].row].time
ReplayInv ==
    /\ Shapes
    /\ \A n \in DOMAIN topic : InSourceOrder(topic[n])
    /\ NeverAheadOfSource
    /\ rpc # "down" => /\ topic # <<>> /\ RunInv(topic[Len(topic)])
                       /\ mode = "demo" => ClockInv(topic[Len(topic)])
=============================================================================
