# LossGuard in TLA+

LossGuard replays card transactions through Kafka, asks a scoring API for a
decision on each, stores the decisions in PostgreSQL, announces them on Kafka
through a transactional outbox, and shows them on a Streamlit dashboard. This
directory holds its TLA+ models, the TLC configurations that check them on small
instances, and TLAPS proofs of the properties that matter most. Paths below are
those of the repository (`apps/...`, `src/lossguard/...`).

Contents: [the system](#1-the-system), [modules](#2-the-modules-and-the-code),
[runs and bounds](#3-runs-and-bounds), [fairness](#4-fairness),
[proofs](#5-what-is-proved), [where code and text disagree](#6-where-the-code-and-the-text-disagree),
[what is left out](#7-what-is-not-modelled), [plan](#8-plan).

To repeat everything: `tlc -config X.cfg MCModule` for a row of the table of
runs, `tlapm M.tla` for a module whose name ends in `Proofs`.

## 1. The system

    CSV -> producer -> txns.raw -> consumer --HTTP--> scoring API <- model files <- trainer
                                     |  one transaction
                                     v
                      PostgreSQL: scored, rejected, metrics, outbox
                         ^      ^                        |
              dashboard -+      +- drift, retention      v
             (explanations)                       outbox publisher -> txns.scored, txns.rejected

| Component | State it keeps | Operations | Hard behaviour | What makes it correct |
|---|---|---|---|---|
| Ingest consumer (`apps/consumer/main.py`) | in memory: batch, messages, pending alerts, message being scored; in Kafka: group offsets, partition owners | poll, validate, score with retries, flush (save, commit, alert, reset), final flush, restart | each step of a flush can fail; the `finally` block flushes again; rebalances without a callback; restarts | no offset covers an unrecorded message; every record gets its outcome; duplicates only through failures; alerts only for stored decisions |
| `save_batch` (`src/lossguard/database.py`) | five tables | one transaction with two conflict clauses | redelivery, rescoring under another version | outcomes are whole; keys unique; each stored decision is announced |
| Outbox (`database.py`, `apps/outbox_publisher/main.py`, `src/lossguard/kafka.py`) | rows with claim token, lease, back-off, attempts; per publisher the claimed batch | claim, publish, mark, release, exit, restart | leases lapse under a live holder; timeouts that arrive late; a failure half-way through a batch | a marked row is on the topic; leases exclude; one copy per claim; every row is published |
| Retention (`maintenance/retention.py`) | none | delete published rows past an age | runs beside the publishers; a deleted row takes its dedupe key along | never deletes an undelivered row; only a deleted row can be announced again |
| Training and start-up (`ml/train.py`, `scripts/ensure_model.py`, `src/lossguard/model_artifact.py`) | bundle, sidecar, metadata files | write the three files; verify or train | dies between and inside writes | the next start repairs what it finds; the three files belong together |
| Scoring API (`apps/scoring_api/model_service.py`) | `bundle`, `artifact_sha256`, `_explainer` | reload, score, in a thread pool without a lock | reload against training, reload against reload, score against reload | verified bundles only; the last good one is kept; responses are filed under the right version |
| Cost policy (`src/lossguard/costs.py`, `constants.py`, `apps/dashboard/simulation.py`) | none; the sweep's loop | decide, cost, sweep thresholds, simulate | ties, boundaries, fallbacks, three copies of one rule | the sweep finds the minimum of what scoring realizes |
| Explanation adapters (`src/lossguard/explanations.py`) | none; the loop over contributions | resolve the provider, rank the drivers, call, read the reply, fall back | encoded columns of one feature, ties, replies of an unexpected shape | a reported driver raised the risk; a failure falls back |
| Explanation cache (`apps/dashboard/data.py`) | explanation columns of a row; advisory lock; the page's cached rows | get or create under the lock | concurrent sessions, rescoring underneath, failures while the lock is held | the provider is paid once; nobody waits for ever; the text is that of the row |
| Drift monitor (`monitoring/`, health query in `apps/dashboard/data.py`) | newest report, deadline of the scheduler | run, store the result, store the error, run by hand with a simulated shift | its error handler can fail itself; reports age, demonstrations overwrite | failures are visible; STALE and demonstrations mean what the page says |
| Migrations (`infrastructure/postgres/`) | schema, `schema_migrations`, the files | check, apply, record; start the services | apply and record are separate transactions; two runs at once; files change | services find the whole schema; a record vouches for what was applied; rerunning repairs |
| Replay producer (`apps/producer/`) | position in the CSV, last event time | read, skip, pace, publish, stop | a publication that fails may still arrive; restarts begin at row one | each run puts a prefix of the events on the topic, in order, and keeps behind the source clock |
| Features, privacy, schemas, settings, dashboard pages, dbt, scripts, deployment | none | conversions, views, configuration | | not modelled, see section 7 |

Interactions. The producer and the consumer meet in the raw topic. The consumer and the publishers meet only in the table
`kafka_outbox`: the consumer inserts (inside `save_batch`), publishers claim and
mark, retention deletes. The consumer meets the dashboard in
`scored_transactions`: the upsert clears the explanation when the model version
changes, and the dashboard writes it. The trainer meets the scoring API, and
through the metadata file the drift monitor, in the file system. The services start
when migrations and `model-init` have ended well. The scoring API meets the consumer in a response whose
`model_version` becomes a part of the outbox's dedupe key.

## 2. The modules and the code

| Module | What it is |
|---|---|
| `AtLeastOnce` | abstract promise of ingestion: outcomes are recorded, acknowledgements cover only recorded messages |
| `IngestConsumer` | the consumer group and `save_batch`; refines `AtLeastOnce` |
| `OutboxPublisher` | claim, publish, mark, release, for several publishers, with retention |
| `EndToEnd` | abstract promise of the streaming path; extends the promise of `AtLeastOnce` to the downstream topics |
| `Pipeline` | producer, `IngestConsumer`, `OutboxPublisher` and retention composed; refines `EndToEnd` |
| `ReplayProducer` | the replay of the dataset: reading, pacing, publishing, failing |
| `Migrations` | the migration script, run by several at once, and the services that wait for it |
| `DriftHealth` | the drift monitor's scheduler and jobs, and the health the page shows |
| `ModelLifecycle` | the three model files, start-up, `reload` and `score` in threads |
| `CostPolicy` | decisions and costs as operators, in each of the three forms the code has |
| `ThresholdTraining` | the threshold search of training; extends `CostPolicy` |
| `ExplanationCache` | `get_or_create_plain_explanation` with sessions, cached rows, rescoring, the provider's resolution and its replies |
| `RiskDrivers` | which features an explanation names |
| `MC...` | constants, logs, frames and symmetry sets for TLC. `MCDashboard` puts `DriftHealth`, `ExplanationCache`, `RiskDrivers` and `ThresholdTraining` side by side, `MCStartUp` `Migrations` and `ReplayProducer`, `MCModelServing` two instances of `ModelLifecycle`: a behaviour moves one of them, named by `part` |
| `...Proofs` | TLAPS proofs: `IngestConsumerProofs`, `IngestDuplicateProofs` (which extends it), `OutboxPublisherProofs`, `PipelineProofs`, `ExplanationCacheProofs`, `ModelLifecycleProofs`, `StartUpProofs` (of `MCStartUp`: `Migrations` and `ReplayProducer`), `DashboardProofs` (of `MCDashboard`: `DriftHealth`, `RiskDrivers`, `ThresholdTraining`). Where a proof needs the lemmas of a component it instantiates the component's proof module: `Pipeline` has `In` and `Out`, `MCDashboard` has `Cache` |

A definition that is called a *mutant* in its comment is a plausible bug, written
beside the definition it would replace; it takes no part in any behaviour. Put in
place of the original it makes the property it is listed with fail, which is how
we know that each property can tell the code from a broken version of it.

### IngestConsumer

One process per element of `Consumers`, each at a location `pc`:

| Location | Code | Actions |
|---|---|---|
| `down` | the process is not running, or is between two calls of `run` | `Start` |
| `poll` | head of the loop in `run` | `PollValid`, `PollRejected`, `PollTombstone`, `TimedFlush`, `Stop` |
| `score` | inside `score_with_retry` | `ScoreSucceeds`, `ScoreRetries`, `ScoreRaises` |
| `save` | `flush`, at `save_batch` | `SaveCommits`, `SaveRaises`, `SaveRefused` |
| `commit` | `flush`, at `consumer.commit` | `CommitReturns`, `CommitReturnsPartly`, `CommitRaises` |
| `alert` | `flush`, in the alert loop and the reset after it | `AlertNotDue`, `AlertSent`, `AlertPostFails`, `AlertMetricRaises`, `FlushEnds` |

`Leave` is any exception that leaves the loop: `FinalFlush` is the `finally`
block, which flushes what is pending (`closing` records that it did), and
`Vanish` the end of the process. `Crash` is death without `finally`, anywhere.
A batch is one sequence of entries; the code's parallel lists (`scores`,
`rejections`, `metrics`, `outbox`, `pending_alerts`, `messages`) are appended to
together in one loop iteration, so one sequence is what they are. A raw record is
one of five kinds: valid, valid with a text that PostgreSQL cannot store (a NUL in
the transaction id or the merchant, which the schema allows), rejected by validation,
rejected with a summary that PostgreSQL cannot store, and without a value. The first
two are `Accepted`, and scored. The group coordinator (`owner`,
`position`, `committed`) is external: it may reassign partitions whenever one has
no owner, and, at the cost of a fault, at any time. Offsets are one-based:
`committed[p] = n` is the Kafka offset just after the n-th record. Slack's
webhook is taken to be configured (without one `send_high_risk_alert` does
nothing). An alert whose post raised may have been received all the same, when only
the answer came too late (`AlertPostFails`); it is not counted as sent. PostgreSQL runs the transaction of `save_batch` as one step: it is one
transaction, and each of its statements that could interleave with another
consumer's acts on rows with a unique key. A deadlock of row locks shows as
`SaveRaises`.

### OutboxPublisher

`status`, `claim`, `backoff` and `attempts` are the columns `published_at` (with
the row's existence), `claim_token`, `available_at` and `attempts`. There is no
clock: a lease ends when its token enters `expired`, a back-off when
`BackoffEnds`. A lease may lapse while its holder is working, as a batch of 100
rows at up to ten seconds each outlasts 300 seconds. `Claim` is `claim_outbox`;
`Acked`, `DeliveryFails` and `DeliveryTimesOut` are the outcomes of
`publish_json`, and `ArrivesLate` the message that librdkafka still delivers after
the caller has given up; `Mark` and `Release` are the two updates guarded by the
token; `Exit` is the end of `run`. A failed row is released alone, the others
of its batch stay claimed: that is what the code does, and why
`EventuallyAnnounced` needs leases to expire.

### ModelLifecycle

A bundle, its digest and its metadata are the number of the training run that
made them; `Torn` is a file that was opened (which empties it) and not filled.
`EnsureModel` is `scripts/ensure_model.py`; `WriteBundle`, `WriteSidecar` and
`WriteMetadata` are the writes of `ml/train.py`, two steps each; `TrainAgain` is
the trainer container. `reload` is one step per access: existence and sidecar,
hash, load, and the three assignments. `score` is one step per read of
`self.bundle` or `self._explainer`. The first step of a response decides whether
the heuristic answers. A `TreeExplainer` that cannot be built leaves `_explainer` as it
is, and the response without an explanation (`BuildFails`). There is one training process
at a time: compose orders nothing between `model-init` and the trainer container of the
tools profile, so this is a restriction of the model.

### CostPolicy and ThresholdTraining

Amounts, probabilities and costs are scaled integers, so all sums are exact and a
tie is a tie; the code's floats round, and can break ties that are exact here.
`ActionFor` and `RealizedCost` are the row-wise functions, `Chosen` and `Total`
the arrays of `optimize_thresholds`. The dashboard has a copy of its own, and so has the
model: `SimulatedAction`, `SimulatedCost`, `SimulatedCaught`, `SimulatedMissed` and
`SimulatedFriction` are the arrays of `simulate_threshold`, each written from its own
lines, and `Simulate` their sums. A frame is a function
from kinds of rows to the number of their copies, and a sum over it (`Sum`) is one over
that function. The sweep is one
step per pair of grid values, over the global frame and then over each category
present, with `FallsBack` for those with fewer than five frauds. The code sweeps
categories in the order of `groupby`; the model in any order.

### ExplanationCache and RiskDrivers

One transaction. `row` is the model version the row was last scored under, `text`
its explanation columns, `recent` the row as `st.cache_data` holds it, `selected`
what a session handed to `get_or_create_plain_explanation`. A provider is
represented by its model, as a configuration names exactly one of each; `Resolve`
is `resolve_llm_provider` over every setting of the `.env`. `Locks` is
`pg_advisory_xact_lock`, which the transaction's end releases (`Ends`, `Fails`,
`Recreate`). `ExplainsByProvider` picks one of six kinds of reply, and `Reader` is
what the four readers make of it: a sentence, an exception that
`explain_transaction` names (the template's text, filed under the provider's
model), or an `AttributeError`, which leaves the transaction
(`ExplanationEscapes`). Each failure of any kind is counted in `faults`.

`RiskDrivers` is the loop of `safe_risk_drivers` (`Skips`, `Adds`, `Competes`: one
step per contribution) and the ranking after it (`Ranked`, `Drivers`). The stable sort
is modelled by where it puts an element: `Place` counts the elements that come `Before`
it. Strengths are small integers, since rounding to four digits is what makes ties.

### DriftHealth

Jobs are the scheduler's evaluation and the one an operator runs with
`--simulate-shift`; each is at a location `pc` of `run`: loading, reading the model
version, reporting, persisting, in the error handler, about to return. Only the newest
row of `model_drift_reports` is kept, with its `age`; `due` is the time left to the
scheduler's deadline, which is set when the evaluation has returned (`Return`), not when
it began. Time may pass at any moment: while the scheduler sleeps (`Tick`), and while it
evaluates, is about to wake up, or is down (`Linger`), which `delay` adds up since the
newest row. Two rows are therefore the interval and the duration of an evaluation apart,
as in the code. The interval and the maximum age are two settings that no code compares,
and the model does not either. A commit may succeed and raise all the same
(`JobRaises`): the row is stored, and the error row after it.
`PersistError`, `ErrorUnversioned` and `ErrorUnstored` are the three ends of the
handler. `missed` records whose evaluation left no row since the newest one, and
why; the code keeps no such thing, it is there for the properties. `Shown` is
`effective_health_status`.

### Migrations

The text of a migration file is a number, which is its checksum as well; `Edit` is
a changed checkout. The schema is a function from the three things that services
need to the text that made them. `Look`, `Apply` and `Record` are the three
commands of the script per file: the lookup of the checksum, the transaction that
applies the file (`IF NOT EXISTS` throughout: `Creates`), and the one that records
it. Volumes may be fresh or of an older release. `StartServices` is compose's
`service_completed_successfully`.

### ReplayProducer

One run at a time. `row` is the position of `csv.DictReader`, `previous` the row
published last, `slept` what `time.sleep` has been told so far in source time. A
record is delivered (`Delivered`), or `publish_json` raises (`PublishRaises`) with or
without the broker having it, which is what a timeout means. `topic` has one log per
run.

### Pipeline and EndToEnd

`Pipeline` composes `IngestConsumer` and `OutboxPublisher` as instances over shared
variables. The consumer's view of `kafka_outbox` is the set of dedupe keys, the
publishers' view the delivery columns; `outbox` links the two, row by row. `Consume`
takes any step of the consumer and appends the rows for the keys it added
(`Inserted`), which become pending in the same step, because `save_batch` is one
transaction. `Publish` takes any step of a publisher. `Retire` deletes a published
row on both sides: key and delivery state. `Produce` makes the next record of a
partition readable. Consumers and publishers have separate fault budgets.
`EndToEnd` has no processes at all: records are produced, ingested as `AtLeastOnce`
allows, and announced once recorded.

## 3. Runs and bounds

| Run | Instance | Shows |
|---|---|---|
| `IngestOne.cfg` | 1 consumer, 2 partitions with a transaction that comes twice, another one, and a malformed, an unstorable, a poisoned (valid, with a NUL) and an empty record; 2 model versions, batches of 2, 2 attempts, 2 failures | commit safety and its inductive invariant, whole outcomes, announced decisions, alerts, duplicates, offsets, refinement of `AtLeastOnce` |
| `IngestGroup.cfg` | 2 consumers, 2 partitions that share a transaction, 2 failures | commit safety of batches that survive a rebalance, and `EventuallyRecorded` |
| `IngestTombstone.cfg` | 1 consumer, 3 records, the middle one empty | a violation of `EventuallyRecorded`, section 6 |
| `OutboxSafety.cfg` | 2 publishers, 3 rows, claims of 2, 2 failures or lapsed leases | leases exclude, marked rows are on the topic, copies are accounted for, published is final |
| `Pipeline.cfg` | 1 consumer, 1 publisher, a valid record, a bad one and the valid one again; 1 failure on each side, 1 row deleted by retention | an acknowledged record is announced or owed; nothing is announced twice unless retention removed the first row; everything produced is announced in the end; refinement of `EndToEnd` |
| `ModelServing.cfg` | 1 request beside 1 reload thread and 1 crash, or 2 reload threads and 2 crashes; 2 trainings | no torn bundle in use; a response is never filed under a version older than what it was computed from; refused reloads keep the last good bundle; undisturbed reloads show the right digest; the next start repairs the files unless the sidecar was left empty |
| `ModelEmptySidecar.cfg`, `ModelExplainer.cfg` | 1 reload thread, 1 or 2 trainings | two violations, section 6 |
| `StartUp.cfg` | 2 runs of the migration script, 1 edit of each file, 2 failures; a dataset of 5 rows (two of them no event, times that go back), 3 modes, a limit, 2 runs of the replay | services find the schema, records vouch for it, start-up succeeds in the end; replays are in order, complete, and behind the source clock |
| `Dashboard.cfg` | drift: interval of 2 ticks, maximum age of 3, retention of 5, up to 2 ticks not slept since a row, 2 failures; explanations: 2 sessions, 2 providers, 2 versions, 2 rescorings, 2 failures; drivers: 4 contributions of 3 features; thresholds: 4 x 4 grids that overlap, 242 frames of two categories with rows on, below and above grid values | what STALE and a demonstration's row mean, evaluations return after failures; one provider call per score and failure, no session waits for ever, stale pages alone mislead; the drivers named raised the risk; the sweep finds the first cheapest ordered pair and agrees with scoring and simulator |
| `CacheStale.cfg` | 1 session, 1 rescoring, no failure | a violation, section 6 |
| `DriftTorn.cfg` | 1 failure | a violation, section 6 |

Why the bounds are enough. A flush has three places to fail and the `finally`
block a second flush: two failures reach a failed flush whose final flush fails
too, a failure after a redelivery, and an extra rebalance after a crash. Batches
of two in logs of four and two give full, partial and mixed batches; two partitions let
one batch touch both and one commit succeed for one of them; a second consumer is
what it takes for a batch to outlive its ownership, and a third would repeat the
second. Three outbox rows with claims of two leave a row for the second publisher
while the first holds a batch, and a batch half-done. The pipeline's three
records are the least with which a record is delivered again after its outcome was
announced, which is what the dedupe key and retention are about; its failures are one
on each side, since the components are checked with more by themselves. Two trainings give an old
and a new bundle (with a third, tracked metadata); a second reload thread is what
overlapping reloads need, and requests are looked at beside one of them, as each
request reads the service's attributes only. Two runs of the migration script
with two failures reach every pair of places in it; a third run would find nothing
else. The replay's dataset has each thing that the loop tells apart: skipped rows
at the beginning of a gap and at the end, a negative and a long gap. An interval of
two ticks lets a demonstration, an outage and an evaluation fall on either side of
each other; with a maximum age one tick longer, and two ticks that may pass without
sleep, a report becomes stale both because an evaluation was lost and because one took
too long, and retention deletes it in the end. Four contributions over three features have a
feature that comes twice, and ties. The counters of the models (`metricRows`,
`copies`, `claims`, `made`, `calls`) are bounded through `MaxFaults`, `MaxTrainings`,
`MaxRescores`, `MaxRetired`, `MaxRuns` and the finite logs, not by a state
constraint, so no behaviour is cut off in its middle. The age of a drift report
and the deadline are bounded as they are by the code, by retention and the interval.
`MaxDelay` bounds the time that passes between two rows while the scheduler does not
sleep; the code bounds it by nothing, and the theorems hold for every bound.

Symmetry is used in `OutboxSafety` only, which has no liveness property, on the
publishers, which the module never compares.

`CHECK_DEADLOCK FALSE` stands where the program may be done: all records are
handled and no failure is left, all rows are published, the trainer is ready and
no reload is asked for, the search over thresholds has ended, the replay has been
run as often as it may be. That nobody waits for anybody for ever is checked by the
liveness properties instead (`EventuallyRecorded`, `EventuallyAnnounced`,
`ReviewsEnd`, `EvaluatesAgain`, `EventuallyUp`, `RecoversUnlessSidecarTorn`).

## 4. Fairness

- `IngestConsumer!FairSpec`: weak fairness of `Work(c)` for every consumer and of
  the rebalance that assigns partitions nobody owns. The loop of `main` and the
  restart policy `unless-stopped` start the process again; the coordinator
  reassigns after the session timeout. Failures are never forced, and
  `MaxFaults` says that they end.
- `Pipeline!FairSpec`: the same for its consumers; weak fairness of `Out!Work(p)` for
  every publisher, which the restart policy starts again as well, of the end of some
  back-off, and of the lapse of some lease whose holder is gone (the lapse of a live
  holder's lease is a fault); the last two are the passing of time. Nothing makes the
  producer produce, retention delete, or anything fail.
- `ModelLifecycle!FairSpec`: weak fairness of `Training`: a training goes on unless
  it dies, and `model-init` runs at every `docker compose up`.
- `ExplanationCache!FairSpec`: weak fairness of a session inside its transaction
  (provider calls have a timeout), strong fairness of `Locks`, since PostgreSQL
  queues the waiters of an advisory lock. Nothing makes a session begin a review.
- `DriftHealth!FairSpec`: weak fairness of the restart, of waking up, of the steps of a
  job, and of time. `Train` is not fair: `EvaluatesAgain` has readable metadata as its
  hypothesis.
- `Migrations!FairSpec`: weak fairness of the steps of a running script, of starting
  it again while the services are not up (the operator repeats `docker compose up`),
  and of starting the services.
- `ReplayProducer`, `RiskDrivers` and `ThresholdTraining` have safety properties only.
  The replay is not restarted by compose (`restart: "no"`), so nothing obliges it to
  come to its end.

## 5. What is proved

For every value of the constants, under assumptions that TLC evaluates on every run:
`ConstantsAssumption` (logs are sequences of records, the batch size and the number of
attempts are positive), `OutboxAssumption` (finitely many publishers, numbered rows,
positive claim size), `PipelineAssumption` (both, with finitely many transactions, model
versions and partitions), `DriftAssumption` (the interval is positive; interval, maximum age and retention of
reports, 7, 8 and 180 days by default, are in no order),
`CacheAssumption` (the providers are among the four that exist), `ModelAssumption`
(threads that reload are not threads that answer requests, and there are some),
`ReplayAssumption` (the dataset is a finite sequence of rows), `DriversAssumption` (lists
of contributions are finite), and `TrainingAssumption` (frames hold finitely many kinds
of rows, with probabilities, amounts and margins that are not negative; some verify
threshold of the grid is below some decline threshold). `Migrations` needs none.

| Theorem | Says |
|---|---|
| `IngestConsumerProofs!TypeCorrect` | `Spec => []TypeOK` |
| `IngestConsumerProofs!CommitSafe` | `Spec => []CommitInv` |
| `IngestConsumerProofs!RefinesAtLeastOnce` | `Spec => ImplementsAtLeastOnce` |
| `IngestConsumerProofs!OutcomesWhole` | `Spec => []OutcomesAreWhole` |
| `IngestConsumerProofs!KeysAndAnnouncements` | keys are unique, stored decisions are announced |
| `IngestConsumerProofs!OffsetsCover` | `Spec => []OffsetsCoverRecorded` |
| `IngestConsumerProofs!AlertsFollow` | `Spec => []AlertsFollowRecords` |
| `IngestConsumerProofs!OffsetsAdvance` | `Spec => OffsetsRegressOnlyOnFaults` |
| `IngestConsumerProofs!CalmStoresOnce` | while nothing failed, no message left two rows: `DuplicatesNeedFaults` for `faults = 0` |
| `IngestDuplicateProofs!DuplicatesBounded` | `Spec => []DuplicatesNeedFaults`: n failures leave at most 2^n rows of a message |
| `OutboxPublisherProofs!TypeCorrect` | `Spec => []TypeOK` |
| `OutboxPublisherProofs!LeasesProtect` | `LeaseIsExclusive` and `OneLiveHolder` |
| `OutboxPublisherProofs!CopiesAreAccounted`, `OneCopy` | `MarkedRowsAreOnTheTopic`, `OneCopyPerClaim` |
| `OutboxPublisherProofs!PublishedStays` | `PublishedIsFinal` |
| `PipelineProofs!PipelineIsInvariant` | `Spec => []PipelineInv` |
| `PipelineProofs!AcknowledgedAreOwed` | `Spec => []AcknowledgedIsOwed` |
| `PipelineProofs!AnnouncedOnceWhileKept` | `Spec => []ReannouncedOnlyAfterRetention` |
| `PipelineProofs!RefinesEndToEnd` | `Spec => ImplementsEndToEnd` |
| `ModelLifecycleProofs!TypeCorrect` | `Spec => []TypeOK`: nothing half-written is installed or used |
| `ModelLifecycleProofs!LastGoodKept` | `Spec => LastGoodIsKept` |
| `ModelLifecycleProofs!QuietVerified` | `Spec => []QuietReloadsAreVerified` |
| `ModelLifecycleProofs!NewestNamed` | `Spec => []ResponsesNameTheNewest` |
| `StartUpProofs!TypeCorrect` | `Spec => []TypeOK` of `Migrations` |
| `StartUpProofs!SchemaFound` | `Spec => []ServicesFindTheSchema` |
| `StartUpProofs!RecordsAreVouchedFor` | `Spec => []RecordsVouch` |
| `StartUpProofs!ReplayIsInOrder` | `SpecAll => []RunsReplayInOrder` |
| `StartUpProofs!SourceClockIsKept` | `SpecAll => []NeverAheadOfSource` |
| `ExplanationCacheProofs!TypeCorrect` | `Spec => []TypeOK`, which has the exclusion by the lock |
| `ExplanationCacheProofs!PaidOnce`, `OnlyStalePages` | `Spec => []GeneratedOnce`, `Spec => OnlyStalePagesMislead` |
| `DashboardProofs!GeneratedOnceOnThePage`, `OnlyStalePagesOnThePage` | the same of the composed page |
| `DashboardProofs!TypeCorrect`, `ScheduleHolds` | `Spec => []TypeOK`, `Spec => [](TypeOK /\ ScheduleInv)` of `DriftHealth` |
| `DashboardProofs!StaleHasACause` | `Spec => []StaleIsAccountedFor` |
| `DashboardProofs!DemonstrationsAreReplaced` | `Spec => []DemonstrationsEnd` |
| `DashboardProofs!FirstMinimumFound` | `SpecAll => []BestIsFirstMinimum` |
| `DashboardProofs!CategoriesSaveTogether` | `SpecAll => []CategoriesNeverCostMore` |
| `DashboardProofs!SweepIsScoring` | `SpecAll => []SweepMatchesScoring` |
| `DashboardProofs!SimulationAdds` | `SpecAll => []SimulationReconciles` |
| `DashboardProofs!StrongestKept` | `SpecAll => []StrongestOfEach` |
| `DashboardProofs!DriversAreReasons` | `SpecAll => []DriversRaisedRisk` |

**The consumer.** That committed offsets are durable is not inductive: a flush
commits offsets of messages it holds in memory, and an offset covers everything
before it. `CommitInv` says why that is safe. A message is *settled* for a process
when it is durable or in its batch. Everything before a batched message is settled
(`BatchSettled`), everything before the message being scored (`CurSettled`), and
everything up to the position of an owned partition (`PositionSettled`); once the
save is done, the whole batch is durable (`FlushedDurable`). A commit then stores
the offset of a batched message, all of whose predecessors are settled and
therefore durable. The argument does not need the batch to be free of repetitions
or in order, so it covers batches that survive a rebalance; it does need that
polling continues from the committed offset after one. The proof goes by the way
control moves: lemmas for steps that only move control (`MoveKeeps`), lose the
process (`VanishKeeps`), leave the loop (`LeaveKeeps`), append (`AppendKeeps`) and
commit (`CommitKeeps`), then one step per action. The refinement follows from
`CommitInv`: a step that changes the metric rows is a `Record`, one that changes
offsets an `Acknowledge`, by `CommitInv'`.

`OutcomeInv` adds `EntriesMatch` (a batch scores exactly its accepted messages) to the
three properties of the tables, since `save_batch` reads nothing but the batch and
the tables. `OffsetsCover` joins the two invariants.

`AlertInv` counts: from the save of a batch to its reset, the alerts that its entries are
still to send (`Unalerted`) plus those sent never exceed the rows of the metric, over all
processes that flush at once. `OrderInv` is what a calm group looks like: each partition
has one reader, which holds a stretch of the log, in order, that starts after the
committed offset, and what is stored lies before that offset or in a batch being flushed.
It needs `Undisturbed`, a hypothesis that the attempt to prove it brought to light: a
record that PostgreSQL refuses, or a tombstone, takes its consumer down without anything
having failed; in a group, that is a rebalance, after which another member stores again
what was stored and not committed, or commits less than was. With one consumer, or with a
log without such records, `OffsetsRegressOnlyOnFaults` and `DuplicatesNeedFaults` hold.

`IngestDuplicateProofs` proves the bound on duplicates, which the number of rows alone
cannot carry: a failure does not write a second row, it arranges for one. The account of
a message is what it has (`metricRows`), the copies of it that processes hold and have
not saved (`Unsaved`; the two together are `Holdings`), and the readings still to come.
A save moves copies from one column to the other. Only a failure adds to the account, and
it at most doubles it: a flush that fails after its save leaves its batch to be flushed
again, and the copies it holds are at most as many as the rows it just wrote (`Counted`).
What counts as a reading to come differs between the two cases of `Undisturbed`. One
consumer reads again after a restart unless it still keeps what it has read (`Kept`). In
a group (`ToCome`) a message is read again when it is behind its reader's position,
when a partition has no owner or a member is closing (a rebalance follows), or when some
process may commit an offset below it (`Menace`). Nothing of this counts once the
message is `Safe`, that is committed with no such process left, nor where the failure
that doubled the rows is the one that closes the process (`Excused`): the reading its
end calls for finds the message committed, and the failure would otherwise be
charged twice. `AloneInv` and `CleanInv` say `Holdings` plus readings to come is
at most `Doublings(faults)`; their proofs follow the eight kinds of step in `StepKinds`
and the rebalance, rather than the actions of `Next` one by one.
`Doublings(n)` is 2^n as the number of subsets of `1 .. n`: the provers do not unfold
2^(n + 1), while the library has the theorems for the cardinality of a power set. The
invariants were model-checked before they were proved, with two consumers and two
partitions, with three consumers, and with one consumer and every kind of record, with up
to two failures each.

**The outbox.** `LeaseInv` adds to exclusivity that tokens are fresh and not shared
(`TokenInv`) and where a publisher may hold what (`PublisherInv`): a new claim takes
a row only from an expired or an empty token, so whoever held it before is in
`expired`. `RowInv` pays for copies: what is on the topic plus what publishers still
owe (unsent, or late) never exceeds `attempts`, with `Cardinality` handled by the
library's theorems on finite sets, which is why `Publishers` is finite.

**The pipeline.** Each step is a step of one component, whose invariants are kept by that
component's own lemmas (`In!` and `Out!`). What is new is the table they share.
`Within(produced)`: nothing is read, recorded or committed beyond what was produced.
`TableInv`, `KeyInv` and `AboutInv`: the rows of `kafka_outbox` that are not deleted are
the dedupe keys, one row each, so there are as many rows as keys and deletions, and every
recorded message has a row about its outcome. A row that is neither published nor deleted
is pending, a published or deleted one has a copy on the topic (`RowInv`), which gives
`AcknowledgedIsOwed` together with `CommitInv`. `ReannouncedOnlyAfterRetention` is part
of the invariant: `Inserted` adds rows for new keys only, and a key is new again only
when `Retire` removed it. For `EndToEnd`, a step that appends rows is a `Record`, one
that adds a first copy an `Announce`, one that commits an `Acknowledge`.

**The model.** `VersionInv`: bundles are numbered by training, and the file, the bundle in
use and what a reload is about to install never go back, except that a file is torn for a
while. `KeptInv`: where there is no file there is no bundle, and a reload that reached its
assignment has one to assign; so only a restart empties the service. `QuietInv` follows
one undisturbed reload from the hash to the last assignment.

**The drift monitor.** When a working monitor is called stale depends on two settings,
on how long evaluations take, and on the age of a row that three kinds of step replace.
`ScheduleInv` is the invariant: while no scheduled evaluation was lost, the age of the
newest row and what is left of the sleep add up to at most the interval and `delay`, the
time not slept since that row; the age alone does while the scheduler works; and an
evaluation that has stored its row and is about to return has slept none of its age. The
deadline set then makes the sum at most interval and delay, a tick moves one unit from
one to the other, a lingering step adds one to age and delay, and a demonstration
makes all of them start again. `StaleHasACause` follows for every pair of settings: a
maximum age that exceeds the interval by what evaluations and restarts take is never
exceeded unless an evaluation is lost, and one that does not is exceeded by a
monitor that works.

**The migrations.** `SchemaInv`: what is recorded is there, and what a runner has gone
past is there, so a runner that ended well has seen everything. It holds although two
runners interleave because nothing is ever dropped (`HasStays`). `VouchInv` says why the
checksum that is recorded is that of the text that was applied: until a version is
recorded, its object was made by the file's present text, and every runner at that
version has that text's checksum, unless the file changed (`raced`).

**The replay.** `RunInv`: the log of a run holds the events among the rows it has gone past
(`Reached`), in the order of the dataset, each once, and it ends because it was stopped, or
at the end of the dataset, or at the limit. That an unstopped run has them all then follows
by counting. `ClockInv`: the run has slept at least as long as the source took from its
first event to the row at hand, since gaps are capped only where the mode caps them, and
steps back in time are not slept.

**The explanation cache.** `TypeOK` has that the holder of the lock is the one session
between read and commit. `PaidInv` keeps the account of provider calls: a call that no
new score or failure has made good for has left a usable text, or a usable draft in
the hands of the session that saves. A session calls only when it has found no usable
text, with nobody else saving, so the account has room for its call. `DraftInv`, for
`OnlyStalePages`: the draft describes the row that was handed in.

**Sums and the threshold search.** What a frame costs is a sum over a finite set of any
size. The library's induction theorems take an operator, which the provers cannot
instantiate, so induction is done through sets: a set that holds zero, and with each
number the next, holds all numbers (`AllNumbers`), and a family of sets that holds the
empty set, and with each of its sets the one with another element, holds the whole
(`AllElements`). From these: a sum unfolds element by element in any order (`SumUnfolds`,
`SumAdds`), is monotone and linear (`SumsCompare`, `SumPlus`), ignores zeros
(`SumRestricts`), and over a table is the same by rows and by columns (`SumsExchange`).
`SweepInv` is the loop invariant of `optimize_thresholds`: `Passing` shows that a step of
the loops passes exactly one position of the grid, and `TriesPair` keeps the first
minimum. `PairsInv` adds what has been kept: every pair is one of the grid, and that of a
category is the global one or the cheapest for its rows. At the end each category
therefore costs no more than under the global pair; categories without rows cost nothing,
and the global pair's cost on the whole frame is the sum over categories of its cost on
their rows, by exchanging the sums (`TotalsAddUp`). `SweepIsScoring` and `SimulationAdds`
need the row only: `ChosenIsRealized` for the sweep's copy of the rules, and `SimulatedRow`
for the simulator's: its action is that of a response, its cost what that action
realizes, and what is caught, missed and lost to friction adds up.

**The drivers.** `DriversInv`: the features kept are those seen, each once and in the order
of their first contributions (`FirstStays`: a later contribution never changes which was
first), and what is kept of each is the first of its strongest contributions. For
`DriversAreReasons`, `Before` is a strict order of the ranked features, so places grow
with it, no two features share one, and by counting every place up to their number is
taken (`Places`).

**Only model-checked.** Liveness (`EventuallyRecorded`, `EventuallyAnnounced`,
`RecoversUnlessSidecarTorn`, `ReviewsEnd`, `MonitorEvaluatesAgain`, `SchemaComesUp`): TLAPS has
no support for proofs from fairness here. Every invariant and every action property
that a passing run checks is a theorem above.

## 6. Where the code and the text disagree

Five runs end in a violation of something the repository says of itself.

1. `IngestTombstone`: a raw record without a value makes `json.loads(None)` raise a
   `TypeError` that neither the loop nor `main` names. The consumer dies on it at
   every restart; no dead letter is written, and the partition stops.
2. `ModelEmptySidecar`: training that dies between opening and filling the sidecar
   leaves an `IndexError` that `artifact_is_valid` does not handle: `model-init`
   fails from then on instead of training.
3. `ModelExplainer`: a request that builds its explainer across a reload assigns the
   old model's explainer after the reload has cleared it.
4. `CacheStale`: the page's row is up to thirty seconds old; if the consumer rescored
   it, the explanation of the old decision is stored with the new one and stays.
5. `DriftTorn`: a training that dies inside the write of the metadata makes the drift
   job raise, and its error handler, which asks for the model version again, raise too:
   no error row is stored, and the page goes on showing OK. The run has no fairness;
   the property is an invariant.

The models also contain behaviours that no property forbids, because the code
has them: a record that PostgreSQL refuses (an accepted one with a NUL in a text, or a
malformed one whose summary has a NUL or a NaN) fails every batch it is in (`SaveRefused`); a training that dies before the
metadata leaves those of another bundle, which start-up accepts since it only asks
that the file exists (`EnsureModel`); and a training that replaces the bundle
between `reload`'s hash and its load gets it loaded under the old digest (`Loads`). A reply of an unexpected
shape (a string where an object belongs) raises an `AttributeError` that
`explain_transaction` does not name, so there is no fallback text and the page shows a
warning, though the README promises a "local fallback on failure"
(`ExplanationEscapes`; each such reply counts as a failure in `GeneratedOnce`); a null
content read by the OpenAI-compatible reader is stored as the sentence "None."
(`ReadChoice`). When no contribution raised the risk, the drivers reported are those
that lowered it, which the template's sentence still calls reasons (`Ranked`;
`DriversRaisedRisk` therefore has a hypothesis). A record that is delivered again after
retention deleted its outbox row is announced again, by up to the seven days that such
rows are kept (`Retire`). A row of a demonstration is shown as the health of the model
until the next evaluation has ended, an interval and its own duration later
(`DemonstrationsEnd`). With a maximum age equal to the interval, or longer by less than an
evaluation takes, a monitor that works is shown as STALE between the maximum age and the
next row (`StaleIsAccountedFor` has the time not slept for that reason); the defaults are
a day apart. A decision that is scored again under the same model version changes in the
table and not on the topic (`Upserted` against `Announced`). A commit of a batch that
outlived a rebalance may move an offset back (`StoreOffsets`). Two reloads at once can
leave the bundle of one beside the digest of the other, and a response can mix parts of
two bundles (`InstallsBundle`, `ReadsBundle`). A migration file that changes while a run
applies it is recorded under the other text's checksum (`raced`).

What does hold beside these is stated and checked: start-up repairs every crash of
training but the one of 2 (`RecoversUnlessSidecarTorn`), and a reload that meets
neither a writer nor another reload installs what it verified (`quiet` in
`QuietReloadsAreVerified` and `ResponsesNameTheNewest`).

## 7. What is not modelled

- **Features, privacy, schemas, `ml/data.py`**: stateless conversions of one event or
  frame. The consumer's models take their verdict (valid or not) as given.
- **Settings, scripts, deployment, dbt, dashboard pages**: configuration, one-shot
  tools, views and read-only queries.
- **Fitting and metrics of training; what Evidently computes; prompts and wire formats of
  explanation providers; the heuristic score**: numerical or formatting code without
  state. Where the result matters (a status, a kind of reply) it is a choice.
- **Row locks of PostgreSQL** that two consumers' upserts could deadlock on: the model has
  the outcome, a transaction that is rolled back (`SaveRaises`).
- **Authentication of `/reload`, the client builders of `kafka.py`**: comparisons and
  configuration.
- **`expected_action_costs`**: reported, decides nothing.
- **Deletion by age of rows other than the outbox's, and of report files**: nothing
  else works on them.
- **Clocks**: timers appear as the events they cause, except in `DriftHealth` and
  `ReplayProducer`.
- **Two trainings at once**, as section 2 says.
- A crash between a delivered alert and its metric row is covered by
  `AlertMetricRaises` followed by `Crash`.

## 8. Plan

Built: every component with state of its own, the composition of the streaming path,
and the proofs of section 5. What is left:

1. `ModelLifecycle`: the safety half of `RecoversUnlessSidecarTorn`, that a start that
   ends `ready` leaves a bundle and a sidecar that belong together.
2. `ExplanationCache` and `Migrations`: that no state is one where everybody waits, as
   invariants beside the liveness properties.
