# A verification project for the telemetry platform

TLA+ modules, TLC configurations and machine-checked proofs for the agent (`src/apps/agent`)
and the backend (`src/apps/backend`). Paths below are relative to
`src/apps/agent/src/telemetry_agent/` (A) and `src/apps/backend/src/telemetry_backend/` (B),
and for S to `src/packages/telemetry_shared/src/telemetry_shared/`; `docs/` is `src/docs/`.

## 1. Inventory

The platform watches a trading application's logs. One **agent** process per host tails log
files, parses each line, aggregates metrics, evaluates alert rules, runs callbacks and
actions, and publishes batches over HTTP to a **backend**, which keeps metrics, events,
alerts and agent heartbeats in memory and answers queries. Bots, an MCP server and a
natural-language service query the backend.

| Component | State it keeps | Operations | Talks to |
|---|---|---|---|
| Log monitor, offset registry (A `logs/`) | the open file and read position, rotated files still being drained, archives found at start, committed offsets in memory and on disk | poll, detect rotation and truncation, retire, recover, checkpoint, acknowledge, close | the pipeline thread calls it; the registry file survives the process |
| Pipeline bridge (A `pipeline/`) | bounded line and event queues, the lines workers hold, the duplicate filter, drop counters | enqueue, get, parse, put, drain, commit | pipeline thread, worker threads, metrics ingest, registry |
| Process start and shutdown (A `main.py`) | stop and halt flags, the tasks | start, signal, pipeline death, grace period, flush, close, last publish | every part of the agent |
| Parsers (A `parser/`) | FIX session tracker, sequence gap tracker; otherwise stateless | parse a line to an event | workers |
| Metrics ingest, aggregation, correlation (A `metrics/`) | buckets per window, bounded map of pending orders, counters | ingest, correlate, expire, snapshot | committer writes, rule engine and publisher read |
| Rule engine and evaluator (A `rules/`, `pipeline/evaluator.py`) | alert state per rule and group, silences, storm flag, baselines, loaded rule file | evaluate, transition, fire, resolve, reload | reads metrics, hands events to the alert router |
| Alert router, callback dispatcher, actions (A `pipeline/alert_router.py`, `callbacks/`, `actions/`) | bounded dropping queue, in-flight deliveries, delivery status per alert, last action runs | route, dispatch, retry, republish the outcome, run an action | rule engine, publisher, external HTTP endpoints |
| Publisher (A `publishing/`) | bounded buffer of items, backoff, Retry-After, halt | enqueue with drop-oldest, take a batch, send, requeue, split, halt, last publish | pipeline thread writes, event loop sends, backend answers |
| Health reporting (A `health/`) | heartbeat window, component states | roll up, beat | publisher |
| Ingestion (B `services/ingestion.py`, `services/ingest_guard.py`, `main.py`) | seen batch ids, rate windows, reserved cardinality, bounded queue | check, reserve, enqueue, commit; one consumer | request handlers, stores |
| Alert store, agent registry, heartbeat monitor (B `services/`) | alerts per instance, last heartbeat per agent, the set of agents reported missing | merge, evict, sweep, resolve on a heartbeat | consumer thread, request handlers, sweep thread |
| Metric, event and trend stores, query engine (B `services/`) | ring of buckets per series, events by id, trend windows | merge a snapshot, expire, query | consumer, request handlers |
| Replica fan-out (B `services/replica_fanout.py`) | none across calls | ask every replica, merge the answers | query handlers |
| Natural language, Teams bot, MCP server, simulator, shared models | little or none | text, schemas, test data | backend |

What is hard here, component by component, and what makes each part correct:

* **Log pipeline.** Files are renamed, recreated and truncated between any two steps of a
  poll; three kinds of threads meet in two queues; the process may die anywhere. Correct
  means: no line between the file and the metrics is lost, none counts twice in one life of
  the process, nothing is taken for a duplicate that is new, the offset on disk never covers
  what was not ingested and never moves back, every line is ingested in the end, and a
  shutdown ends.
* **Publisher.** Items leave the buffer before the answer is known; retries, Retry-After,
  halting and splitting interact; shutdown cancels. Correct means: every item is delivered,
  dropped by policy or rejected, in order, within the byte limit, and no item blocks those
  behind it for ever.
* **Alert store and heartbeat monitor.** Three threads change one set and one store. Correct
  means: whoever is silent is shown as missing, whoever is heard is resolved, nothing
  resolved comes back, the store's collections agree.
* **Rule engine.** Storm cap, silences, reloads and restarts. Correct means: every alert
  shown firing is resolved once its condition is, and nothing fires twice.
* **Dispatcher.** A dropping queue and late outcomes. Correct means: every notification
  reaches one final status, an outcome is never attributed to another notification.
* **Ingestion and metric store.** Reservation before enqueue, late and future buckets, ring
  reuse. Correct means: an accepted series is not discarded later, a refused batch leaves no
  reservation, a bucket holds its own window only.
* **Parsers and agent metrics.** Lines arrive split, cut and in several styles; samples
  arrive late or ahead of the clock; orders are evicted while their answers are on the way.
  Correct means: a line is one message or one error, the counters of a line add up, a
  published bucket is exact, a latency is measured at most once.
* **Queries, fan-out and answers in words.** A query reads instance after instance under one
  lock each while snapshots are merged. Correct means: nothing is counted twice or missed
  that was there throughout, groups add up, what is incomplete says so, and a sentence
  claims no more than was understood and read.

## 2. Plan

The modules, in the order of importance in which they were written.

1. `LogPipeline` and the abstract `LogDelivery` it implements; proofs, what one worker
   guarantees and the refinement among them, in `LogPipelineProofs`.
2. `AlertStore` (operators; what they do to a well-formed instance is in `AlertStoreProofs`)
   and `HeartbeatAlerts`, which composes it with the registry and three threads;
   `HeartbeatAlertsProofs`.
3. `Publisher`; `PublisherProofs`.
4. `RuleFiles`, `Baseline`, `RuleEngine`: each extends the one before; instance in
   `RuleEngineMC`; `RuleEngineProofs`.
5. `AlertDelivery`, which composes router, dispatcher and tracker with `AlertStore` over a
   publisher that keeps its order; `AlertDeliveryMC`; `AlertDeliveryProofs`.
6. `MetricStore` and, extending it, `Ingestion`; `IngestionMC`; `IngestionProofs`.
7. The components that share no state, in a module each, put together by `AgentUnits` (those
   of the agent) and, extending it, `Units` (those of the backend); `UnitsMC`; `UnitsProofs`.

Left: a proof of `AnswersRight`; the refinement of `LogDelivery` across
rotations, once an acknowledgement names its file; an abstract channel for the publisher.

Each module takes its bounds as CONSTANTS with a named assumption, has one action per
operation, and declares no RECURSIVE operator, so that it can be proved about. An operator
whose comment begins with `mutant:` is not part of a model: it is a faulty variant of the
definition after it, kept to show that the properties notice.

## 3. `LogPipeline`

One monitored path from file to metrics, with everything between: A `logs/log_monitor.py`,
`logs/offset_tracker.py`, `pipeline/` and the shutdown in `main.py`.

| Variables | In the code |
|---|---|
| `file`, `path`, `writer`, `created`, `written`, `truncations` | the log itself: contents by inode, what the path names, what the application has open |
| `disk`, `reg`, `dirty` | the registry file, `OffsetTracker._states`, `LogMonitor._state_dirty` |
| `stage`, `act` | where the generator `poll_lines` and the loop `poll_once` around it stand |
| `harv`, `retired`, `at`, `due`, `backfill`, `scanned` | `_harvester`, `_retired_harvesters` and the drain over them, the archives found at start |
| `hand`, `batch`, `lineQ`, `eventQ`, `work`, `wpc` | the line read and not enqueued, the events drained and not committed, the queues, each worker's item and state |
| `seen` | `ProcessedLineDeduper._seen` |
| `main`, `crashes`, `stops` | the main thread's progress through `_shutdown` |
| `readBy`, `here`, `before`, `skipped` | history only: what was read, ingested in this life, ingested earlier, suppressed |

Actions follow the code's blocking points. The pipeline thread (`Pump`) reads one line
(`ReadLine`), offers it to the line queue (`EnqueueLine`), and after a timed-out offer or at
the end of a poll drains the event queue (`Drain`) and commits event by event: an event is a
duplicate or enters the filter, and its offset is acknowledged either way (`CommitOne`);
then the ingestor takes it (`Ingest`), until the batch is done (`CommitDone`). A poll goes through archives (`BackfillNext`), the stat of the path (`Stat`:
rotation and truncation are noticed here), opening (`Open`), rotated files (`RetiredNext`),
the active file (`ActiveDone`) and the checkpoint (`Checkpoint`). Workers get and put
(`GetLine`, `PutEvent`, `Quit`). The main thread acts in shutdown only (`PumpJoined` to
`Exit`). `Crash` keeps what is on disk, and `Start` begins the next life.

Abstractions: offsets count complete lines, not bytes; the n-th line written is the number
n; inodes are never reused; a parsed event is its line. A wait with a timeout is a step that
may or may not find what it waits for. Expiry of entries of the duplicate filter is a choice
of how many of the oldest are gone.

### Properties

* `TypeOK`: types, and no queue above its capacity.
* `ReadIsKept`: a line read in this life is in a queue, in a worker's hands, ingested or
  suppressed.
* `CommittedIngested`: what the durable offset covers was ingested.
* `SkippedWereIngested`: what was suppressed as a duplicate was ingested.
* `AtMostOncePerLife`: no line counts twice in one life of the process.
* `DurableMonotone`: a durable offset never moves back.
* `CleanExitCheckpointed`: after an orderly exit nothing ingested is read again.
* `EventuallyIngested`, `ShutdownCompletes`: liveness.
* `ImplementsDelivery`: the pipeline refines `LogDelivery` (in-order, at-least-once, durable
  position never ahead of delivery), with the file's length, the ingested positions, the
  acknowledged offset and `disk[1]` as its state. A line that is acknowledged and not yet
  ingested is not yet delivered: `Committed` is `reg[1]` without it.

### Runs

| Run | Instance | Shows |
|---|---|---|
| `pipeline_single` | 1 worker, 4 lines, all capacities 1, one crash, one SIGTERM | `CommittedIngested`, `CleanExitCheckpointed`, `ImplementsDelivery`, `EventuallyIngested`, `ShutdownCompletes` |
| `pipeline_rotate` | 2 workers, 3 lines, a rotation anywhere, a crash, a filter of one entry | `SkippedWereIngested`, `AtMostOncePerLife`, `DurableMonotone` |
| `pipeline_chaos` | 2 workers, 2 lines, rotation, truncation, failing saves, SIGTERM whose grace period may end early | `TypeOK`, `ReadIsKept` |
| `pipeline_live_rotate` | 2 workers, 2 lines, a rotation slower than a poll | `EventuallyIngested` |
| `pipeline_v_rotate` | 1 worker, a rotation, a crash | the violation of section 9 |

Four lines with capacities of one fill hand, line queue, worker and event queue at once, so
the pipeline is at its tightest and every wait is reached; a line more only lengthens the
file. Two workers suffice for reordering, two files for every rule about rotation (one
active, one retired or archived), one crash for every question about recovery, since a
second starts from the same kind of disk.

### Fairness

`WF_vars(Pump)`, `WF_vars(Worker(w))`, `WF_vars(Main)`: threads the operating system keeps
scheduling, whose waits all have timeouts; `Main` includes the restart by the service
manager. Nothing is assumed of the application, of rotation, signals or crashes.
`CalmRotation` restricts `pipeline_live_rotate` to rotations the polling can follow: the
code documents that a file it never opened is found only at the next start.

## 4. The alerting side of the agent

### `RuleFiles`, `Baseline`, `RuleEngine`

`RuleFiles` says which rules files are accepted and what comes out of them (drafts, the
anomaly file beside the rules, defaults, actions that must exist) and how a rule reads a
value from a snapshot. `Baseline` is `rules/baseline.py` as operators on one rule's record:
a sample per non-overlapping window, anomalous windows left out, the band that follows.
`RuleEngine` (A `rules/engine.py`, `pipeline/evaluator.py`, `rules/config_loader.py`) is the
state machine over them:

| Variables | In the code |
|---|---|
| `disk`, `diskV`, `seenV`, `loaded`, `loadedV`, `asked`, `sinceCheck` | the file an operator edits, the modification time the reloader saw, the rules in force |
| `states`, `storm`, `baselines` | `RuleEngine._states`, the storm alert, the baselines |
| `silenced`, `silences` | maintenance windows |
| `pc`, `passes`, `pass`, `next`, `batch`, `tele`, `dark` | where a tick stands: one pass per window and grouping, one step per rule, the alerts built so far |
| `sent`, `hushed`, `spoiled` | history: what the router was told last of each alert, events built and not routed, when a sample was last anomalous |

A tick is `TickBegin` (reload if the file changed; the telemetry read), `PassBegin`,
`EvaluateRule`, `PassEnd`, `TickEnd` (routing), or `TickRaises`: an exception in any rule
ends the tick and loses what it had built. `Edit`, `RequestReload` (SIGHUP), `SilenceBegins`
and `SilenceEnds` come at any time. Time is counted in evaluations; ages stop at a cap that
lies past every period compared with them, so that the state space is finite and no
comparison changes.

* `ActiveWithinCap`: never more alerts than `max_active_alerts`.
* `ReceiverAgrees`: between two ticks, what the router was told and what the engine carries
  agree, except for events a silence or a failed tick took.
* `BaselineSound`: samples come from windows that do not overlap and held no anomaly.
* `NotificationsAdvance`: a resolved alert is never told again, a firing one with a higher
  count.
* `EditsApplied`: an edit the reloader can see is in force in the end, or was refused.
* `CalmCloses`: once the metrics stay calm every open alert is resolved.

`rules_reload` edits the file once, among ten files (good, crowded, drafts, a typo in a
metric, a window that does not exist, an unknown action, unreadable, absent, with an anomaly
rule), over four states of the telemetry, one silence, a cap of one alert (so that the storm
alert and the cap meet at the second), windows of one and two ticks, two notifications per
alert. One edit is enough to reach each file from the start file and from the defaults; two
windows' worth of ticks let the baseline overlap. `rules_live` has four files, three states
of the telemetry and no silence. Fairness there is `WF_vars(Tick)` and
`WF_vars(BuildReloader)`: the evaluator's loop runs for ever and catches what a tick raises.
Nothing makes the telemetry calm or the operator stop: `CalmCloses` is about the behaviours
where it becomes so.

### `AlertDelivery`

A `pipeline/alert_router.py`, `callbacks/` and the merge of the backend. `Route` gives a
notification to the tracker, to the dispatcher's queue (`Put` drops the oldest when full)
and to the publisher. A worker takes one (`Get`, `GetTooLarge`), and every attempt ends in
`Delivered`, `PermanentFailure`, `RetryLater` or `RetriesExhausted`, followed by `Retry`. An
outcome is published as a notification of its own. The publisher is a queue that keeps its
order, may send an item again and may give one up, which is what section 6 shows of it;
`Publish` merges into `AlertStore`.

* `TrackerAgrees`: a record of the tracker says how its own notification stands, with its
  own attempts.
* `Accounted`: each notification has one fate: queued, with one worker, dropped, or settled.
* `BackendCatchesUp`: when all is quiet the backend shows the status the engine told last,
  with the outcome of a callback, unless an item was given up or a callback dropped.
* `EveryCallbackEnds`: every notification is settled or dropped in the end.

`alert_delivery`: one alert told firing, firing again and resolved, two workers, a queue of
one and two attempts, so that outcomes of three notifications overtake one another and the
queue drops; one item sent again, one given up. Alerts share only the queue and the workers,
and three notifications already contend for both. Fairness: the publisher keeps trying
(`WF_vars(Publish)`) and every send of a worker has a timeout (`WF_vars(Work(w))`).

## 5. `AlertStore` and `HeartbeatAlerts`

`AlertStore` holds `AlertStore.merge` as operators on one instance's alerts: `Stale` (an
update of a resolved alert is ignored), `FirstRecord`, `NextRecord`, `Place` (with the
eviction of the oldest resolved). `active`, `resolved` and `resolved_map` are one function
from alert ids to records, plus the order of the resolved.

`HeartbeatAlerts` is the backend's own alert. `age` and `home` are the agent registry (age
of the last heartbeat, first instance of the stored document), `firing` is
`HeartbeatMonitor._firing`, `sweep`, `stale`, `todo`, `cur` are where `evaluate_once` stands
in its thread, `pc` and `arg` where the two callers of `on_heartbeat` stand: the request
handler on the event loop and the consumer's thread. Each call on the registry, the store or
the set is one action; between two of them the others run. A handler has no await between
queueing and `on_heartbeat`, so the consumer takes nothing meanwhile.

* `ShownIsFiring`: an alert shown as active is remembered by the monitor, so somebody is
  left to resolve it.
* `StoreConsistent`: the resolved ids in order are those of the resolved records.
* `NoReopen`: a resolved alert never becomes active again.
* `HeardIsResolved`, `SilentIsShown`: liveness under weak fairness of the sweep, the
  consumer and the callers; heartbeats and time are the environment's.

`heartbeat` checks them with two agents of one instance and one outage each: a second agent
makes the loops of the sweep long enough to be overtaken. The store has room for both
resolved alerts; with room for fewer, a resolution evicted between two steps of
`on_heartbeat` would let `ShownIsFiring` fail, which takes 500 resolutions within these
steps at the default limit.

## 6. `Publisher`

A `publishing/publisher.py`, `buffer.py`, `outcome.py`. `buf` and `bytes` are the buffer,
`inflight` the items taken, `maxItems`, `halted`, `haltedFor`, `backoff`, `retryAfter` the
publisher's fields, with deadlines as time left and instants as time since. `sentFor` is the
time since `publish_once` read the clock, because every deadline counts from there and not
from the answer. `Enqueue` interleaves with `Begin` (expiry and gates), `Take` and the
answers (`Commit`, `DropRejected`, `Halt`, `Split`, `RetryAfter`, `Backoff`). After a lost
answer the backend may have the batch (`received`). `Recover` lets the backend accept
everything from some point on. A batch is always sent, because the agent's health reporter
supplies a heartbeat for each. The interval between two ticks of the loop is at least one
unit of time (`due`).

* `Conserved`: every item is pending or has had exactly one end.
* `BytesAgree`: the byte count is that of the buffer and exceeds the limit for a single item
  only.
* `NotOvertaken`: no pending item is overtaken at the backend by a later one.
* `EventuallySettled`: every item has an end, even one the backend refuses for its size.
* `Recovers`: once the backend accepts everything, halt, waits and the halved batch size go.

`publisher_retry` uses three items of sizes 1 and 3 with a limit of 2 bytes (one item may
exceed it), batches of up to two (so that one split reaches the minimum), an age limit of 1
(items expire in the buffer and while in flight). Fairness: the loop keeps running, a
request ends (the HTTP client has timeouts), time passes.

## 7. The backend's stores and the smaller components

### `MetricStore`, `Ingestion`

`MetricStore` (B `services/metric_store.py`) is the ring of canonical buckets of each
instance: `Merge` of a snapshot with its acceptance window, replacement of what the same
agent said of the same native bucket before, reuse of a slot a ring later, eviction by age,
the memory shed, range reads. `Ingestion` adds the guard (`seenIds`, `times`), the
reservation of series against the cap, the bounded queue and its consumer, and the event
store. A handler does not await between its checks and its answer, so `Send` is one action;
the consumer takes an item and merges its snapshots one after the other with the `now` it
took it at. The batches are what validation lets through: lists of snapshots of known
instances with times that are natural numbers (`IsSnapshot`).

* `BucketsExact`: a bucket counts the last thing each agent said of each native bucket,
  once, and nothing of another time, whatever is late, early, repeated or collides in the
  ring.
* `RetainedAnswers`: a range read answers from what is retained and from nothing else.
* `AdmittedConserved`: what is accepted is taken and processed once and in order;
  reservations are those of the batches admitted, until they lapse, and a refused batch
  leaves none; the store drops nothing for its cap; no event is held twice.
* `GuardSound`: an id is refused for as long as it is remembered, and the rate window holds
  no more than its limit.

`backend_store`: six batches (two agents of one instance; late, ahead of time, a restarted
agent that repeats a bucket, a series over the cap, one invalid), a ring of two buckets of
two native ones, a queue of one, a clock from 22 to 24 (snapshots name 19 to 24, so that
some are a ring apart); four requests reach every pair of a collision and its repetition.

### `AgentUnits` and `Units`

Fifteen components keep no state in common. `AgentUnits` holds the eight of the agent
together in one specification, and `Units` adds the seven of the backend; `part` says which
a behaviour is about, and only that one moves. `UnitsInit` and `UnitsNext` have `AgentUnits`'
as conjunct and disjunct, so that what is proved of `AgentUnitsSpec` holds of the agent's
parts in `UnitsSpec`. `units` explores each part to its own bound, and the five properties
of the run are the conjunctions of what is said of each.

| Part | Module | Code | Properties | Bounds |
|---|---|---|---|---|
| `frames` | `FixFrames` | A `parser/fix/frame.py`, `classify.py` | `WholeIsFramed`, `LinesAccounted` | five lines of six kinds in two styles, joins of three |
| `lines` | `FixEvents` | A `parser/fix/normalize.py`, `metrics/counters.py` | `CountersAgree`, `LabelsWhole` | three of twelve messages and four application lines, one label of each kind admitted |
| `sessions` | `Sessions` | A `parser/fix/session_tracker.py`, `seq_tracker.py` | `SilenceReportedOnce`, `SequenceCounted` | three messages of one session |
| `orders` | `Correlator` | A `metrics/correlation.py` | `SampledOnce`, `OpenAccounted` | two orders, room for one, four messages |
| `metrics` | `AgentMetrics` | A `metrics/aggregator.py`, `publishing/snapshot_bridge.py` | `RingSlots`, `SnapshotsExact`, `EveryBucketOnce` | ring of four, two samples late or ahead, times up to 14 (three rings) |
| `emitter` | `EventEmitter` | A `publishing/events.py` | `RateBounded`, `ErrorsAccounted`, `TransitionsOnce` | one event per window, three inputs |
| `health` | `Health` | A `health/` | `WindowExact` | window of two, two heartbeats |
| `actions` | `ActionRunner` | A `actions/` | `ActionOnce`, `DispatchersCurrent` | two alerts, a rule that names an action twice, a queue of two, memory for one id, two reloads |
| `query` | `MetricQuery` | B `services/query_engine.py`, `replica_fanout.py` | `QueryRight` | two replicas with one instance in common, five rows, four requests |
| `trends` | `RejectTrends` | B `services/reject_reason_trends.py` | `TrendsWhole` | one reason, two rejects, requests at both halves of a bucket |
| `latency` | `Histograms` | S histograms and percentiles | `HistogramsMerge` | two recorders, three values on and between boundaries and beyond the last |
| `nl` | `NlLanguage`, `NlQuery` | B `nl/` | `NlRight` | eight questions, ten answers of the model, three ways to fail, two questions in a row |
| `lists` | `StoreListing` | B `services/event_store.py`, `alert_store.py`, the list handlers | `ListingsRight` | three events and three alerts of two instances, room for one |
| `agents` | `AgentHealth` | B `services/agent_registry.py`, health API, `/metrics` | `AgentsRight` | two agents, two heartbeats, two overlapping scrapes |
| `series` | `SeriesQuery` | B `services/query_engine.py` | `SeriesRight` | five rows of three instances, one of which comes while they are listed |

In each the bound is the smallest at which what the property is about happens twice in a
row: a cap that is reached and passed, a window that is left, a second reader between two
reads of the first. `units` assumes no fairness: its properties are invariants over
histories. Two restrictions of its instance matter: there is one parse worker (the default),
and no line is written with carets; section 9 says what happens otherwise. Several parts
(`query`, `series`, `lists`, `agents`, `trends`, `nl`) are about one request at a time,
because a request shares nothing with another but the stores.

## 8. Proofs

All theorems are proved from the named assumptions on the constants only, unless a
restriction is listed. The invariants of the last column are inductive.

| Theorem | States | Restricted to | Invariant |
|---|---|---|---|
| `LogPipelineProofs!TypeCorrect` | `[]TypeOK` | | `TypeInv` |
| `LogPipelineProofs!NothingVanishes` | `[]ReadIsKept` | | `TypeInv`, `ReadIsKept` |
| `LogPipelineProofs!OffsetsNeverBack` | `DurableMonotone` | | `TypeInv`, `DurableBehind` |
| `LogPipelineProofs!SuppressedWereIngested` | `[]SkippedWereIngested` | no truncation | `TypeInv`, `FilterInv` |
| `LogPipelineProofs!EachLineOnce` | `[]AtMostOncePerLife` | | `TypeInv`, `OnceInv` |
| `LogPipelineProofs!DurableIsIngested` | `[]CommittedIngested` | one worker, one growing file, grace period suffices | `DeliveryInv` |
| `LogPipelineProofs!OrderlyExitCheckpoints` | `[]CleanExitCheckpointed` | the same, grace period suffices, saves succeed | `DeliveryInv`, `OrderlyInv`, `Saved` |
| `LogPipelineProofs!PipelineDelivers` | `ImplementsDelivery` | one worker, one growing file, grace period suffices | `DeliveryInv`, `OrderlyInv` |
| `PublisherProofs!NoneLostOrDoubled` | `[]Conserved` | | `LineInv` |
| `PublisherProofs!OrderKept` | `[]NotOvertaken` | | `LineInv` |
| `PublisherProofs!BytesCounted` | `[]BytesAgree` | | `LineInv`, `BytesAgree` |
| `HeartbeatAlertsProofs!ResolvedIsFinal` | `NoReopen` | | `StoreKept` |
| `HeartbeatAlertsProofs!StoreAgrees` | `[]StoreConsistent` | | `StoreInv` |
| `HeartbeatAlertsProofs!ShownAreFiring` | `[]ShownIsFiring` | each agent reports from one instance, room for all resolved alerts | `ShownInv` |
| `RuleEngineProofs!CapHolds` | `[]ActiveWithinCap` | | `CapInv` |
| `RuleEngineProofs!ReceiverIsRight` | `[]ReceiverAgrees` | | `ToldInv` |
| `RuleEngineProofs!NotificationsMoveOn` | `NotificationsAdvance` | | `ToldInv` |
| `RuleEngineProofs!SamplesAreSound` | `[]BaselineSound` | | `LearnInv` |
| `AlertDeliveryProofs!EachHasOneFate` | `[]Accounted` | | `FateInv` |
| `AlertDeliveryProofs!RecordsAgree` | `[]TrackerAgrees` | | `TrackerInv` |
| `AlertDeliveryProofs!OutcomesReachBackend` | `[]BackendCatchesUp` | an alert is resolved at most once and last, room for all resolved alerts | `BackInv` |
| `IngestionProofs!GuardHolds` | `[]GuardSound` | | `GuardInv`, `GuardSound` |
| `IngestionProofs!BucketsHold` | `[]BucketsExact` | | `IngestInv` |
| `IngestionProofs!AnswersHold` | `[]RetainedAnswers` | | `IngestInv` |
| `IngestionProofs!AdmissionHolds` | `[]AdmittedConserved` | | `IngestInv` |
| `UnitsProofs!ActionsHold` | `[]ActionsRight` | | `RunnerInv` |
| `UnitsProofs!MetricsHold` | `[]MetricsRight` | | `MetInv`, `CorrInv` |
| `UnitsProofs!SignalsHold` | `[]SignalsRight` | | `EmitInv`, `WindowInv` |
| `UnitsProofs!LinesHold` | `[]LinesRight` | one parse worker, no style of carets | `FrameInv`, `LinesInv`, `SessInv` |

**Types of the pipeline.** `TypeOK` alone is not inductive: an action that takes the line in
a hand needs to know there is one. `TypeInv` adds `RoomForFile` (while the path is missing a
file may still be created) and `Hands` (the pipeline thread holds a line exactly when it
offers it, a worker holds an event exactly when it puts it, events are drained only to be
committed). A lemma per action shows `TypeInv` preserved; frame lemmas (`LogFrame`, ...,
`HandsFrame`) dispose of the groups of variables an action leaves alone.

**Nothing vanishes.** Six actions move a line: reading puts it in the hand, enqueueing,
getting and putting move it between two places, draining moves the queue into an empty
batch, committing suppresses it or leaves it to the ingestor, who counts it. Each has a lemma that rests on what `LinesIn` is
after an append, a tail and for a single item; everything else leaves the places alone, and
a process that is gone has read nothing.

**Offsets.** `DurableBehind` says that the registry in memory is never behind the one on
disk; a save copies the one to the other and a start the other to the one.

**The filter.** `FilterInv` says what the filter remembers was ingested and that every line
sits at the place in its file it says it does (`Placed`), which is what a truncation
destroys.

**Once.** `OnceInv`: the items under way are distinct (`Distinct`), a worker that has ended
holds nothing (`Joined`), what is being committed was drained (`Committing`), and while the
process is not yet exiting, no item under way lies at or beyond a read position (`Reading`,
`Parsing`, `WasRead`). The polling alone gives the property; the filter is not needed for
it.

**Order.** With one worker and one growing file there is an unbroken chain of offsets from
the committed one through batch, event queue, worker, line queue and hand to the read
position (`InOrder(d)` for some `d`). Only the closing of the monitor breaks it, and by then
the worker has stopped (`OrderInv`). A commit therefore always acknowledges the next offset.
Between that and the ingest the registry is one line ahead of what was delivered (`InHand`),
so it is the ingest that is the step of `LogDelivery`; every other step stutters. The
grace period must suffice because main writes the registry as well: `Awaited` says that it
has waited for the pipeline thread by then, so that no line is in hand. For the theorems
about the end, `OrderlyInv` adds that what this process ingested is known to the registry.

**Publisher.** `LineInv`: the batch and then the buffer are one line of items in the order
they were enqueued (`InLine`), there is a batch only while a request is on its way
(`NothingIdle`), the ids accepted are ids given out (`Numbered`), and a batch has at least
one item and at most the configured number (`BatchSize`). Eviction and expiry are one lemma,
`Shed`: a prefix of the line goes to `dropped`. So is every answer that keeps the data,
`KeepLine`: batch and buffer are concatenated and a prefix shed. These two theorems need
nothing of the byte counts: whatever number of items eviction takes, it takes the oldest.

**The byte counts.** `Bytes` is a recursive function on the length of a sequence; that it
adds up over concatenations and prefixes (`Adds`) is proved by induction over a set of
lengths, because the library's induction theorems take an operator. Eviction then stops
where `BytesAgree` says: at the first length within the limit, or at a single item.

**Resolved is final.** `NoReopen` follows from what `Merge` does with a stale update, for
whatever the three threads merge and in whatever order; the store only needs to be a store.

**The store.** `AlertStoreProofs` says what `Place` and its eviction do to one well-formed
instance (`InstanceOk`): the ids in order stay distinct, stay those of the resolved records,
and stay within the limit. `StoreInv` is that of every instance, with the types of the
threads, so that an instance merged into exists.

**Shown is firing.** `ShownInv`: an actor works on an agent that was heard, at the instance
the agent reports from (`ActorsAt`); an alert is stored nowhere else (`StoredAt`); and an
agent is taken out of the firing set only after its alert was resolved where it is stored
(`DiscardsResolved`), which no later merge undoes. Both restrictions are needed, as TLC
shows: an agent that comes back with another first instance is resolved there and stays
active at the old one (section 9); and where the store has no room, the alert resolved
between two steps of `on_heartbeat` may be evicted and fired again before the discard.

**The cap.** A transition takes a place only where `ActiveAlertCount` was found below the
cap in the same step; every other change of an alert's state (resolving, reload, new ids,
dark telemetry) brings none into a place. The proof is about cardinalities of the set of
active alerts.

**What the router is told.** `Told(i)` is what the router will know of alert `i` when the
tick under way has ended: the last event of the batch, or what it was told before. `ToldInv`
says of it, in the middle of a tick as well: an id is carried by one rule (`OwnIds`); who
carries it knows the count told (`KnownOf`); what is firing for the router holds a place,
and the other way round, but for ids of which an event was hushed (`Agreed`); and it has
only moved on from what was told (`Advances`). Ids are never used again, which is what
`FreshId` gives. The end of a tick makes `Told` what was sent, a tick that raises forgets
the batch and hushes its ids.

**The samples.** `BaselineOk` says of one baseline that its samples lie a window apart,
oldest first, that all but the pending one are a window old, and that none is within a
window before the last anomaly (`Mature`). Time ages all samples alike (`AgedIs`), promotion
and the horizon keep their order (`JoinedIs`, `DroppedIs`), and a sample is offered only
when the last anomaly is a window past (`OfferedOk`). What is left is an anomaly found in
the very tick that took a sample (`AnomalyOk`): a rule is evaluated in one pass of a tick,
at one place among the rules, so a baseline with a sample of now is of a rule already
evaluated (`Grown`, `Evaluated`). `spoiled`, the time of the last anomaly the model keeps
beside the code, is then what the baseline itself says.

**One fate.** `FateInv` is `Accounted` with the types of the queue and the workers. Lemmas
say what the set of the queued becomes when a head leaves or an end joins, and the set of
those with a worker when one takes, goes on or ends; each action is a combination of these,
and the tracker, the publisher and the backend do not matter.

**The tracker.** `TrackerInv` adds that a notification handed over has a record that agrees
with it, or one forgotten because its alert has told more than the tracker keeps; `Keyed`
says that the records of an alert are of different notifications, so that updating one
leaves the others.

**The backend catches up.** `BackInv` follows an outcome on its way. For an alert whose
newest notification is settled there is a place, the store or one in the publisher's queue,
that shows the status told last with an outcome (`Shows`), and nothing queued behind it
takes that back (`Follows`). A merge moves the place forward. The merge ignores an item of
an alert that is resolved, so a later outcome of an earlier notification does no harm, if an
alert is resolved at most once and last: the engine takes a new id for the next outage,
which `NotificationsAdvance` says. Without room for all the store would evict the record
that is being completed.

**The guard.** `GuardInv` relates the two queues of each agent to everything ever accepted:
an acceptance is too old, or has as many followers of the same agent as the guard remembers,
or its id is remembered behind the place its followers need (`IdKept`); the same of the
times (`TimeKept`). A batch that is accepted was found in neither, and `GuardSound` follows
for the pair it makes with each earlier one.

**The buckets.** `IngestInv` has four parts besides `GuardInv`. `StoreInv` says of every
slot and every bucket that could be in it, of the past or of the future, that the slot shows
exactly what the log says lives there (`RingsShow`), and that nothing was dropped for the
cap. It is stated of all buckets, because a bucket that never lived is what a slot must not
show. A snapshot that is merged wipes what shares its slot, a sweep and a shed what is below
a bound (`CutShows`), and both sides, ring and log, say the same; what the merge adds to a
bucket is proved by induction over its list of series (`AddAllExact`, `MergeContents`),
which needs that the cap refuses none. That comes from the admission.

**The admission.** `CapKept`: the series that batches accepted up to a time `t` have in a
bucket retained at `t` are at most the cap, for every `t` up to now. It is about every past
time because the consumer compares a snapshot with the time it took the item at. A request
is accepted if its series fit with those reserved, and `ReservedCounts` says that these are
the series of the batches accepted (`ReservedIsAdmitted`). `QueueInv` says that the log,
what is left of the item and the queue are the batches accepted, in order (`Conserved`), and
that what was taken was accepted before it was taken (`TakenBefore`). So whatever lives in a
bucket was admitted to it, and the next snapshot has room (`RoomForNext`). Reservations are
compared in seconds with an index (section 9); the proof needs only that a bucket's start in
seconds is at least its index, so that a reservation never lapses before its bucket.

**The answers.** `InRange` reads a slot under the index it should have, so the slots read
are those of the retained buckets that live, and each counts what `RingsShow` says. The sums
are never unfolded: both sides sum one function.

**The actions.** `RunsCounted` counts a run where it is: the runs begun of an action for an
alert and those in the queue are no more than the rule's mentions of it, and none before the
notification that is the first of its firing. The engine sends one such notification
(`NotificationsAdvance`), which `RunnerAssumption` repeats, so that ids that left the
bounded memory do no harm. Dropping the oldest runs only makes it fewer. `CatalogueRight`:
dispatchers are of definitions in force, which differ in their names, so that as many sinks
are retired as dispatchers go.

**Sums.** `FoldFunction` and `MapThenSumSet` are defined by a recursive function over the
subsets of a finite set with a choice of the next element, and the choice may differ from
one use to the other. `UnitsProofs` begins with a theory of `Total(c, S)`, proved by
induction over cardinality: taking out any element takes out its term, disjoint sets add up,
and terms may be grouped by what they are mapped to. Both library operators are shown to be
a `Total` wherever the model uses one.

**The metrics.** `MetInv`: a slot of the ring holds what the samples of its bucket make
(`RingSlots`), and of a bucket that was given up nothing is left; the buckets published and
those still retained are the ones that had samples, with no bucket twice
(`EveryBucketOnce`). Time only moves on, which separates what the emitter has left behind
from what a late sample can still reach. `CorrInv`: an order under way is in the table of
open orders or was evicted, never both; a sample is taken when it leaves, so at most once;
and the counts of the answers add up to what was sent (`OpenAccounted`).

**The signals.** `EmitInv` relates the emitter's memory to the history of what it sent. The
times kept for an event type are those of what was sent in the last window (`RatesCount`),
so a send that finds fewer than the limit leaves the window within it; each error counted
is carried by an event that was sent or refused for the rate, or is still in an open count
(`ErrorsAccounted`). One state is
remembered per alert (`AlertsSound`), and none is forgotten while there are no more alert
ids than are remembered: `TransitionsOnce` is stated under that condition, because after an
eviction the same transition is sent twice (section 9). `WindowInv`: the
counter of a bucket that is still in the window counts exactly what was recorded in it, and
a slot is reused only by a bucket a whole ring later.

**The lines.** `FrameInv`: while the joiner has lines waiting they are unfinished
(`FramePhase`), and every line is in hand, waiting or in exactly one result (`FramePlaces`),
in order. `LinesInv`: the counters of reasons and components add up to those of the messages
(`CountersAgree`), and with the labels they show, overflow included, stay within the cap.
`SessInv`: the tracker's times and numbers are those of the last message of the session,
every silence it was told of was counted once, and the jumps of the sequence numbers are
those counted as gaps.

The prover cannot unfold a RECURSIVE operator or `SelectSeq`; where a proof needed one, the
model has a recursive function or the indices of what is kept instead. Induction over data
is done over a set of numbers, as for `Bytes`.

Only model-checked: all liveness properties (fairness and ENABLED are beyond the prover);
`AnswersRight` of `Units` (queries, fan-out and words: folds over sequences of rows); the log
properties for several workers or rotations where the table restricts them, some of which do
not hold there (section 9).

## 9. Where code and documents disagree

`pipeline_v_rotate` shows one by itself: the end of a line of the rotated file is committed
for the new file, so that lines of the new one are skipped after a restart
(docs/specs/002-agent.md:46 forbids it).

The rest was met while modelling. Where a property is named, the constants given reproduce
the violation.

The log pipeline:

* With two workers acknowledgements arrive out of order and the registry keeps their
  maximum, so the durable offset passes a line a worker still holds: `CommittedIngested`
  fails with `Workers = {w1, w2}`, two lines and a crash. The specification's default is two
  workers (docs/specs/002-agent.md:43), the code's is one.
* committer.py:15 says that offsets are committed after ingest; a line is acknowledged before
  (committer.py:60-62). If the grace period ends between the two, main flushes the registry
  (main.py:429-430) with a line in it that was not ingested: `CommittedIngested` fails with
  `GraceExpires = TRUE`, without any rotation.
* After an in-place truncation new lines at old offsets are dropped as duplicates:
  `SkippedWereIngested` fails with `MaxTruncations = 1`.
* After a truncation the registered offset stays, and covers lines of the new content once
  the file has grown: `CommittedIngested` fails with `MaxTruncations = 1` and a crash.
* If the grace period ends inside a poll the enqueue loop never ends: `ShutdownCompletes`
  fails with `GraceExpires = TRUE` and more lines than the queue holds. main.py:387 promises
  a shutdown within the period.
* A crash between ingest and checkpoint makes the next life count lines again; one of the
  two documents on this allows it, the other does not.
* An orderly shutdown leaves lines in the queues, to be read again, where the story document
  says that in-flight events are drained.

The backend's alerts, and the publisher:

* The second outage of an agent is never shown, because its alert id is that of the first,
  which the store holds as resolved: `SilentIsShown` fails with `MaxOutages = 2`.
* An agent that returns with another first instance leaves its alert open: `HeardIsResolved`
  fails with two instances.
* A failed probe that is not answered by 401 or 403 does not put off the next one for
  `haltProbeInterval`, as publisher.py:260 says it should.

Alerts in the agent:

* The router's notification 1 settled after notification 2 is published takes the backend's
  count back; a notification that was dropped stays `pending` for ever.
* Alert states are not persisted (FR-RUL-014). When the log goes dark a trading alert that
  is open resolves and is told so (engine.py:422-427), where FR-RUL-021
  (docs/specs/005-alerting-and-callbacks.md:267) says suppressed, because absence of data is
  not absence of rejects. FR-RUL-022: a change of severity on the way back from resolving to
  firing is not told (engine.py:520-525).
* FR-CBK-016 (docs/specs/005-alerting-and-callbacks.md:299) wants an action to run at most
  once per alert; a rule whose list names an action twice, which the loader accepts
  (config_loader.py:230), runs it twice. `ActionOnce` therefore counts the rule's mentions.
* The event emitter forgets the alert it has known longest once there are more than it
  remembers (events.py:328-332), and sends the same state of it again: `TransitionsOnce`
  fails without its condition on `AlertMemory`.
* A rules file that is accepted but names an unknown metric or window raises in every tick;
  an unreadable file is not looked at again until it changes; a silence can swallow the
  notification of a resolution.

Parsers and metrics:

* Two parse workers share one joiner without a lock: `LinesRight` fails with `ParseWorkers =
  {"w1", "w2"}`; the runbook (docs/specs/011-observability-and-runbooks.md:20) advises to
  raise their number.
* A style of carets is never locked (frame.py:195-212): `LinesRight` fails with `Styles =
  {"caret"}` (FR-PRS-012).
* A tag that ends in 10 cuts the message (frame.py:236); a pending head and the next whole
  message are merged; continuation lines never reach the FIX parser (workers.py:86-95,
  parser.py:65-69; FR-PRS-014); `reporter.is_parse_error` and `derive_parser_counters`
  disagree about what a parse error is.

Stores, queries and fan-out:

* Ratios of replicas are added (replica_fanout.py:105-112), where FR-STM-003
  (docs/specs/006-backend.md:68) wants them computed from the sums. A connection error of a
  peer escapes (replica_fanout.py:53-72; NFR-SCA-003). The latency summary merges counts and
  sums only.
* A filter on a dimension that is not grouped by drops every group (FR-QRY-006), so that the
  symbol drilldown always answers nothing; a filter of several instances uses the first;
  top-k by an alias ranks as zero (FR-QRY-008).
* Points of a series repeat per instance and have no leading nulls (FR-QRY-009), and cover
  the whole steps at the ends of a range; the docstring of `_in_range_buckets` does not hold
  for a range that ends in the future; `retention_bounds` is that of the whole store, so
  that the trends of a new instance may look as if they emerged.
* Reservations compare seconds with bucket indices (ingestion.py:204-223), so they outlive
  their buckets by far; the cap itself is kept.
* `list_instance_ids` iterates a dictionary another thread adds to, and may raise
  (metric_store.py:531).

Answers in words:

* Timeouts of a query, too many groups and a range that has left retention meanwhile are not
  caught; a body of the OpenAI-compatible client that has no choices or is no object raises
  (openai_compatible.py:79-84,128-130; FR-NLQ-021).
* Answers never fan out to replicas. An answer of the model with the default range has no
  caveat (service.py:159-170; FR-NLQ-014, docs/specs/008-nl-query.md:86). Unknown metrics
  and dimensions are dropped silently (compiler.py:58-69; FR-NLQ-008). "Worse than
  yesterday" compares yesterday with the day before (time.py:86;
  docs/specs/008-nl-query.md:36). An answer of more than 95 words is cut before its range
  and caveats (render/__init__.py:203-208; FR-NLQ-010, 012). `last 0m` is answered, of an
  empty window.

## 10. Not modelled, and why

* Several monitored paths sharing one registry; `commit_on_read` (off in production);
  unterminated fragments at the end of a file; reuse of inode numbers; deletion of archives;
  the `drop_oldest` policy of the line queues, which nothing selects.
* What the ingest of one line does when it raises: pipeline/ingest.py:138-149 swallows the
  exception when the line is acknowledged and in the filter already, and counts it among the
  lines ingested, so that only `ingest_errors` tells. Ingested means here taken by the
  ingestor, with either outcome; no property says that its metrics are complete.
* `HeartbeatEmitter` and the sinks of health/heartbeat.py, for local viewing only: the
  agent's heartbeats ride in the publisher's batches, and `Health` builds those.
* The decoding of the text of a field and the binary reader; the formatting of payloads,
  answers and prompts; the clients of the language models but for the ways they fail;
  schemas and configuration: pure functions, where tests are the better tool.
* The rules the demonstration adds; the snapshot file the stores are read from at start;
  `data_completeness.py`, which the query engine does not use; the body limits of the
  middleware, which refuse a request before anything is touched.
* The lock around the publisher's drop hook, and every other lock order: the models are
  about data, and take as one step what a lock makes one.
* HTTP framing, compression, authentication, the bots, the MCP server, the simulator: no
  concurrent state, or none at all.
