# A verification project for wikiStreams

wikiStreams reads the Wikimedia `recentchange` stream, enriches its events with Wikidata
labels, carries them through Redpanda (Kafka) into QuestDB, and builds from there a daily
report, a daily copy on S3, dashboards and alerts. This directory holds TLA+ models of the
Python services under `src/`, the TLC configurations that check them and the TLAPS proofs
about them. `PROJECT.json` lists the components, the runs, the mutants that show each
property can fail, the source lines each definition stands for, the hazards and the theorems.

Paths below are relative to the repository (`src/producer/...` is `src/src/producer/...` in
`PROJECT.json`).

## 1. The system

```
Wikimedia SSE --> producer: collector --> process_batch --> KafkaProducer --> main topic --> questdb-consumer --> QuestDB
                    (thread)               |  enricher <--> SQLite cache, Wikidata API    |                         |   |
                                           |  slo_writer ------------------------------- producer_slo_metrics -----+   |
                                           +--> DLQ topic                                                              |
   resource-monitor: docker stats --> baseline (SQLite) --> detector --> alerter --> Slack       s3-exporter --> S3 <--+
   reporter: QuestDB, Wikipedia, Claude, news --> JSON file --> Slack                            Grafana <-------------+
```

Every service is one container with one main thread, restarted by Docker. What they share is
the two topics, QuestDB's tables and their own volumes; no service calls another.

| Component (source) | State it keeps | Operations | What is hard | What makes it correct |
|---|---|---|---|---|
| SSE collector (`producer/collector.py`) | buffer, last event id, time of the last flush, retry delay; all in memory | connect, receive, flush by size or time, back off | connections break anywhere, the callback raises, restarts, a quiet stream delays the time-out flush | resuming leaves no gap and takes nothing twice, each event has one fate, every event is offered |
| `process_batch` and sender (`producer/main.py`, `sender.py`, `models.py`) | the batch's locals; KafkaProducer's accumulator and futures | validate, skip, route to the DLQ, send, flush, settle | records resolve in another thread and in any order, acknowledgements are lost, `send` itself raises | a batch that returned is routed, one route per event, `flush` is a barrier, a batch ends |
| SLO writer (`producer/slo_writer.py`) | none | one INSERT per batch | counts taken before the sends | the row's difference is what the validation rejected |
| Producer start-up (`producer/main.py`, `config.py`) | the worker thread | set up the cache and the table, connect to Kafka, start the thread | it waits for Kafka without a limit; everything else that fails in it is logged and passed over | it ends with the collector connecting (`Restart` of `Collector`) |
| Enricher and cache (`producer/enricher.py`, `cache.py`) | a SQLite table, an open transaction | look up, fetch by chunks, save, attach | a chunk fails or raises after others answered, saves fail half way, rows of three kinds age differently | bounded staleness, no question asked twice without a reason |
| QuestDB consumer (`questdb_consumer/main.py`) | Kafka position and commit, a batch, a socket | poll, convert, `sendall`, reconnect | the position moves before the lines are sent, auto-commit, partial sends, a record that raises, rebalances | no commit covers a row only in memory, no duplicate of its own making, no record stops the topic |
| S3 exporter (`s3_exporter/main.py`) | none but the time it sleeps to; objects on S3 | sleep to 01:00 UTC, check, read 24 hours, put | every exception ends the process, an operator's export runs beside the daemon's, late rows, the TTL | an object holds its whole day, a living daemon misses no day |
| Resource monitor (`resource_monitor/*.py`) | baseline per container, metric and hour (SQLite); last alerts (memory); previous block I/O | collect, update, detect, alert with cooldown | the value judged is already in its baseline, failed posts, restarts forget the cooldown, readings fail and containers are replaced between two of them | a baseline is what all its samples make it, a cooldown starts with a post that arrived, block I/O is reported once |
| Reporter (`reporter/*.py`, `reporter/prompts/*.py`) | a JSON file per day | fetch, build with Claude, save, load, publish | `_today()` read twice around midnight, a file written in place while another process publishes it, swallowed errors, deduplication, ranks by title, descriptions and news paired by position | a post is one whole report, never one older than the run's own; every row counts once; descriptions, news and ranks are those of the pages shown |
| DLQ consumer (`dlq_consumer/*.py`; the code is kept, but `docker-compose.yml:90` no longer deploys it) | Kafka position and commit; the retry count in the record | re-send up to a limit, re-queue | the position moves before the send, a send times out and arrives later, the re-queued record's future is not read, rebalances | no commit covers a record in hand, no event is forgotten, none arrives twice without a reason, each leaves the DLQ |
| Dashboards, alert rules, scripts, benchmarks (`monitoring/`, `scripts/`, `benchmark/`, `clickhouse/`) | - | queries and one-off measurements | - | not modelled: configuration and offline scripts |

The hazards, each at its line and with the properties that would catch it going wrong, are in
`PROJECT.json` under `hazards`. The ones without a property say why.

## 2. The modules

| Module | Models | EXTENDS / INSTANCE |
|---|---|---|
| `Collector` | the collector's thread and the stream it sees | |
| `ProcessBatch` | one batch at a time through validation, DLQ, Kafka and the SLO row | |
| `Producer` | both, composed: the batch is the collector's callback | instances `Collector` (C) and `ProcessBatch` (B) |
| `Enricher` | `enrich_events` over the cache and the Wikidata API | |
| `CommitAfterHandling` | what a consumer group of one member promises: no record is committed before it was handled | |
| `QuestDBConsumer` | the consumer and its Kafka client | instances `CommitAfterHandling`, which it implements |
| `DLQConsumer` | the loop over the DLQ, its Kafka client and the two topics | instances `CommitAfterHandling`, which it implements |
| `S3Exporter` | the daemon, an operator's `--once` run, QuestDB and S3 | |
| `ResourceMonitor` | the loop of the monitor, its baselines and its alerts | extends `Arithmetic` |
| `Reporter` | the scheduler's run and an operator's commands over the files of the days | |
| `ReportContent` | what one report says: ranking, selection, news, post | extends `Arithmetic` |
| `Arithmetic` | sums and powers, as recursive functions | |
| `CollectorProofs`, `ProcessBatchProofs`, `ProducerProofs`, `EnricherProofs`, `QuestDBConsumerProofs`, `DLQConsumerProofs`, `S3ExporterProofs` | the theorems | extend their component and `TLAPS` |
| `SlackProofs` | the theorems about what is posted to Slack | extends `Reporter`, `ReportContent` and `ResourceMonitor`, whose names are disjoint for that (`ContentSpec`, `MonitorSpec`, ...) |
| `MC...` | the values of the constants for TLC | extend their component |

### Collector

`pc` is the place of `run()`: `connecting`, `streaming` (in the `for` loop), inside the
callback of one of the two calls of `_process_buffer` (`timeoutFlush`, `sizeFlush`),
`sleeping` (in `time.sleep` of an except clause), or `down`. An event is its position on the
stream and has a kind: JSON with an SSE id, JSON without, or data that `json.loads` rejects.
`Receive` is one round of the loop: the time-out check comes first and the event is taken
after the flush, so that between the two the event is in `current` only. `CallbackRaises`
clears the buffer (the `finally` clause) but neither restarts the timer nor takes `current`,
as in the code; `last_event_id` still points before that event. `Connect` resumes after
`last_event_id`, or at the tip when there is none, as the server does with and without
`Last-Event-ID`. `start`, `handed`, `failed` and `crashed` are history.

### ProcessBatch

`phase` follows `process_batch` into `send_events` and `send_to_dlq`; `resume` is where the
latter returns to, since it flushes in the middle of either loop. KafkaProducer is external:
`SendNext` and `SendToDlq` may accept a record or raise, `KafkaResolves` resolves any record
at any time as stored and acknowledged, stored and not acknowledged, or lost, and a flush
returns when nothing is in flight. `inFlight` survives a batch that raised, and a later
batch's flush waits for it. `SloRow` is written by `Return`, which may fail to write it.

### Producer

`Call` passes the collector's buffer to `Begin`, `Return` and `Raise` are joint steps with
`CallbackReturns` and `CallbackRaises`, `Crash` takes both down. The abstract specification
of the pair is `Collector` itself, which assumes of a callback only that it takes the whole
buffer and returns or raises; `ImplementsCollector` says that `process_batch` is such a
callback, and that it ends.

### Enricher

Time is in ticks. Wikidata's entities change in `EntityChanges`; `leftAt` remembers when an
entity last stopped being labelled, blank or missing. A row has a kind and the time of its
INSERT. `Lookup` finds the rows whose kind's time to live is not over; `ChunkAnswered`,
`ChunkFails` (an HTTP error or an answer without entities, such as one invalid Q-id causes)
and `ChunkRaises` (anything else, which loses the batch) are the outcomes of `_fetch_chunk`.
`rows` is the table as the process's connection sees it and `disk` as committed: `SaveFails`
leaves some rows in the open transaction, which a later `Save` commits and a `Crash` drops.

### QuestDBConsumer

A record is its offset and becomes a line, nothing, or an exception. `Poll` commits, perhaps,
what earlier polls returned, then moves the position, then converts: a record that raises
drops the whole poll. `SendAllRaises` writes any prefix and loses the rest. The model ends at
the socket, because the code does: ILP over TCP acknowledges nothing.

### CommitAfterHandling

The abstract specification of both consumers. It knows the number of records, the group's
commit and the set of records that the member has done with (`handled`); `base` is the place
from which the records are promised, which moves while there is no commit, because a member
that joins such a group starts where `auto_offset_reset` says. `Handle` and `Commit` may be one
step: auto-commit happens in a poll that may also drop what it returns. What counts as handled
is the implementation's to say: for `QuestDBConsumer` a record is handled when its line was
given to the socket, or when a conversion or a `sendall` that raised dropped it (`Handled`); for
`DLQConsumer` when `_process_message` has returned for it (`done`).

### DLQConsumer

A record of the DLQ is an offset, an event and its retry count. `Yield` is the iterator moving
the position and `_process_message` up to the send; `SendReturns` and `SendRaises` are the
outcomes of `send().get(timeout=10)`, where a send that raised may have arrived, or be in flight
still and arrive (`Settle`) after the event was put back. `Requeue` is `_requeue_to_dlq`: its
`flush` waits for everything in flight, and a record that failed after `send` returned is lost
like one whose `send` raised, although the log says otherwise. `AutoCommit` is in polls only,
since that is where kafka-python does it.

### S3Exporter

The clock is a day and an hour. Two processes run `export`: the daemon, and an operator's
`main.py --once`, which lives in the daemon's container and ends with it. Each reads the day
hour by hour, so that rows arrive, the day expires, or the other process puts its object in
between. `Raises` ends the daemon at any call, since only a missing object is caught.
`NextRun` is `_next_run_utc`, evaluated after an export and at start-up; `Yesterday` is
evaluated after the sleep.

### ResourceMonitor

A cycle of the loop takes one tick. `Collect` is `collect_all`: any container may be missing,
and a value of block I/O is the difference from the previous reading, however old. `todo`
holds the cycle's samples in the order of the two loops; `JudgeSample` takes the next one
through `store.update` and `detect`, in this order, and `send` follows in `PostAccepted` or
`PostRaises`, where the post may have arrived. The mean and the sum of squares are scaled
integers, exact for a rational `ema_alpha`, so that the z-score is compared without a root.
`MonitorCrash` keeps the table `baseline` and forgets `_last_alert` and `_prev_blkio`.
`ContainersGoOn` is what the containers' counters do between two cycles.

### Reporter

`scheduler` goes through `run_report` once a day; `operator` runs `build_and_save` or
`publish_saved` in the same container, as the repository's README describes. On disk a report is the number of its save, in chunks: `Open` truncates the file of the day it is called
on, `Write` puts a chunk at the process's own position, and `Load` accepts what is complete.
Two saves that overlap can leave a mixture, which `json.load` may accept by accident.

### ReportContent

One run of the same code seen from its data: `Fetch` is `fetch_report_data`, where any Q-id, any
Korean description and either query may be missing, `Ask` is `build_report`, `FetchNews` and
`Publish` follow. A page keeps its row's server, title and edits; a description and a news item
are represented by the page or Q-id that they are about, so that what is paired by index, by
place or by title can be compared with what it stands beside. `Candidates` keeps the order of
the code: merged, described, ranked. Its lines and those of `Fetch` in the map include the
queries between the descriptions and the ranks, which leave the list as it is and are not modelled.

## 3. What the runs check

| Run | Properties | What it shows |
|---|---|---|
| `collector` | `TypeOK`, `GapFree`, `InStreamOrder`, `OneFate`, `EventuallyOffered` | Resuming after any failure leaves no gap behind the last id and takes no identified event twice; every event is offered to the callback while the stream lives. |
| `process_batch` | `TypeOK`, `ReturnedIsRouted`, `OneRoute`, `FlushIsBarrier` | A returned batch is routed whatever Kafka does, and its SLO row leaves over what the validation rejected; both topics hold an event only after a lost acknowledgement; `future.get(timeout=10)` never waits. |
| `producer` | `NothingElseIsLost`, `SentOnce`, `ImplementsCollector` | End to end: between the start and the last id, an event is buffered, routed, or was in a batch that raised; an identified event is sent once; a batch that has begun ends (the fairness part of `ImplementsCollector`). |
| `enricher` | `TypeOK`, `BoundedStaleness`, `AskedAgainForAReason` | What an event is given was true when the cache was read, or within the time to live of its kind and the lag of a batch before; neither a crash nor another chunk's failure costs an answer that was saved. |
| `questdb_consumer` | `TypeOK`, `WrittenOncePerDelivery`, `CommitsOnlyHandled`, `EventuallyHandled` | The consumer implements `CommitAfterHandling`: a crash between poll and send costs nothing; a line is written twice only if Kafka delivered it twice; a poison record does not stop the topic. |
| `s3_exporter` | `TypeOK`, `FileHoldsItsDay`, `EveryRunExports` | An object holds what was stored of its day before the day ended, whoever put it; a daemon that lives exports every day that has rows. |
| `resource_monitor` | `MonitorTypeOK`, `BaselineIsReference`, `AlarmsAreOfCount`, `IoReportedOnce`, `OneAlertPerCooldown` | A stored row is what the definition of the weighted mean and of the sum says of all samples of its hour; which values can be anomalies, given that a value is judged against a baseline that holds it; a cooldown begins with a post that arrived, and alerts repeat within one only after a restart or a post that raised and arrived; failed readings lose no block I/O and replacements invent none. |
| `dlq_consumer` | `TypeOK`, `NothingForgotten`, `TwiceForAReason`, `CommitsOnlyHandled`, `EventuallySettled` | The consumer implements `CommitAfterHandling`; an event of the DLQ arrives, is given up, cannot be put back, or is still to be read; it arrives twice only after a delivery of Kafka's or a send that was taken for a failure; it leaves the DLQ in the end, and a malformed record stops none behind it. |
| `reporter` | `TypeOK`, `LatestWins`, `PostedIsWhole`, `ScheduledPostIsFresh` | A cut file is never posted; around midnight, after a failed build or beside an operator the scheduler posts its own report, a later one, or nothing. |
| `report_content` | `ContentTypeOK`, `EditionsAddUp`, `TextsOfTheirPages`, `BadgesAreTrue` | The edits of a topic add up whichever Q-ids are known; descriptions stay with their pages, and news too while Claude's indices are valid; a badge is true unless two wikis share the title among yesterday's rows. |
| `process_batch_refused` | `SendFailureIsRouted` (violated) | When `send` raises, the event and the rest of its batch do not go to the DLQ. |
| `s3_exporter_rpo` | `RpoOneDay` (violated) | A day whose run failed or was missed is exported by no later run. |

The two violated properties state what a document says (`docs/NFR.md:87` and line 83 of
`docs/evaluation_result/EVALUATION_RESULT_260312.md`), see `findings`.

Each property of a passing run has a mutant: an operator, marked *Faulty* in its module, that
changes one definition the way a plausible bug would, and with which TLC finds the property
violated.

### Bounds, and why they are enough

- `MCCollector`: five events, among them a malformed and an anonymous one, a batch of two, a
  time-out of one tick, delays 1 and 2. A batch is filled, flushed early, and followed by more
  than one later batch; each place of `run()` meets each kind of event.
- `MCProcessBatch`: five events of the four classes, in batches of one or two, so that a batch
  that raised with records in flight is followed by two more.
- `MCProducer`: four events, batches of two; the first batch may abort after a resumed
  connection delivered the second.
- `MCEnricher`: two Q-ids in chunks of one, so that one chunk may fail beside the other; one of
  them changes, at most once a tick. Three ticks with times to live of two and one: a row of
  each kind is stored, used, expires, and is asked for again.
- `MCQuestDBConsumer`: four records, one of them poison, polls of up to two.
- `MCDLQConsumer`: three events, one of them malformed, one retry, polls of up to two records
  and one crash or rebalance: an event goes round once and is given up, a re-queued record lies
  behind another event, a rebalance delivers a poll again, and a late arrival meets its retry.
- `MCS3Exporter`: days of two hours, with the run in the second, four days and a TTL of two:
  a day is exported, expires, and is exported again by force. Three rows: two hours of a day
  and one of the next.

- `MCResourceMonitor`: one container with a percentage of two values and its block I/O, a
  smoothing factor of 1/8 and a threshold of 1, so that the third and the fourth sample of an
  hour can be anomalies and the second of them falls into the cooldown of the first; five
  cycles, the last one in another hour. Containers are independent but for the cooldown's
  key, which the two metrics of one container tell apart as well.

- `MCReporter`: two days, four saves of up to three chunks: a report is replaced by a shorter
  one, two saves overlap and one of them goes on after the other, and a run goes past midnight.
- `MCReportContent`: rows with a topic on two sites, one page under two labels and a title
  that two sites share, any subset of their Q-ids known; answers that reorder, repeat or skip
  indices, go out of range, or are no JSON; reports of three pages with news for two.

The bounds in the guards are `StreamLen` (publishing), the saturation of `elapsed` at the
time-out (nothing looks at more), `MaxTime`, `MaxLag` and one change a tick (Enricher), and
`LastDay` (S3Exporter), `MaxTime` (ResourceMonitor), `LastDay` and `MaxSaves`
(Reporter), `EventCount` and `MaxFaults` (DLQConsumer). Nothing is symmetric: events, records and rows are ordered by position.

### Assumptions about time and fairness

- Collector: the thread runs (weak fairness of its own steps); attempts to connect do not fail
  for ever, and connections do not break every time before the same event (strong fairness of
  `Connect` and of the delivery of each event); the stream keeps delivering something, which
  `ReceiveBlank` stands for, because the code looks at the time-out only when something comes.
  The property excuses a callback that raises for ever when the stream has anonymous events.
- ProcessBatch and Producer: the thread runs, and KafkaProducer resolves every record, as it
  retries a bounded number of times and expires what it cannot send (`delivery.timeout`).
- QuestDBConsumer: Docker restarts the process (`restart: on-failure`), the broker and QuestDB
  accept a connection again and again, and a poll that finds records returns some. The property
  is about a process that from some time on stays up and in its group.
- DLQConsumer: Kafka can be reached again and again, the process is restarted, its loop goes on,
  and KafkaProducer delivers or gives up what it has in flight; `send().get()` ends because of
  its time-out. Crashes and rebalances are bounded by `MaxFaults`; sends may fail for ever.
- Enricher, S3Exporter, ResourceMonitor, Reporter and ReportContent have safety properties only.
  The exporter's clock does not pass a run that is due while the daemon sleeps, nor the next run
  while it exports.
- `process_batch` runs with `CHECK_DEADLOCK FALSE`: with all events handed over it may stop.

## 4. What is proved

Each `...Proofs` module proves its component for every value of the constants that the
component's assumption admits: all streams and topics, all sizes, times and numbers of days.
Each follows one scheme: an invariant `IInv` that the steps preserve (TLC found it holding in
the component's run before it was proved), one lemma for each step and part that it can disturb,
`Inductive`, and the properties of the run as consequences. The types (`TypeCorrect`) are a part
of every `IInv`. `SlackProofs` covers three modules at once, `Reporter`, `ReportContent` and
`ResourceMonitor`: there the names of the second begin with `Content` and those of the third with
`Monitor` (`ContentIInv`, `MonitorInductive`). What follows says why the properties need the rest
of it.

`CollectorProofs`: `NoGap` (`GapFree`), `TakenInOrder` (`InStreamOrder`) and `FateIsUnique`
(`OneFate`). `IInv` adds to them what a connection has delivered: everything JSON
up to `cursor` except the event in hand was taken (`DeliveredTaken`), nothing identified that
was taken is still to come on this connection or on the one that `last_event_id` would open
(`TakenBehind`), the id is not ahead of the cursor, the event in hand is the last delivered,
and only a size flush sees a full buffer. `GapFree` alone is not inductive, because a
reconnection moves the cursor back to the id; `OneFate` alone is not, because a fate is chosen
for events whose earlier fates only `InStreamOrder` rules out.

`ProcessBatchProofs`: `Routed` (`ReturnedIsRouted`), `RoutesExclude` (`OneRoute`) and `Barrier`
(`FlushIsBarrier`). The properties speak of a batch that returned; `WorkInv` says of each loop how
far it is and what holds of the part behind it: validated means valid, offered to the DLQ or
skipped (`SortedOut`), sent means in flight or resolved (`FuturesReady`), read means stored or
offered (`RoutedSoFar`). `DlqFlushedAtOnce` makes the flush in the middle of a loop enough.
`Once(S)` is what needs each event of `S` to come in one batch and once in it: until the loop
reaches an event it has left no trace, and its two routes exclude each other. `Counted` relates
the counters of the SLO row to the rejected part. `Once` takes a set because the composition can
give it less than all events.

`ProducerProofs`: `RefinesCollector`, every behaviour of the composed producer is one of
`Collector`, by mapping each step to a step or a stutter; `CollectorInside`, which carries
the collector's invariant over to the composition; `BatchInside`, which carries over
`WorkInv` and `Once` for the identified events, the only ones that the stream does not
deliver again; and from both `NoOtherLoss` (`NothingElseIsLost`) and `IdentifiedSentOnce`
(`SentOnce`). `ProcessBatch` alone assumes that a caller hands no event over twice; `CallStep`
proves it of the collector, from `InStreamOrder`, and `Joined` says that the batch is the buffer
while the callback runs and that the two sides agree on what returned and what raised.

`EnricherProofs`: `LabelsAreFresh` (`BoundedStaleness`) and `SavedOnce` (`AskedAgainForAReason`).
Staleness bounds the age of what Wikidata held, so the invariant follows an answer from the API
(`TrueAnswers`: not older than the first of its batch) into a row (`TrueRows`: not older than
its INSERT by more than `MaxLag`) and out of it (`TrueFinds`). It holds because what Wikidata held
last only moves forward (`Memory`). `TrueRows` and `SavedIsKept` speak of the open transaction and
of the committed table, because a crash replaces the one by the other. The bound of a row is
strict, as the query of `get_qids_from_cache` compares; for an answer of this batch it is not, and with a time to live of
0, which `config.py:13-15` admits, no single bound covers both: hence the two disjuncts of
`BoundedStaleness`.

`QuestDBConsumerProofs`: `CommitIsSafe` (`CommittedIsHandled`), `NoDuplicateOfItsOwn`
(`WrittenOncePerDelivery`), and `Implements` (`CommitsOnlyHandled`): every step of the consumer is
one of `CommitAfterHandling` or a stutter. The strengthening says where a row below the position
can be (in the batch, written or dropped), that a commit is behind the batch, and that a row in
the batch that was written before was delivered again. `Implements` rests on the invariant, since
a poll may commit up to its old position and only the invariant says that what lies behind it is
handled; its steps are `WorkStep` (what a step of the consumer must show to be `Work`),
`PollWorks` and `SendWorks`.

`DLQConsumerProofs`: `Remembered` (`NothingForgotten`), `NoDuplicateOfItsOwn`
(`TwiceForAReason`), `Implements` (`CommitsOnlyHandled`), `PromiseKept` and `CommitIsSafe`.
`NothingForgotten` is about the commit, and a commit takes in what the
position has passed: `PassedIsDone` says that nothing behind the position is open but the record
in hand, `CommittedIsDone` that nothing committed is, and `OpenRecord` that an event which is not
settled has an open record. Re-queueing closes one record and appends another for the same event
in the same step (`Back`, `OpenAfterAppend`), and a crash leaves the record in hand open even if
its copy was appended. `NoDuplicateOfItsOwn` needs `TwiceInv` beside `IInv`: an event without an
excuse has one unread record at most, none while it is in hand, and none once it has arrived;
re-queueing passes the event on from hand to log, so that the three hold only together.

`PromiseKept` is about the abstract specification: no record at or behind the commit and past `base`
is unhandled in any behaviour of `CommitAfterHandling`. `Promise` is inductive because `Commit` looks
at what was handled before its step and `base` is fixed once there is a commit. `CommitIsSafe`
carries it over to the DLQ consumer by the refinement.

`S3ExporterProofs`: `ObjectsAreWhole` (`FileHoldsItsDay`) and `NoRunIsMissed` (`EveryRunExports`).
A day's rows are all there or all gone (`Kept`, `Gone`: QuestDB drops whole days and takes no row
of a dropped one), so an export that reads hour by hour has read all rows of the hours behind it,
or comes too late and reads none (`ReadsItsDay`); the day that is dropped under a reader's hands is
excused. For the daemon neither happens: `RunOnTime` places its export in the hours after the
run, and `TtlDays >= 2` puts the drop behind them.

`SlackProofs`, on `Reporter`: `LatestSaveWins` (`LatestWins`), `NoPartIsPosted` (`PostedIsWhole`) and
`NoOldReportIsPosted` (`ScheduledPostIsFresh`). Two processes write and read files in place, and
the properties make an exception for saves that overlap in one file (`contended`). The invariant
says that who shares a file is contended (`OthersAreContended`) and that who is not has written
what the file holds (`AloneInFile`, `FinishedIsLeft`), so that a file is the beginning of one report
or has a part of a contended one (`OneReportOrContended`), and what `json.load` accepts is whole.
`DaysInOrder` and `FilesInOrder` are for midnight: a save goes to the file of the day it was
opened on and the post reads the file of the day it is called on, which the numbers of the saves
must not contradict. `SavedIsFloor` is what holds between the scheduler's save and its post.

`SlackProofs`, on `ReportContent`: `EditsAreOfTheTopic` (`EditionsAddUp`), `TextsStayWithPages`
(`TextsOfTheirPages`) and `BadgesTell` (`BadgesAreTrue`), for any rows, any answer of Claude's and
any numbers of pages and news. All of it rests on what the loop of `_deduplicate_by_qid` has done
after `k` rows (`Merged`): each topic of these rows is on the list once, at the place that its first
row has among the topics, as that row but for the editions, with a total that is the sum of the
topic's rows. `MergeNew` and `MergeOld` are the two branches of the loop, and `OneEditionMore` the
step in which the representative becomes an edition of its own: there the total must grow by one
row and not by two. From the fetch to the post the invariant carries, page by page, that a page is
right (`PagesAreRight`), since `build_report` puts the pages in another order; and that the first
pages are those of Claude's indices as long as there are keywords (`SelectedComeFirst`), since the
news are found by position.

`SlackProofs`, on `ResourceMonitor`: `RowsAreRight` (`BaselineIsReference`), `AlarmsByCount`
(`AlarmsAreOfCount`), `ReportedOnce` (`IoReportedOnce`) and `PostedOnce` (`OneAlertPerCooldown`).
The code knows a row and one value, the definition all samples with their weights:
`UpdateIsRight` says that `Update` of the definition's row is the definition's row of one sample
more, from `MeanStep` (one sample more scales all older weights by the same factor) and
`SquaresStep` (the product of the distances before and after is a square). `AlarmsByCount` needs, in
addition, that the value judged is in the row (`CurrentIsNewest`): its distance is then part of the
sum that it is measured with, which bounds the z-score (`ZScore`); after equal samples nothing else
is in the sum, and the bound is reached. For the I/O, what is pending is at least what the counter shows
(`IoCovered`), so that a counter which went back reports nothing; `IoReportedOnce` by itself does not
say that for a container that was replaced. For the alerts, a key whose last post the process does not know
of is in `forgotten` (`AlertsAreKnown`), and a post is under way only when no cooldown runs.

Merging, summing and weighing are recursions over lists. The library's induction theorems take an
operator, which no backend here can instantiate; `SlackProofs` proves induction for sets of numbers
instead (`Induction`), from a least counterexample (`Least`, by the well-foundedness of `<`), and from it that a
function defined by recursion on `0..n` exists and unfolds (`Recursion`). The models write these
recursions as recursive functions for that, and not with folds, whose argument is an operator.
`SumFacts` and `PowerFacts` are the equations of a sum and of a power; `Power` stands for `^`, which the
backends do not know.

The proofs assume the named assumptions of the modules (`CollectorAssumption`,
`ProcessBatchAssumption`, `ProducerAssumption`, `EnricherAssumption`, `QuestDBConsumerAssumption`,
`DLQConsumerAssumption`, `S3ExporterAssumption`, `ReporterAssumption`, `ReportContentAssumption`,
`ResourceMonitorAssumption`), which TLC evaluates in the runs: types of the constants, positive sizes
and times, a daily run that is not at midnight (01:00 UTC), days that outlive their export, a
`NoFile` that is not the content of a file, a smoothing factor above 0 and at most 1, and lists of
targets and metrics without repetitions.

Only model-checked: the liveness properties (`EventuallyOffered`, `EventuallyHandled`,
`EventuallySettled`, and the fairness part of `ImplementsCollector`), since the prover has neither
fairness nor ENABLED. Every safety property of a passing run is a theorem. What the proofs cannot say
is what the models leave out: the baselines are exact where the code rounds to floats.

## 5. Where code and documents disagree without a run

- `docs/NFR.md:85` says that a restarted producer resumes where it stopped and loses nothing:
  `_last_event_id` and `event_buffer` are in memory only (`collector.py:24,28`), so a new process
  joins the stream at its tip, and what the old one had buffered is in `crashed` for good.
- `EVALUATION_RESULT_260312.md:84` answers a failed `sendall` with a retry: the batch is a local
  variable of an iteration that is over and the position has moved past it, so that the rest of
  the batch is dropped, which `Handled` of `QuestDBConsumer` counts as being done with.
- `fetcher.py:528` takes the peak hour from UTC timestamps; `builder.py:27` and
  `publisher.py:192` print it as KST.
- `dlq_consumer/consumer.py:100` logs that the record was re-queued; its future is not read, and
  `flush` raises nothing when the record failed (`lost` of `DLQConsumer`).
- `dlq_consumer/consumer.py:86` re-queues without a pause, so that the retries of an event can be
  used up within one outage of the main topic's leader.
- `docs/NFR.md:68` (NFR-R3) promises back-off when the connection is lost; a stream that the
  server ends cleanly is reopened at once (`StreamEnds`), without back-off.
- `sender.py:67`: the future of a DLQ record is not read, so a record that fails after `send`
  returned is neither kept nor logged at CRITICAL; `silent` in `ProcessBatch` holds those events.
- `monitoring/dashboards/wikistreams-slo.json:657` reads `batch_size - valid - skipped` as the
  number of events in the DLQ; it is the number rejected by the validation
  (`ReturnedIsRouted`), and misses those that `send_events` routed to the DLQ.
- `EVALUATION_RESULT_260312.md:335` calls the QuestDB consumer at-least-once; a row whose
  `sendall` returned is committed by a later poll even if QuestDB never read it.
- `EVALUATION_RESULT_260312.md:50` promises a TTL of five days on `wikimedia_events`; when
  `_ensure_table` gave up, the first line creates the table without one.
- `enricher.py:119` counts an API failure as no new call, so the cache hit rate of SLI-P7 is
  100 % while the API is down.
- `docs/SRE.md:61` promises one alert an hour per container and metric; the cooldown is in
  memory and starts only when the post returned, so a restart, or a post that arrived although
  it raised, is followed by a second one (`forgotten` in `ResourceMonitor`).
- The cooldown does not look at the severity: a warning silences a critical anomaly of the same
  container and metric for an hour (`docs/SRE.md:60-61` does not say so).
- `resource_monitor/config.py:28` speaks of two hours of data before detection starts; samples
  are counted per hour of the day, so 720 of them take two days.
- `resource_monitor/collector.py:19` calls the block I/O that of this cycle, and `alerter.py:23`
  gives it in MB/s; it covers all cycles since the last reading that succeeded.
- `alerter.py:124` can announce a drop; the absolute guard of `detector.py:48` ignores every
  value below it, so a container that falls to nothing is never announced.
- `reporter/storage.py:40` says that the latest result of a day wins; a run whose save fails, or
  dies, has truncated the earlier one, and the day has none (`LatestWins` is about a save that
  ended).
- `builder.py:75` pairs the keywords with the selected pages; an index that is out of range is
  dropped from the pages and not from the keywords, so that the news shift by one.
- `fetcher.py:341` calls the key of a page without a Q-id unique; a page whose label changed
  within the day is two rows with one key, and is shown as two editions on one site.
- `fetcher.py:53` calls a page without `rank_change` new; the ranks of yesterday are looked up by
  title alone, among ten rows, so that a namesake on another wiki lends its rank, a page from
  place 11 is new, and so is every page when the query failed (`fetcher.py:550-557`); these are
  the conditions of `BadgesAreTrue`.
- `docs/NFR.md:78` (NFR-D3) gives missing entities 24 hours; `config.py:14` gives three.

## 6. What is not modelled, and the plan

Left out on purpose: texts, labels, payloads and their formatting; logging; the fields that
`WikimediaEvent` checks; the HTTP requests of `ensure_table`, `_ensure_table` and
`questdb_writer.py`, whose outcome nothing reads; what of the report meets nothing else (overall
figures, reverted pages, featured article); dashboards, scripts and benchmarks, which are
queries and offline measurements. A pipeline module over the topic, composing the producer and
the consumer, would say no more than the two do apart: the topic between them only grows.

Not covered by a property, with the reason in `hazards`: the missing back-off after a clean end
of the stream, lines that QuestDB never reads, and the rank that a namesake on another wiki lends.

Nothing that the runs check of safety is left to prove. What would say more about the system is a
bound on the rounding of the baselines, which needs a model of floating-point numbers, and a proof
of the liveness properties, which needs a prover with fairness.
