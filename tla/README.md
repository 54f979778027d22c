# Investment analyst: verification project

TLA+ models of the stateful core of Investment analyst, the TLC runs that check
them on small instances, and TLAPS proofs for every value of the constants.
Paths below are relative to `src/src/investment_analyst/` unless they start
with `src/`.

## 1. Inventory

The program is a local service for one user: one process
(`src/scripts/serve_investment_analyst.py`), under a supervisor unit with
`Restart=on-failure` (`application/local_service_unit.py:189`). It holds a
process lock, serves HTTP requests from threads, runs one scheduler thread and
one queue worker thread, and keeps its operational state in files. Most of the
source is pure computation over financial evidence; what can go wrong in ways
tests hardly reach is in the following parts.

| part | state | operations | interacts with | what is hard | what makes it correct |
|---|---|---|---|---|---|
| Manual operation queue, `application/manual_operations.py` | one JSON document of operations; condition, worker thread, last timestamp | enqueue, run_next, recover_interrupted, start, stop | HTTP threads enqueue; worker dispatches to the web application | two writers, kills between two writes, clock steps back, failed writes | deduplicated, one running, loadable, every repeat counted, every operation ends |
| Bounded journal, `application/bounded_journal.py` | manifest, snapshot, segment files | read, append, rotate, fold, legacy fold | the scheduler's and the desktop notifications' stores | kill at every file, partial lines, failed writes | readable after any of them, no acknowledged record lost |
| Multi-asset scheduler, `application/multi_asset_scheduler.py` | attempts in a journal; registry, active job, pending notifications in memory | tick, recover, run a job, notify, reconcile_jobs | providers, observers, asset preferences, memory watchdog, stop event | registry replaced during a tick, kills, clock, midnight, observers that fail | budget and backoff kept across restarts, interrupted attempts recovered, no outcome forgotten, due jobs run |
| Scheduled observers, `application/scheduled_observers.py` | pending attempts of each observer, in memory | observe | scheduler → alerts, screening, outbox | one observer of a chain fails | each observer hears of each attempt once |
| Analytical screening, `alerts/analytical_monitor.py`, `analytical_state.py` | journal of results, candidates, transitions, receipts; a document that says which count | observe, replay, transition | scheduler, HTTP threads | several appends for one evaluation, a clock read before the lock | the state always loads, one open candidate of a stream, every attempt screened |
| Candidate outbox, `alerts/candidate_notifications.py` | one JSON document | reconcile, enqueue, acknowledge | screening, HTTP, desktop delivery | acknowledgement during a reconciliation | every candidate told, no acknowledgement undone |
| Desktop delivery, `alerts/desktop_notifications.py` | journal of deliveries, configuration, retained-delivery budget | configure, observe_batch, observe_tick, recover | outbox, Windows channel | kill around the send, channel disabled meanwhile | shown at most once, nothing revoked shown, every delivery settles |
| Operational alerts, `application/operational_alerts.py` | one document | reconcile, observe | scheduler | projection repeated after restart | idempotent |
| Asset preferences, `application/asset_preferences.py` | one document with a revision | apply | scheduler registry | save and reconcile in two steps | registry agrees with what is saved |
| Read cache, `application/read_cache_policy.py`, `frontend/local_web.py` | values by signature, loads under way, charts by request | get_or_load, store, clear | HTTP reads, storage, refreshes | coalesced loads, writes between signature and load | no answer older than its request, every request ends |
| AAPL daily runner, `application/aapl_daily_runner.py` | lock file, state document | run | command line, timer | kill while RUNNING | one run at a time, restartable |
| Raw record storage, `storage/raw_v2.py` | files by checksum, index rows | save_many, repair_temporal_metadata, get_many | refreshes, reads, an operator | kill between file and row, rollback of a chunk | a row names a file that exists |
| Cutover, `workspace/workspace_v2_cutover.py`, `src/scripts/close_data_chassis.py` | window document with phase and deadline, receipt, reservation, two workspaces | cut (owner), recovery hook, close | systemd, the service, the release pointers | owner or hook killed at any step, reboot, deadline | the old root never runs after v2, v2 serves a complete copy, a service comes back |
| Backup, recovery, retirement, repair (`workspace/`) | archives, plans, receipts | operator commands | remote storage | interrupted transfers | nothing removed before it is verified elsewhere |
| SEC institutional cycle, `application/sec_institutional_*.py` | checkpoint documents | cycle | providers | resumed cycles | no filer skipped |
| Local release, `application/local_release.py` | installed releases, unit file, pointers | install, activate, recover, roll back | operator, cut | kill during a switch | the pointer names a complete release |
| Web frontend, `frontend/` | none of its own | HTTP handlers | all of the above | threads | it is the environment of the other parts |
| Providers, analytics, evidence, research, simulation, catalog | none | pure functions and adapters | | | numeric; outside a model checker's reach |

They interact as follows. An HTTP thread puts a manual request into the queue,
whose worker calls back into the web application; another saves preferences and
replaces the scheduler's registry. The scheduler thread runs due jobs one after
another, records each attempt in its journal before and after it calls the
provider, and then notifies the observer chain (alerts, screening, outbox); the
outbox hands new candidates to desktop delivery, which has a journal of its own.
A refresh, under the writer's lock, saves raw records and then drops the caches
that reads of other HTTP threads are using. The cut stops that service, copies
its workspace and starts another over the copy.
A signal sets a stop event that both threads look at; what is still busy at the
shutdown deadline dies as a daemon thread.

## 2. Plan

Ordered by how much of the system rests on the part. All of 1 to 6 exist.

1. `WorkQueue`, `ManualQueue`, `ManualQueueProofs`: the manual queue.
2. `DurableLog`, `Journal`, `JournalProofs`, `JournalDurableProofs`: the log under
   the scheduler and the delivery.
3. `JobLedger`, `Scheduler`, `SchedulerProofs`; the attempts are what `Journal` stores and `Screening` observes.
4. `Screening`, `ScreeningProofs`: attempts become receipts and candidates. `DeliverOnce`,
   `Notifications`, `NotificationsProofs`: candidates, outbox and desktop channel composed, because
   what can go wrong lies between them.
5. `RawStore`: raw records. `FreshRead`, `ReadPath`, `ReadPathProofs`: reads and
   caches composed with that store (`ReadPath` EXTENDS `RawStore`).
6. `CutWindow`, `CutWindowProofs`: the cut from v1 to v2 with systemd, the
   service and the release pointers.
7. Left: asset preferences composed with the registry; one pending set for each
   observer of a chain; the daily runner with its lock file; the institutional
   cycle; the migration that precedes the cut.

Abstract specifications: `WorkQueue`, `DurableLog`, `JobLedger`, `DeliverOnce`,
`FreshRead`. Every invariant, action property and refinement of the runs is proved,
some under a hypothesis that section 6 states.
No module declares a RECURSIVE operator, so all of them are open to proof.

## 3. The models

### ManualQueue (and WorkQueue)

| TLA+ | code |
|---|---|
| `doc` | the document of `ManualOperationStateStore`, one record for each id (`recovery` is recovery_count) |
| `phase`, `todo` | construction and life of the queue in the process; what recover_interrupted still has to requeue |
| `worker`, `cur` | program counter and operation of `_run_forever`/`run_next` |
| `enq` | an HTTP thread that holds the condition between look-up and write |
| `lastTs` | `_last_timestamp`, the clamp of `_now` |
| `dispatches` | history: calls of the dispatcher |

Every write of the document is one action, because `_write_document` replaces
it atomically; between two writes any other thread may act and the process may
die. Two HTTP threads never overlap inside `enqueue` (they hold the condition),
so one `enq` is enough. `WorkQueue` is what a caller is promised, over statuses
and requests alone; `ImplementsWorkQueue` maps the document to it.
The wall clock is free: every reading is an arbitrary member of `Times`.

### Journal (and DurableLog)

A record is an item and the version it reaches (an attempt is RUNNING, then
finished). Each file is a variable: `manifest`, `snapshot`, `seg[s]`, and
`legacyFile` (the v1 file's records). Each change of one file is one action, and `step` says which is
next; a kill or an OSError may fall on each. A file's digest is its content. A
segment holds complete lines and a tail: `None`, garbage (a partial line), or a
record whose newline is missing. `SegmentLimit` is max_segment_bytes counted in
records. `Load`, `Truncate` and `Rewrite` are the read, which repairs a partial
last line in two steps.

`Windows` names the faults that reveal a flaw, so that the other runs can show
what holds without them:

- `"fold"`: a kill or failed write between the replacement of snapshot.json
  and the save of the manifest that refers to it;
- `"truncate"`: a kill or failed write while the confirmed lines are written
  back after a partial line;
- `"newline"`: a write cut short of exactly its newline.

`journal_safety` excludes the three, a configuration named in section 5
reproduces each, and
`journal_faults` allows all of them and checks what is left: a read
that succeeds still has everything sealed (`FailsClosed`). `Reloads` tells the
two stores apart: after a failed append the scheduler's store reads the disk
again before the next one (a tick begins with a load), the desktop store may go
on with its cache. `atomic_write` either replaces the file or leaves it: a kill
of the process loses nothing that was replaced. Loss of power is not modelled.

### Scheduler (and JobLedger)

| TLA+ | code |
|---|---|
| `attempts[j][d]` | the attempts of job j on local day d in `MultiAssetScheduleState`, in order; the position is attempt_number |
| `thread`, `now`, `jobs`, `queue`, `cur`, `outcome` | program counter and locals of `run_forever`, `tick`, `_run_job` |
| `active`, `registry`, `pending` | `_active_job_id`, `_jobs`, `_pending_notifications` |
| `cancel` | the `OperationControl` of `run_forever`: not cancelled, stopped, or cancelled by the memory watchdog |
| `observed` | what the monitors hold durably |
| `calls`, `withdrawn` | history: provider calls; jobs a registry left out while not active |

An attempt's record keeps status, start and completion; `failed` is a
retryable failure, `blocked` one that is not. The journal is one atomic step
here: `WriteFault` is an append that raises, and with `TornWrites` its record may
be durable all the same. Midnight, the schedule and the backoff are arithmetic on
one clock: `DayLength` readings to a day, `Scheduled(d)` within it. Time zones and
daylight saving are abstracted to that day. The clock ticks and may step back.
`Recover` and `Finish` need a completion not before the start
(`validate_lifecycle`); `RecoverTooEarly` and `FinishTooEarly` are what happens
otherwise: the tick raises and `run_forever` goes on with the next one.
`Boot` gives every finished attempt to the observers, as the service does
before it starts the thread. The service's lock file allows one scheduler, so no
second writer exists. `_tick_lock` has one caller. `JobLedger` keeps the sequence
of statuses: one attempt runs at a time over all jobs, an attempt follows only a
retryable failure, a budget bounds them, and nothing recorded changes but
running to an outcome.

### Screening

One stream of results: one rule, one asset, one source. `evidence[a]` is what
attempt `a` left (skipped, condition met, held or cleared) and `period[a]` its
as_of; the engine is that choice. `doc` and `journal` are the two durable parts,
`cache` is `_cached_state`, `lock` is the store's lock with `rest`, the records
its holder has still to append, and `goal`, the state it will cache. Before the
first append the holder prepares the store (`Touch`, `Prepare`): an empty
document (`stored`), then the journal's directory, a first file in it and its
manifest (`files`), and the marker of a preserved document (`marker`). The records
of one observation are then appended one by one and the document is replaced
(`Sync`). A failure or a kill may fall between any two of these. Which kind of
store it is is not remembered: every start derives it from the files
(`PreservedAtStart`, `JournalAlone`). `Loaded` is what the next start reads: the
journal alone for a store that began with a document of the first version,
otherwise the journal restricted to what the document names. An empty document
names nothing, so what a kill leaves in the first observation is left behind
like what it leaves in a later one (`orphaned`). `Init` is a store with no file or
with a document of the first version that says nothing of this stream.
`Evaluate` reads the clock outside the lock, as the monitor does, and a user's
transition may be stamped in between. Clock readings strictly increase.

### Notifications (and DeliverOnce)

| TLA+ | code |
|---|---|
| `cand`, `born` | the candidates of screening, and the activation of the channel they came up under (activated_at against enabled_at) |
| `outbox` | the notifications and acknowledgements of `CandidateNotificationStore` |
| `enabled`, `epoch`, `unreadable` | the channel's configuration, the activation its `enabled_at` stands for, and a configuration that `load_config` refuses |
| `marked`, `rest` | `last_batch_at` is set; time until the next batch |
| `future` | what carries a time that the clock has stepped back behind: candidates, deliveries, the activation, the batch |
| `disk`, `wait`, `mem`, `corrupt` | deliveries in the journal, their next_attempt_at, the cache, a history `load_deliveries` refuses |
| `thread`, `snap`, `work`, `chosen`, `reply` | the scheduler thread in reconcile, admit, select, begin, send, record |
| `http` | the HTTP thread that has written the disabled configuration and is cancelling |
| `shown`, `acked`, `revoked`, `torn` | history |

Time is what is compared: a batch interval and a retry delay count down. The
clock may step back (`StepBack`) behind all that is recorded, and catches up in
one step (`CatchUp`). Until then a delivery in `future.updated` cannot be written
without a later load refusing it (`Recorded`: `updated_at` may not go back), a batch
mark or a test before the activation makes the configuration unreadable, and a
candidate that comes up is older than the activation.
`Answers` are what the adapter says of each toast: accepted (it was shown),
retryable (it was not) or unknown (either). The candidates and their outbox are in
one module with the channel because the thread takes one snapshot of both for a
batch, while HTTP threads change either.

### RawStore, ReadPath (and FreshRead)

A record has two contents, as received and as corrected by the operator's
repair. `blobs` are the files and `index` the rows; `writer`, `list`, `chunk` and
`rows` are the locals of `save_many` or of the repair. Files are written one by one
before the rows of their chunk are inserted in one transaction; two contents of
one record in a chunk, or against its row, are a conflict that raises.
`ReadPath` adds HTTP threads: `pc`, `how`, `query`, `key`, `value` are one request's
locals, `entries`, `inflight`, `charts` the shared caches. Signature, load and
validation each open the store and see a snapshot of that moment. A signature
is the content it is bound to. `FreshRead` is what a client is promised: an
answer is at least as new as the data was at the request. It says nothing of
charts, which are cached by request alone; `ChartsCurrent` says what holds of
them. A kill of the process ends all requests and loses all caches.

### CutWindow

`phase` and `receipt` are the durable window, `reserved` and `invalidated` the
attempt's records in the destination, `unit` and `deployed` the release's state,
`service` and `wanted` what systemd has. `owner` is a program counter along
`_run_global_cut` and `LocalReleaseService.activate`, `hook` one along
`_recover_global_cut` and `recover_interrupted_v2_activation`. Every advance of the
phase is an action of its own, and the owner may end after each (`OwnerEnds`: an
exception, its monitor's SIGTERM, a kill); the hook may be killed after each of
its steps and run again. `clock` counts while the window's boot lasts; `boot`
counts reboots, after which its clock is refused. systemd restarts a failed
service and may start the enabled unit at boot: these actions start whatever
the unit file names. `behind` says that v1 may have accepted a write the copy
lacks (v1 runs, or has run since the copy). The catch-up, its upload and its
restore are one step that copies everything or ends the owner.

## 4. The runs

| run | instance | shows |
|---|---|---|
| `queue_operations` | 3 ids, 2 requests, 2 clock values, room for 2, 1 kill or stop, 1 failed write | types, `DocumentLoadable`, `AuditedRepeats`, `StartsInTimestampOrder`, implements `WorkQueue`, `EveryOperationEnds` (247,830 states) |
| `journal_safety` | 2 items of 2 versions, no v1 file, an empty one or one with a record, segments of 2 records, 3 kills, 3 failed writes, outside the windows | types, `Readable`, `OpenSegmentBounded`, implements `DurableLog` |
| `journal_faults` | all windows, 2 kills, 2 failed writes | `FailsClosed` |
| `scheduler_jobs` | 2 jobs, 2 attempts a day, over midnight, registry replaced, breaches of memory, 2 kills or stops, 1 failed write or observer | types, `CallsBudgeted`, `FinishedNotForgotten`, `WithdrawnNotStarted`, implements `JobLedger` |
| `scheduler_liveness` | 2 jobs, a kill or stop, a step back within the day, registry replaced | `DueJobsRun` |
| `scheduler_recovery` | 1 job, two days, a kill or stop, 1 failed or torn append, 1 step back, over midnight too | `RetryDiscipline`, `EveryAttemptEnds` |
| `screening_store` | 3 attempts, 2 confirmations, a cooldown, 1 transition by the user, 1 kill, 1 failed write, also in the preparation; both kinds of store | types, `StateLoads`, `CandidatesSound`, `ConfirmedByPeriods`, `EveryAttemptScreened` (300,906 states) |
| `screening_readable` (violation) | 3 attempts, 1 kill | section 5 |
| `notifications_delivery` | 2 notifications, batches of 1, 2 attempts, the channel changed twice, 1 acknowledged or closed, 1 kill, 1 failed or torn write | types, `EveryDeliverySettles`, `EveryCandidateTold` (456,254 states) |
| `notifications_behind` | the channel enabled, disabled and enabled again, 1 kill, 1 failed append, 1 step back of the clock | `DeliveriesLoadable`, `RevokedNotShown`, implements `DeliverOnce` (1,181,601 states) |
| `read_path` | 1 record, a batch of 2 chunks, a repair, 2 readers with signed, plain and chart reads, 1 cache entry, 1 kill, 1 failure | types, `IndexReadable`, `CacheBound`, `ChartsCurrent`, implements `FreshRead`, `EveryRequestEnds` (300,823 states) |
| `cut_recovery` | a window of 3 with a reserve of 1, 2 reboots, 3 runs of the hook, 2 failures | types, `OldRootNotRevived`, `NothingForgotten`, `AvailabilityReturns` |

`AtMostOneRunning`, `NoDuplicateActive` and `HistoryAppendOnly` of the queue have
no run: they are theorems, and consequences of `ImplementsWorkQueue`, which the
run checks. The other configurations are the reproductions that section 5 names.

Why the bounds are enough. Two equivalent and two different requests, one
operation running and another waiting, and a full history are the cases the
queue distinguishes, and each fits in three ids. A journal tells a closed from
an open segment and a first fold from a later one: four records in segments of
two fold twice. Two jobs give one that waits while the other runs; two days
give a midnight, and an attempt of the later day before a step back into the
earlier one; two attempts a day give a retry, its backoff and the end of the
budget (the doubling of the backoff is in the theorem). Three attempts give a
stream that is confirmed twice and then cleared, or recorded out of order. Two
notifications, with batches of one, give one that waits while another is out.
Three changes of the channel are enabled, disabled and enabled again, with the
kill or the failure among the cancellations of the second. A batch of two chunks
gives a kill between chunks and a record that is met again within and across
chunks; two readers are one that leads a load and one that joins it, or a chart
loaded beside a refresh.
Three runs of the hook are one killed, one rerun and one more after a reboot;
the second reboot falls on a recovery. A second kill is the first that can fall
on a recovery of the journal; in the queue a failed write ends the recovery instead,
and in `Notifications` and `Screening` it runs beside one. `DeliveriesLoadable` and
`RevokedNotShown` speak of the states before the first step back. Every bound is a
CONSTANT with `bound:` in its comment, and the actions of the environment
(kills, faults, clock) are the only ones it limits, except `MaxSegments`, which
no run reaches, and the ids, which stand for the operations a run looks at.

`CHECK_DEADLOCK FALSE` is given where the bounded environment may simply stop:
everything is recorded, the ids are used up or the clock has reached its bound.

Fairness. `ManualQueue`: weak fairness of an admitted enqueue, strong fairness of
starting the service (the supervisor restarts it) and of the worker: both compete
for the condition with requests that may be refused for ever, and a thread that
waits for it is assumed to get it in the end. A dispatch returns because every
provider call has a timeout. Nobody has to send a request. `Scheduler`:
weak fairness of the clock, of the restart, of the shutdown deadline and of the
thread. `Screening`: of the start, of the scheduler thread and of whoever holds
the store's lock. `Notifications`: of the start, the thread, the clock and an
HTTP thread that is cancelling; the adapter answers because its process has a
timeout. `ReadPath`: of each thread that has a request; nobody has to ask, and
no refresh has to come. `CutWindow`: of the hook's steps and of systemd's
restart alone; neither the owner nor the clock nor a rerun of the hook is owed.
Nothing else has strong fairness, and no fault has to stop by itself: the bounds
say how many there are. After a clean stop, too, an operator starts the service
again. A queue whose document could not be written loses its worker until the
next start (`WithoutWorker`), and `EveryOperationEnds` claims nothing of it.
`DueJobsRun` is checked without failed writes, `EveryAttemptEnds` with one, both
without the memory watchdog, which ends the thread (`SchedulerMemory.cfg`). The
clock does not step back where the delivery's liveness is checked.

## 5. Where the code and its documents disagree

`screening_readable` (`StateReadable`) is a violation run whose trace TLC prints: a
kill between the appends of an observation and the replacement of the document.
The next start does not know the records, replays the attempt with a later
reading of the clock and appends a second receipt or candidate that differs; from
then on no load accepts the state. It needs no earlier observation: the empty
document written before the first append names nothing.
`src/docs/automated_screening_alerts.md:446` promises "replay y reinicio idempotentes".

The following configurations reproduce disagreements in the same way, with
`tlc -config <cfg> MC<module>`; they are not among the runs.

- `JournalFoldCrash.cfg` (`Readable`): a kill after the folded segments are removed
  and before the manifest is saved leaves a journal that no read accepts.
- `JournalTruncateCrash.cfg` (`AcknowledgedDurable`): a second kill during the
  repair of a partial line loses confirmed records.
- `JournalNewline.cfg` (`Readable`): a line that lost only its newline is accepted,
  and the next append joins it to the following line, which is corruption.
- `JournalCachedStore.cfg` (`Readable`): the desktop store keeps its cache after a
  failed append and writes behind the partial line.
- `SchedulerMemory.cfg` (`ThreadRetained`): a job over the memory ceiling cancels
  the control of the whole thread; no job runs until the service is restarted.
- `NotificationsAcknowledged.cfg` (`AcknowledgementsKept`): a reconciliation writes
  back the outbox it read and undoes an acknowledgement that was answered
  (`src/docs/automated_screening_alerts.md` promises that it lasts).
- `SchedulerStranded.cfg` (`RunningRecovered`): after an attempt the clock steps back over
  midnight, the job is due again on the day before, is started and killed. Only
  the latest attempt of each job is looked at, so no start recovers the one that
  runs. `src/docs/v2_operational_readiness.md:148`: "El intento `RUNNING` se recupera
  como `INTERRUPTED`". `Stranded` names these attempts, the one exemption of
  `EveryAttemptEnds`.
- `NotificationsHistory.cfg` (`EarlierNotEnqueued`): the clock steps back between a
  candidate and the activation of the channel; when it has caught up, the
  candidate counts as later than the activation and is admitted.
  `src/docs/local_interface.md:932-933`: "los candidatos anteriores no se encolan".
- `NotificationsTorn.cfg` (`DeliveriesLoadable`): an append that raised although
  ATTEMPTING is durable lets the same delivery begin again, or an end that
  raised lets another follow; the next start refuses the journal. The toast is
  shown once all the same.
- `NotificationsClock.cfg` (`HistoryReadable`): the clock steps back between two
  states of a delivery. The later one is written with the earlier `updated_at`,
  which is not validated before the append, and the next start refuses it.
- `ReadPathCharts.cfg` (`ChartsInvalidated`): a chart whose load overlaps a refresh is
  put into the cache after the refresh has dropped the charts, and stays until
  the next refresh. `src/docs/local_interface.md:631-634` says the caches "se
  invalidan después de cada intento de actualización". `ChartsCurrent` excepts
  exactly these charts by `overtaken`, and says that all others are current.
- `CutWindowAutostart.cfg` (`OldRootNotAutostarted`; `tlc -config` with `CutWindow`): a
  reboot in ACTIVATING before the unit is retargeted lets systemd start v1 by
  itself. `src/docs/archive/data_chassis_45_migration_runbook_20261021.md:449-450`:
  "nunca arranque automático del v1 antiguo". If v1 then fails while the hook looks,
  v2 is activated without what v1 has accepted meanwhile (`woke` in
  `NothingForgotten`).

Smaller ones, seen in the models and without a configuration of their own.

- Queue: operations with equal timestamps start in the order of their random
  ids, not by age.
- Journal: `max_segment_records` is never compared; a load of the schedule state
  repairs a partial line although its docstring says it leaves the disk alone.
- Scheduler: an outcome whose append raised after it was written reaches no
  observer until the next start, so `TornWrites` is off where notification is
  checked.
- Screening: in the preserved mode a failed append that left its record, and a
  second failure, give two open candidates (`orphaned` in `CandidatesSound`). A kill
  between the empty document and the marker, before the journal has a file, makes
  a new store one of the preserved kind at the next start. An attempt recorded
  after a later one may leave open what that one cleared (`late`).
- Notifications: a failed begin or record leaves a delivery ATTEMPTING until the
  next start. A batch or a test while the clock is behind `enabled_at` writes a
  configuration that no load accepts any more, and with it ends the channel. A torn
  append and a step back together let a toast that was shown be sent again:
  `ImplementsDeliverOnce` is checked with the second and proved for either of them.
- Cut: past the deadline on the window's own boot, the phases from STOPPING to
  RECOVERY_VERIFIED admit neither a return nor an advance: the workspace is down
  until a reboot (`AvailabilityReturns` exempts it). A hook killed between the
  advance to HEALTHY_V1 and the receipt, and rerun past the deadline, writes no
  receipt and never invalidates the reservation. A rerun of the cut over an
  existing window fails in the owner and runs the hook alone.

## 6. The proofs

Each proof module assumes only the named assumptions on the constants of the
module it extends: sets of ids, jobs or records, positive lengths, natural
bounds. None is about an instance. A theorem that needs more states it as a
hypothesis: some of `JournalDurableProofs`, `SchedulerProofs` and
`NotificationsProofs`.

`ManualQueueProofs`: `TypeCorrect` (`TypeOK`), `SingleRunning` (`AtMostOneRunning`),
`Deduplicated` (`NoDuplicateActive`), `History` (`HistoryAppendOnly`) and
`Implementation` (`ImplementsWorkQueue`). Neither safety property is inductive.
That a worker about to begin does not start a second operation depends on who
owns a running record: `Ownership` says a running operation is either in the
worker's hand between `Begin` and the write of its outcome, or still to be
requeued (the process is down or recovering), and that an operation the worker
has picked is still queued. That an enqueue does not add a duplicate after its
look-up depends on the write in between: `Admission` says that while a request
is admitted no active operation stands for it - the worker's writes only move
operations that are already active, and recovery is over when requests are
accepted. `IInv` is their conjunction with `TypeOK` and the two properties. One
lemma for each kind of write says what it changes (`BeginEffect`, ...), one for
each conjunct says that every step preserves it (`StepOwnership`, ...). The
refinement maps each action to one of `WorkQueue` or a stutter.

Three more theorems of the queue rest on two further invariants. `TimeInv` is about
stamps: the readings the process takes are never before one on record
(`Clocked`), the stamps of each record are in the order its loader demands
(`Coherent`), and what the worker has picked is the first queued operation in the
order of the stamps, also after a later request (`Picked`). It gives `Loadable`
(`DocumentLoadable`) and `TimestampOrder` (`StartsInTimestampOrder`). `Counted`, that
each dispatch beyond the first is covered by a recorded recovery, gives `Audited`
(`AuditedRepeats`).

`SchedulerProofs`: `TypeCorrect` (`TypeOK`), `Budgeted` (`CallsBudgeted`) and
`WithdrawnStaysOut` (`WithdrawnNotStarted`). Nothing is assumed of the order of
the clock's readings. The budget is not inductive, and neither are the types:
that a day has budget left is looked up at the claim, an attempt is added at the
start, and the provider is called a step later. `InHand` carries this along the
thread: a claimed job has budget left on the day of the reading its claim took,
the attempt in hand is on record, and until it is called the calls of its day
are fewer than its attempts. `StepRecords` says which step changes the number of
attempts of which job, so it also gives the action property: `Out`, that a
withdrawn job is neither registered nor active, is kept by every step.

The second part of `SchedulerProofs` is about what the history says: `Disciplined`
(`RetryDiscipline`), `NoneForgotten` (`FinishedNotForgotten`), `OneAtATime` and
`Implementation` (`ImplementsJobLedger`). `StepHistory` splits the steps by what they
do to the history: nothing, the outcome of a running attempt (`Ends`) or the start
of the claimed job. `Held` says that what the thread has in hand is running until
its outcome is recorded, and that a job about to start is due at the reading its
claim took; so an outcome never comes to an attempt that has a successor, and a
start finds its predecessor failed and its backoff over. `NoneForgotten` assumes
`~TornWrites`: an outcome whose append raised with its record durable is told at the
next start of the service only, and the run `scheduler_jobs` makes the same choice.
The scheduler's `Implementation` assumes `MaxBacks = 0`: `Past` (no attempt started after the reading
of the clock, each is filed under the day of its start) makes a new attempt the
latest of its job, and `Sole` (what runs is one attempt, the latest of its job, and
nothing runs from the recovery to the next start) makes the ledger's one attempt at a
time. With a clock that steps back an attempt left running may not be the latest
of its job, and a second one may start beside it.

`ReadPathProofs`: `Readable` (`IndexReadable`), `Bound` (`CacheBound`) and
`Freshness` (`ImplementsFreshRead`). The store's part, `StoreInv`, says that the
files of the rows to come are there and that these rows do not go back to an
older content; with it a row always has its file and the data only grows
(`Grown`). The readers' part says, for each request, that the records at its
start are at most what its signature was taken of (`Dated`, `Sealed`), that this is
at most its value, and that its value is at most the data now (`Valued`); what
is cached is a pair of a value and its own signature (`Pairs`). The first chain
is kept because the data only grows; the second is why a hit, a wait for another
thread's load and a load of one's own all answer with data at least as new as
the request, which is the refinement. A second invariant gives `TypeCorrect` (`TypeOK`)
and `Charts` (`ChartsCurrent`): it follows a chart from its load to the next refresh.
What a thread has loaded for a chart, and every chart that is cached, shows what is
stored whenever the writer is idle, or its query is in `overtaken` (`Pending`). This
needs that nothing is repaired while the service is up and nothing is read or cached
while it is down (`Charting`): a repair changes rows without dropping the charts.

`CutWindowProofs`: `TypeCorrect` (`TypeOK`), `NoRevival` (`OldRootNotRevived`) and
`CompleteCopy` (`NothingForgotten`). The invariant ties the places of owner and
hook to the phase (`OwnerPhase`, `HookPhase`), the phase to the unit file (`Unit`:
it names v2 only in a window that has gone forward, and always once v2 has
run) and the copy to the service (`Copied`: the service is down from the stop to
the restart, and once the window is ACTIVATING the copy is complete but for a v1
that systemd started). What the hook has read stays true until it acts, because
it runs only without an owner and ACTIVATING leads only to phases that end the
window.

`NotificationsProofs`: `TypeCorrect` (`TypeOK`), `Loadable` (`DeliveriesLoadable`),
`Revoked` (`RevokedNotShown`) and `Implementation` (`ImplementsDeliverOnce`). Each but
the first excludes what section 5 shows to break it: `DeliveriesLoadable` and
`RevokedNotShown` speak of the time before the first step back of the clock (where
`Timed` says that nothing carries a time to come), `Loadable` assumes `~TornWrites`
too, and `Implementation` assumes `~TornWrites` or `MaxBacks = 0`.

Where an append may raise with its record in the journal, the service goes on
and its cache and the journal part. `Agrees` says by how much: one record, which the
service may write after the one it knows (`Follows`), and never an attempt. Such a
record may cancel a delivery the cache still holds pending. That it is not shown all
the same is `Unshown`: a cancellation of this kind comes with a reason that bars the
notification from every later batch (`Barred`: acknowledged or closed, also in the
snapshot of the batch under way, older than the next activation, or the channel
is disabled), and no step lifts a bar (`StepBarred`). Without such appends cache and
journal are the same while a process is up, every write is `Legal` for the one and
hence for the other, and so is the journal for the next load. Each legal record is
an attempt, a retry, an end or a stutter of `DeliverOnce`, and a send is its show.

`JournalProofs`, for any windows, kills and failed writes: `TypeCorrect` (`TypeOK`)
and `JournalFailsClosed` (`FailsClosed`). `Shape` holds the types of the files and
the places of the steps; `Named` is the set of records the manifest names by
digest, and `Sealing` says that it always covers `sealed`: the only writes that
change what the manifest names are the rewrites of the manifest itself, and each
of these names at least as much as before. A file that is replaced or lost under
the manifest therefore fails its digest, and the read refuses. `LegacyFirst` says
that a v1 file still to be folded precedes every segment.

`JournalDurableProofs`, which extends it, proves `JournalReadable` (`Readable`),
`JournalBounded` (`OpenSegmentBounded`) and `JournalDurable`
(`ImplementsDurableLog`) under the hypothesis `Disciplined == Reloads /\ Windows = {}`:
the store reads again after a failed append and no fault falls in one of the windows of section 5,
each of which breaks one of these (a configuration per window shows it).
`Files` says where digests agree and which files have a partial line, `Knowing`
that what a store has in memory is what a reader of the files would find, so a
new record is the successor of the latest one (`Rising`: no version goes back
along the segments), and `Bounded` counts the interrupted appends. `Visible`,
the versions a reader finds, is the refinement mapping: `Moves` is its only change,
by one version of one item.

`ScreeningProofs`: `TypeCorrect` (`TypeOK`), `Loads` (`StateLoads`), `Sound`
(`CandidatesSound`) and `Confirmed` (`ConfirmedByPeriods`). The properties are about
`Loaded`, which no process holds: it is what a start would make of document and
journal. Whether it takes the document into account is itself read from the
files: `Disk` says that document and journal have no record before the journal's
manifest is there, that a preserved document says nothing of the stream, and
that a process which finds the marker has a preserved store. So a kill in the
preparation may change the kind of store only while there is nothing to read.
The invariant has two more parts. `Base` holds always. Whatever the cache or the
document knows is in the journal, and the goal of an observation is in the journal
and what is left to append (`Appended`); cache and goal validate; no transition has
the instant of an evaluation that is still to be recorded (`Unused`); what is kept
is of attempts that have ended (`Work`), so evidence that arrives changes nothing
that was said; and every candidate of document, journal, cache and goal has its
periods (`Confirming`), because the result is appended before the candidate. This
last is why `Confirmed` holds even where records were left behind. `InStep` holds as
long as none were. While a holder writes, `Stage` says how far the journal has come
from the cache to the goal and `Between` that what would be loaded is one of four
states on that way, each as sound as the two ends (`BetweenIsSound`). While a document
decides, nothing new is known of candidates and receipts before it is in the document
(`Known`), since a record with an identity of the document is one it has (`NamedStays`).
`CalmIn` is what `CandidatesSound` says of one state. That a recorded attempt keeps it
(`RecordCalm`) rests on `Unused`: a resolution at an instant that no other transition
of its candidate has is the last one (`ResolvedIsLast`). A user's move keeps it because
nothing follows "resolved" (`MoveIsSound`).

Only model-checked: the liveness properties (`EveryOperationEnds`, `EveryAttemptEnds`,
`DueJobsRun`, `EveryDeliverySettles`, `EveryCandidateTold`, `EveryAttemptScreened`,
`EveryRequestEnds`, `AvailabilityReturns`), since liveness under fairness and ENABLED are
beyond the prover. Where a theorem assumes `~TornWrites`, `MaxBacks = 0` or
`Disciplined`, nothing is claimed without that assumption; section 5 shows what happens.

## 7. Not modelled

Section 1 lists the parts; `PROJECT.json` gives the reason for each that has no
module. Most of the source by size is computation, parsing of filings, storage
schemas, presentation and operator-run maintenance (inventories, backups,
migrations, recoveries): sequential pipelines over data, whose correctness is
about content and which no other actor overlaps.

Inside the modelled parts: loss of power (only kills of the process, and of the
machine in `CutWindow`); the content of results, failures and invocations; the
v1 migration of failure categories; the freshness and health projections,
storage observability and tick observer of the scheduler; disabled job
definitions (a registry without the job has the same effect on what runs); an
observer that fails while the service starts; the separate pending sets of the
observer chain; two processes at once, which the lock file rules out. Of
screening: several streams, the rules' conditions, a document of the first version
that has records of the stream. Of notifications: rule selection, the toast of a
test, adapter probes, the journal's byte budget. Of the reads: the cache's
byte budget, its telemetry, invalidation by asset, the v1 raw store, document
contents, several queries at once. Of the cut: the checks of the preflight, the
monitor's resource limits, the content of the catch-up and of the delta, the
migration and the other lifecycle commands, releases of one format.
