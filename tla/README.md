# CCTV timeline viewer: a verification development

TLA+ modules that model the concurrent core of the CCTV timeline viewer, the
TLC configurations that check them on small instances, and proofs that TLAPS
checks for every instance. Paths below are relative to the repository; `ctv_server`
is the Python server, `ctv_web/js` the browser client. Every definition that
models code is listed in `PROJECT.json` with the lines it stands for.

    tlc -workers 2 -config PlaybackSafety.cfg MCPlayback
    tlapm PlaybackProofs.tla

## The system

The server indexes directories of camera recordings into SQLite and serves a
timeline, the recordings themselves (byte ranges) and compressed streams made by
ffmpeg. Request handlers that only need the event loop run on it as coroutines;
indexing runs in threads. The client shows a timeline of several cameras and
plays their recordings in step.

| Component | State | Operations | Talks to | What is hard | What makes it correct |
|---|---|---|---|---|---|
| Playback admission, `playback.py` | `leases`, `history`, `counters`, per lease `claimed`, `process`, `reason`, the flag `transport_started` | reserve, claim, attach, finish, cancel, expire_reservation, watch_process | transports, endpoints | cancel overtaking admission or spawn; four parties that finish one lease | a slot per running transcoder, each outcome counted once, cancelled ids stay dead |
| Transports, `streaming.py` | `_hls_jobs`, `_hls_lock`, job directories, generators | transcode_stream, ensure_hls_playlist, _expire_hls_job, cancel_hls_job, enforce_hls_budget, idle timers | admission, ffmpeg, disk | awaits inside a lock, directories removed under readers, unread pipes | no orphan process or directory, playlists only of live directories |
| Endpoints, `main.py` | none of their own | stream, playlist, segment and DELETE requests, byte ranges, security headers | the two above | clients that vanish | every request is answered |
| Index job guard, `operations.py` | active jobs, maintenance flag, generation | begin_index_job, end_index_job, maintenance_window | scans, rebuild, backup | a rebuild waits for jobs while others try to begin | the body of a rebuild runs alone |
| Partition slot, `index_queue.py` | running flag, number of waiters | enter (foreground or background), leave | scans | priority without starvation | one scan at a time |
| Partition scan, `partition_service.py` | rows of `partitions`, locks by camera and day | prepare_partitions, run_partition_scan, purge, thumbnails | guard, slot, indexer, database, events | a reservation, a slot, a guard and a row that must agree | reserved days are scanned, nothing is left scanning |
| Automatic scan, `autoscan.py` | attempt stamps | run_due_autoscans, recover_interrupted_scans | partition scan | competes with viewers | never stands in for a full scan |
| Indexer, `indexer.py`, `scanner.py` | rows of `recordings` | probe, reconcile | ffprobe, database | files that change while they are probed | rows agree with files |
| Whole-camera scan, `scan_service.py` | lock per camera | run_scan | indexer, guard | deletes and rebuilds meanwhile | one scan per camera |
| Live updates, `api/events.py` | bounded history, sequence, epoch, SSE listeners | emit, poll, stream | every scan; the client | history overflows between two polls | an event is delivered or a reset is reported |
| Client live updates, `app.js` | cursor, generation, timers, load sequence | poll loop, start/stop, refresh, loadTimeline | poll and timeline endpoints | answers out of order, aborted polls | the timeline shown becomes current |
| Native media cache, `native_media.py` | entries with pins, preparations, reserved bytes | acquire, release | byte ranges, ffmpeg | eviction while bytes are served | pinned copies stay, the limit holds |
| Derived work, `background.py` | bounded pending map, one thread | submit, worker loop | thumbnails | the thread ends while work arrives | accepted work runs or was displaced |
| Role cache, `auth.py` | roles by user with their age | resolve_admin | Home Assistant | stale roles when it is unavailable | an old role is not trusted |
| Backup, `backup.py` | snapshot files | create_snapshot, restore_snapshot | database | stops half way | old or new, never a mixture |
| Database, `db.py` | SQLite file, write lock | write_db, migrations, count triggers | everything | one writer at a time | counts agree with rows |
| Cameras, `api/cameras.py` | rows of `cameras` | create, update, delete | scans | source changed under a scan | no rows of a former source |
| Enrichment, `recording_events.py` | columns of `recordings` | enrich_partition | Home Assistant | configuration changed meanwhile | no events of a former mapping |
| Player: sources, `player.js` | a cell and a session per camera, pending releases | render, admit, release, pause, quality | admission endpoints | answers to superseded requests | no slot forgotten, no camera blank |
| Player: clock, `player.js` | the clock, the barrier, recovery, elements | tick, barrier, align, reconcile, watchdogs | media elements | late and missing media events | cameras stay in step, the clock moves |
| Recorder, `playback-trace.js` | batch, chains of writes, IndexedDB | start, stop, load, flush, export | the player | crashes and failed writes | what is stored is whole, failures visible |
| Timeline algorithms, `media.js`, `timeline.js` | none | segment search, gaps, geometry | player, timeline | boundaries | agrees with a linear search |

The rest (settings, search, models, translations, icons, packaging, scripts) has
no state machine of its own; `PROJECT.json` lists each part with its status and
`hazards` lists, line by line, what is hard to test.

## Modules

| Module | What it is |
|---|---|
| `Playback` | leases, transports and endpoints of compressed playback |
| `MCPlayback` | its instance for TLC (symmetry of sessions) |
| `PlaybackProofs` | its inductive invariant and the theorems that follow |
| `Indexing` | guard, slot, partition scans, preparation, automatic scan, rebuild, restart |
| `MCIndexing` | its instance for TLC (symmetry of requests) |
| `IndexingProofs` | its inductive invariant and the theorems that follow |
| `SessionLease` | the contract of a session id: admitted once, within the limit, over for good |
| `CompressedSource` | the page's cells, admissions and releases in front of a server that keeps the contract |
| `MCCompressedSource` | its instances for TLC |
| `CompressedSourceProofs` | its inductive invariant and the theorems that follow |
| `LiveUpdates` | event history and poll endpoint, the page's poll loop and its timeline loads |
| `MCLiveUpdates` | its instance for TLC (symmetry of days) |
| `LiveUpdatesProofs` | its inductive invariant and the theorems that follow |
| `PlaybackClock` | the player's single clock: tick, barrier, recovery, prefetch, drift, ends of recordings |
| `MCPlaybackClock` | its instances for TLC |
| `PlaybackClockProofs` | its inductive invariant and the theorems that follow |
| `PlaybackTrace` | the opt-in session recorder and its database (run without an MC module) |
| `PlaybackTraceProofs` | the order of the recorder, for any user, and what follows |
| `PlaybackTraceStoreProofs` | what it stores, until a session is begun over unsettled chunks |
| `SumTheorems` | sums over finite sets, for the proofs about the recorder |

Definitions commented "Mutant of X" are plausible bugs written next to the
definition they corrupt. No behaviour of a specification uses them; substituting
one for X must make the property it is paired with in `PROJECT.json` fail.

### Playback

One asyncio loop runs everything, so a step is the code between two awaits of
one task, and a task is a program counter per session: `mp4` for the streaming
response and its generator, `expiry` for `_expire_hls_job`, `waiter` for a
playlist request that polls for its first segments, `watching` for
`watch_process`, `canc[c][s]` for the two callers of `cancel_hls_job` (a DELETE
and the storage budget). `leases`, `claimed`, `reason`, `history` and `counters`
are the fields of the same names; `proc` is the operating system's process, with
the two ways it can be told to stop. `hlsLock` is `_hls_lock` held across the
spawn; the critical sections that do not await are single steps guarded by
`LockFree`. A session id is a fresh UUID, so an id has one lease. Time is not
modelled: a timer may fire whenever what it waits for holds. What a clock is
compared with is kept where it decides: a request for a complete job makes its
`expiry` "refreshed" (`Touch`, the playlist's or a segment's `last_access`), and
`_expire_hls_job` then waits for another ten minutes instead of removing the job
(`HlsTtlAgain`, the `continue` of streaming.py:343).

### Indexing

A thread per viewer's request (its HTTP handler and then its background task)
and one for the automatic scan; a step is what a thread does under one lock or
in one write transaction. `status` is the column of `partitions`, with "none"
for no row; `recorded` and `fresh` keep of recordings and of `last_scanned` only
what the guards read. `active`, `maintenance`, `generation` are the variables of
`operations.py`, `running` that of `index_queue.py`; the number of waiters and the
set of partition locks are functions of the program counters. The rebuild has
its own program counter through the maintenance window. A restart keeps the
database, forgets every thread and runs `recover_interrupted_scans`. A scan fails
with (`Fail`) or without its record: with the fault "record" the transaction that
records the failure raises too (partition_service.py:273), the code logs it, and
`FailUnrecorded` leaves the row as it stood with nobody at it. The history variable
`unrecorded` names the partitions left so, until their row changes; no guard of
the code reads it.

### SessionLease, and what composes through it

What a page may rely on when it names a session: `lease` maps an id to unknown,
held or over, `limit` is the limit in force; `Admit` takes an unknown id within
the limit, `End` makes any id over, and nothing leads back. `Playback` implements
it (`Contract`, an `INSTANCE` under the mapping `LeaseOf`: held while the lease
exists, over once an outcome or a tombstone is remembered); `CompressedSource`
uses its actions `Admit` and `End` as the server. So the page is checked against
everything a server that keeps the contract may do, and the server is shown (by
TLC and by `PlaybackImplementsLease`) to be such a server.

### CompressedSource

One record per displayed camera (`cell`: the recording, the id of the session
job, whether the element has a source, is marked failed, released or timed), the
loads of `loadCompressedSource` that are under way with the releases they wait
for, `pending` for `_pendingReleases`, and the requests of both kinds on their
way. A load belongs to a video generation in the code; since a fresh id is set
with every generation, the model compares ids. The user's actions are `Display`,
`Seek`, `ClockCrosses`, `ChangeQuality`, `Play`, `Stop`, `Hide`; `PauseTimer` is
the two-second release of a paused source, `AdmissionFails`, `ReleaseFails` and
`StreamError` are the faults, `Watchdog` the server's timers for a lost DELETE.
`Render` is `renderPlayers` for every displayed cell, in the order in which it
releases and loads, because that order is what `NeverRefusesItself` is about.

### LiveUpdates

The server and the page of one viewer behind Home Assistant's Ingress, where the
page polls. `log` is every event of one server process, of which the last
`HistoryLimit` are `_history`; `epoch` is `_epoch`, `cursor` is `liveCursor`. An
event is reduced to the version of the index that it announces, a timeline to the
version it was read at, so that "the page shows what the event announced" is a
comparison of numbers. A poll or a load in flight is a record: what it asked,
whether its generation or sequence number is still the last one, and its answer
once there is one. What the viewer does is `Hide`, `Show` and `OpenDay`; what the
network does is `PollFails`, `PollAborted`, `TimelineFails`; `Restart` loses the
history, the events that were not emitted and the requests in flight.

### PlaybackClock

The page is one thread, so its state is one record, `page`, and each function of
`player.js` an operator from a page to the page it leaves; an action is a whole
handler. `page.time` is `S.currentTime`, `page.barrier` is `_wasBuffering`,
`page.timed` and `page.late` stand for `_recoveryStarted` and its thirty seconds,
`page.tick` for a scheduled frame, `page.v[c]` for the element of a camera with
its dataset. `Tick` is `clockTick` with everything it calls in its order:
the expiry of a recovery, `checkVideoProgress`, native prefetch (`Warmed`), the
barrier's way out (`Align`, `Leave`), drift (`Synchronized`), the median of the
positions, and `reconcilePlaybackPosition` at the end of a recording. `Ticks` are
the pages that a tick may leave, with a recovery that is due or without. The media
element itself (`Metadata`, `DataArrives`, `Dries`, `Seeked`, `Playing`, `Advance`,
`Finishes`, `Stalls`, `Freezes`, `Error`, `PlayRejected`) is the environment: in
any order the element's own state allows. Whether bytes of a native download arrive
is part of its data ("fed" and "low" as opposed to "bare" and "dry"), because
`nativeDeliveryActive` spares such a source at the deadline of a recovery.

Positions are whole steps of the timeline, and an element moves at most one step
between two frames. Left out: the transport HLS, which the element plays by itself
and which has branches of its own in the barrier, in seeks and at the end of a
recording; playback rates other than one, the flow mode of `holdReadyNativeTarget`,
the dataset's `driftSeek` (never set to 1) and `buffering` (follows from the rest).

### PlaybackTrace

`page` is the memory of the recorder with the two values in localStorage, `store`
the two object stores, `page.db` the transactions of this page in the order in
which they were created: IndexedDB runs them in that order and each commits or
aborts as a whole. `page.writes` is the promise chain of chunks, `page.failed` is
`failedChunks`, `page.life` the queue of `start`, `stop` and `load`. `Reload` and
`Open` are a page that goes away at any point and comes back, `EventStorm` the
limit on events in a batch, and the fault of `ChunkWritten` a write that fails.
Samples and events are only counted. Left out: a second tab, and the version
change of the database. The user may start again at any time, also while chunks of a
recording that gave up are on their way, since `fail()` enables the toggle again. The
history variable `early` remembers that a session was begun so: from then on the
store is not what it should be (`playback_trace_replaced`), and what is claimed of
the store is claimed until then.


## Runs

| Run | Instance | What it shows |
|---|---|---|
| `playback_safety` | two sessions cancelled by their viewers, the limit moves between none and one | slots, counters, processes and directories agree in every state; the whole implements `SessionLease` |
| `playback_cancel` | one session, cancelled by its viewer, by the budget, or by nobody | cancellations return and are reported as such, processes end, slots are given back, and directories too unless their complete job is requested again and again |
| `indexing_safety` | two viewers, the automatic scan, a rebuild, a restart, failures that may stay unrecorded | rebuilds alone, one scan, none for a row that is gone, no scanning row without a scan but for an unrecorded failure, no reservation taken away by a scan of the current day that ends well |
| `indexing_liveness` | fair threads, rebuilds that complete, failures that may stay unrecorded, restarts | every reservation has a task and every opened day is scanned, but for an unrecorded failure; rebuilds return |
| `indexing_stuck_queue` | rebuilds that time out | finding: reserved for good |
| `live_safety` | two days, history of 1 event, every fault | one poll loop; never an older timeline, never a day that was left |
| `live_liveness` | fair network, one restart | what was announced is shown or on its way; every change reaches a page that stays visible |
| `compressed_source` | two cameras with a slot each, three ids, one fault | no slot is forgotten, no source without an admission, no blank camera, no refusal of the page by itself |
| `playback_clock` | a camera joins, both end, one goes on; native and progressive; one seek, reload or fault at any time, sources that may never deliver, play and stop at will | barriers have deadlines, the clock never goes back nor leaves the barrier misaligned, nobody is forgotten; the clock moves, but for the two hangs named below |
| `playback_clock_hangs` | two native cameras, one seek, reload or fault | finding: a leader held for a camera that is gone |
| `playback_trace` | two sessions of four samples, two faults | until a session is begun over unsettled chunks no sample is lost, the store and exports are whole; failures are visible, starts and stops end, always |
| `playback_trace_replaced` | two sessions, one failed write | finding: a chunk of the former session is stored with the new one |

Bounds. Two sessions are enough for every interaction of `Playback`: sessions
meet only in the limit, in `_hls_lock` and in the counters, and two suffice for
one to hold what the other waits for. The two callers of `cancel_hls_job` meet
in one session (`playback_cancel`); across two sessions the viewers' suffices.
`MaxRejected` stops a counter nothing reads. In `Indexing` two requests and the
automatic scan give three competitors for the slot, of which two wait; two
partitions give one that is today's and one that is not; `MaxGeneration` is the
number of rebuilds between two restarts, and two of them let a task be stale by
one and by two. The transactions of a scan after its probe (`"database"`) fail in
`indexing_liveness` only; the theorems are for any faults.
In `LiveUpdates` a history and a batch of one event make a gap out of two events
(`live_safety`) and two server processes give one restart (`live_liveness`); two
requests of a kind in flight give one that is superseded. `AnnouncedShown` across
gaps within one process needs more events than liveness can be checked with; the
theorem covers them. In `CompressedSource` three ids let two cells be opened and
one of them superseded; a gap makes a cell appear and disappear. In
`PlaybackClock` two cameras are what the barrier and the drift compare, and the
timeline of `playback_clock` has an overlap, a common end and a gap. `MaxActs`
counts seeks and reloads only: playing and stopping, which includes playing again
what has failed or ended, is not bounded, and neither are sources that never
deliver or cease to. `MaxTogether` allows one seek, reload or fault in a behaviour:
it meets a page that plays, waits behind the barrier or is stopped, but with one of
each the graph is too large to be checked for liveness. A tolerance, a tail and a
spread of zero make every difference count; what they leave out is the median moving
back within the spread, and streams left alone near their end. In
`PlaybackTrace` a backlog of three makes the recorder give up with writes queued,
and two faults a failure while it resumes from another. In `CompressedSource` a
stream that is opened anew at the same quality while it plays
(`restartProgressiveVideo`, a forced reload) is not an action of the page.

Deadlock is checked except where the environment is one that may legitimately
stop: a clock that is paused or at the end of the timeline, a recorder whose
session is stopped and exported.

Three runs look for a behaviour that a document or comment rules out, and find it;
`PROJECT.json` quotes the line under "findings":

* `indexing_stuck_queue`: a rebuild that times out leaves reserved days reserved
  until the next restart or rebuild;
* `playback_clock_hangs`: a leader that was held back for a camera that then fails
  or ends is never let go;
* `playback_trace_replaced`: started again before the chunks of a recording that
  gave up have settled, the recorder stores a chunk of the former session with the
  new one.

`ClockMoves`, which holds, says that the clock hangs in two ways only: `HeldAlone`
is the state of `playback_clock_hangs`, `EndsAgain` that of `EndsMoveOn` below.

### Known divergences without a run of their own

These properties are stated in their modules, are not checked by a run, and are
violated in the instances given here:

* `TranscodersWithinLimit` (`Playback`, the constants of `playback_safety` with
  `Limits = {1}`): a DELETE between the claim of an MP4 session and the start of
  its generator frees the slot, and ffmpeg is still spawned and stopped only by
  the refused attach. playback.py:4 says "Reservations count against capacity
  before subprocess creation".
* `OpeningReserves` (`Indexing`, one partition that is today's, one request,
  `MaxGeneration = 0`, no faults): a day opened while an automatic scan holds its
  lock without the status background is not reserved for the full scan.
  README.md:152 says "Opening a day retains the normal full reconciliation".
* `AttemptsEnd` (`Indexing`, fair, one partition that is today's, one request,
  `MaxGeneration = 0`, `Faults = {"record"}`): an automatic scan fails and so does
  the transaction that should record it (partition_service.py:270-274), which is only
  logged; the row stays in the status background with nobody at it, and
  `run_due_autoscans` skips it from then on (autoscan.py:47). README.md:134 says
  "Attempts that fail, including an offline NAS, also wait the configured interval
  before retry".
* `NeverRefusesItself` (`CompressedSource`, the constants of `compressed_source` with
  `Gaps <- InTurns`, `Limit = 1`, `MaxFaults = 0`): `renderPlayers` starts the load
  of one cell before it releases the cells after it, and a load waits only for the
  releases pending when it starts, so with two cameras that recorded in turns and one
  slot the admission overtakes the release and is refused. player.js:237 says "Wait
  for superseded sources to release their slots before admission." (With a slot per
  camera the property holds: `compressed_source` and the theorem.)
* `EndsMoveOn` (`PlaybackClock`, fair, the constants of `playback_clock_hangs` with
  `MaxFaults = 0`): played again where the timeline ended, or sought back within a
  native recording that has ended, the player ignores the end of the recording, since
  its cell still counts it as left (player.js:749; only 406 and 568 reset it), and
  neither moves nor stops. player.js:742 says "Video ended → move the single global
  clock past the segment boundary".
* `BackgroundYields` (`Indexing`, two partitions of today, two requests,
  `MaxGeneration = 0`, no faults): an automatic scan that ends with missing or
  error erases the reservation made meanwhile, so the next one does not see it.
  README.md:153 says "Interactive partition requests take priority over the next
  background job".


## Fairness

`Playback`: every task of the event loop that can take its next step does; a
process that was signalled ends, since SIGKILL follows after two seconds; a
process whose output is taken ends by itself, and one whose output is not taken
blocks on its pipe until the idle timer fires, which is why exit and timers are
fair together. Nothing is assumed of clients: they may never disconnect or cancel,
and may request a complete job for ever, which keeps it. `Indexing`: a thread that
can go on does; a probe returns or fails because every subprocess has a timeout.
Nothing is assumed of viewers, the administrator or the schedule, and weak
fairness is enough for the slot because the automatic scan never waits for it.
`LiveUpdates`: a scan that committed emits, timers fire, requests end. Polls may
fail, and polls and loads be superseded, any number of times, as long as again and
again one gets through (strong fairness): a network that fails every poll, or a
viewer who changes the day faster than any answer, is not a case in which the code
promises anything. In `live_liveness` a load that is not superseded is answered: a
load that fails is not tried again before the next event, so `Faults` is empty
there. `PlaybackClock`: frames are drawn, timers fire, an element that has its
data starts, decodes and ends sooner or later, and a native download of which bytes
arrive ends its seek and has enough of them, or ceases. Nothing else is owed:
metadata, sessions, data and other seeks may never come, which is what the thirty
seconds of a recovery are for, and stalls, frozen decoders, errors and refusals owe
nothing. Its weak fairness is written out with
the states in which each action is enabled. `PlaybackTrace`: promises and
transactions settle; nothing is assumed of the user, of timers or of faults.
`CompressedSource` has safety properties only: whether a release arrives is up to
a network of which nothing is assumed.

## Proofs

`PlaybackProofs` proves `Spec => []IInv` from `PlaybackAssumption` (limits are
natural numbers, the lock's free value is not a session), for any number of
sessions, any limits and any subset of the cancellers. The
invariants of `playback_safety` are conjuncts of `IInv`. None of the safety properties is inductive
alone: that a job's playlist has its directory depends on which canceller popped
the job (`CancellersOwn`), that a spawn under the lock is undisturbed depends on
its session having no other task (`SpawnExclusive`), and both on no task
preceding the claim of its lease (`TasksFollowClaim`). Conservation needs the set
of leases to be finite, which is an invariant and not an assumption: an
admission adds one session at a time.

The proof that a step preserves `IInv` has three parts: types (one lemma per
family of actions); the set of leases with the counters, for which every action
is reduced by `StepEffect` to one of five effects (nothing, an admission, an
outcome, a tombstone, a rejection); and everything about tasks, which is a
conjunction over sessions: the session that steps is argued action by action
(`LeaseStepOwn`, `Mp4StepOwn`, `HlsStepOwn`, `CancelStepOwn`), the others are
untouched (`...Others`), and `SessionStep` puts them together.

Theorems: `PlaybackInvariant`, `PlaybackTypeOK`, `PlaybackConservation`,
`PlaybackNoResurrection`, `PlaybackTranscoderHoldsSlot`, `PlaybackPlaylistBacked`,
`PlaybackSpawnUndisturbed`, `PlaybackCompletedIsComplete`, the action properties
`PlaybackAdmissionWithinLimit` and `PlaybackSpawnKeepsSlot`, and
`PlaybackImplementsLease`; `PlaybackNoLeftoverDirectory` (a directory belongs to the
spawn under the lock, to a registered job, or to the canceller that popped the job)
and `PlaybackHlsCancelReported` (who stops the process of a session has recorded the
reason before the watcher can see its exit).

Refinement. `PlaybackImplementsLease` proves `Spec => Contract!Spec` for any
sessions and limits. Initial states map to initial states because nothing is
remembered. Every step either changes only the limit (`LimitStep`) or has one of
the effects of `StepEffect`: one that enters is `Admit` (`EntersAdmits`; the set
of held ids is `leases`, so `HasRoom` is the same condition), one that remembers
an outcome, a tombstone included, is `End` or no step if the id was over
(`EndingEnds`), any other leaves the map alone (`KeepsImplements`).

`LiveUpdatesProofs` proves `Spec => []IInv` from `LiveUpdatesAssumption`, for any
days, limits and bounds. `AnnouncedShown` is what matters and is far from
inductive: that a batch without news is really one that announces nothing needs
`BatchComplete` (what lies between the cursor a poll was sent with and the one it
returns), which needs that the poll was sent with the cursor the page still has
(`NextBatch`), which needs one poll at a time (`PollLoop`); that a change is shown
when its refresh is answered needs that answers are not older than the events
(`PastAnswers`) and that the load is the last one, of the selected day
(`LastLoad`). A first poll announces nothing at all, so the page must not have
asked for a timeline before it (`PollsFirst`), which is why the theorem assumes
the environment without faults; the others hold with every fault. Theorems:
`LiveUpdatesInvariant`, `LiveUpdatesTypeOK`, `LiveUpdatesOneLoop`,
`LiveUpdatesNextBatch`, `LiveUpdatesAnnouncedShown`, `LiveUpdatesNeverOlder` (an
action property).

`IndexingProofs` proves `Spec => []IInv` from `IndexingAssumption`, for any number
of partitions and requests, rebuilds and faults. `RebuildAlone` needs that the
counter of active jobs is the number of threads inside the guard (`JobsCounted`)
and that the window is open exactly while a rebuild is in it (`RebuildInWindow`);
`ScanHasRow` needs that what was prepared before a rebuild is behind the generation
(`GenerationsPast`), so that a stale thread turns back before it touches a row;
`OneScan` follows from the holder of the slot being the only thread behind it
(`SlotHeld`). That every reserved partition has a task (`ReservationsKept`) holds
while rebuilds complete, and the theorem says so: with the fault `rebuild` it is the
finding of `indexing_stuck_queue`. It and `ShownScansRun` except the partitions in
`unrecorded`, whose rows `FailUnrecorded` leaves as they stood. Theorems:
`IndexingInvariant`, `IndexingTypes`,
`RebuildRunsAlone`, `ScansSerialised`, `ScansKeepTheirRow`, `ShownScansRun`,
`ReservedPartitionsHaveTasks`.

`CompressedSourceProofs` proves `Spec => []IInv` from `CompressedSourceAssumption`,
for any cameras, recordings, limits and faults. `NoOrphan` says that a session that
holds a slot is in use, or has a DELETE under way, or was given up by the page; it
rests on `Accounted` (each created session is in use, has a tracked release, or is
owed nothing) and on ids that are numbered as they are created, so that an answer
that comes late belongs to no other source. `NeverRefusesItself` is the strongest
of them: it needs that the cameras take turns with their sessions
(`CamerasTakeTurns`: there is an assignment of sessions to cameras such that a
later session of a camera is sent only when the earlier ones are over or given up),
from which the sessions that hold a slot are mapped into the cameras one to one,
and an admission that is refused would need more slots than cameras. Theorems:
`CompressedSourceInvariant`, `CompressedSourceTypes`, `NoSlotForgotten`,
`SourcesAreAdmitted`, `CamerasAreServed`, `PausedSourcesAreTimed`,
`PageNeverRefusesItself`.

The recorder is proved in two layers. `PlaybackTraceProofs` proves for any user
(`RecorderOrderly`) that each transaction has one that waits for it and that
operations queue only behind those that may precede them; with it
`FailuresAreVisible`. `PlaybackTraceStoreProofs` proves
`Spec => [](early \/ IInv)`, and with it `StoreIsWhole`, `SamplesAreKept` and
`ExportsAreWhole`, whose properties say the same of themselves, and
`RecordingReplaces` and `RecorderTypes`, which say it in the theorem: once a session
was begun over unsettled chunks they are false, as `playback_trace_replaced` shows.
No user is assumed: that no session was begun so is the hypothesis of the lemmas, and
the one about beginning a session (`StartSound`) is where it is needed. The invariant says that the queues of the page
follow on from what the stored description tells: the chunks that are being written
have consecutive numbers and counts (`Consecutive`), a page that resumes finds a
session that was neither stopped nor failed (`Resumable`), and an export in two
stages finds what its header counts in the store, in the writes it waits for, or
kept aside (`Deliverable`). Numbers of samples are sums over sets, written with the
folds of the community modules; `SumTheorems` shows that such a fold is the
cardinality of a set of units, to which the library's theorems apply, so that a
chunk that moves from a queue into the store moves its samples with it. The
bound `MaxSamples` of the model is at least one because a recording that resumes
after a reload takes a sample.

`PlaybackClockProofs` proves `Spec => []ClockInv` from `PlaybackClockAssumption`
(cameras and a timeline that are finite and not empty; recordings that end after
they begin; a spread of at least twice the tolerance, since `playbackSpreadLimit()`,
player.js:917, is never less), for any number of cameras, any such tolerances and
any faults. A step of
the page is a whole handler, up to `clockTick` with all it calls, so the proof
follows the calls: each operator from a page to a page has a lemma about what it
leaves behind (`EnterBarrierSound`, `RenderSound`, `ReconcileSound`, ...), and the
lemma of a handler cites those of what it calls. `BarrierTimed` is not inductive: it
asks for a deadline only while a source is playable, and playable sources come back
(a reload, a recording that begins), so `ClockInv` says that every barrier has its
deadline and stands only on a playing page. That the clock stays on the timeline
needs `CellSound`: a source that moves has a recording, within which it moves.

`BarriersAreLeftAligned` is about one step that does everything: expire the recovery,
look after frozen decoders, warm, judge, leave the barrier, move the clock and show
the recordings at its new time. Two relations between pages carry it. `Steady` says
that nothing got data or another recording and that the clock and the barrier stood
still (all that happens before the judgement), built from `Follows` for one cell: a
source that is ready now was ready before, at the same position. So what the judge
finds ready and aligned was so when the tick began. And `Leaving` is shown to be
possible for a tick only, or for the reload of a page on which nothing is playable
(`NextSound`). Two handlers go through the cameras one after the other in whatever
order the set has, as folds; `FoldExists`, `FoldUnique` and `FoldStays` show by
well-founded induction over the subsets of a finite set that such a fold exists and
stays where its steps lead.

`NobodyForgotten` proves `NoneForgotten` while the page plays streams, of any number
of cameras, and for native files of at most two cameras. A source that is paused with
its data at hand is looked after by `checkVideoProgress` only once it has played, so
the proof has to show that a source that never played is either still asked to
(`strict`, whose rejection raises the barrier again) or behind the barrier. That is
`Begun`, the third part of `StartInv`, and the synchronization of native files is what
could break it: it holds leaders back, and lets them go with a `play()` whose
rejection nothing recovers from. `NotLeading` shows that of two sources one that has
not started is never a leader. The barrier leaves each within the tolerance of the
clock, hence both within twice the tolerance, hence within the spread (`LeaveFits`),
and from there only the one that has started gets ahead. For this the two must have
had the same target when the barrier was left: `Shown` says that the cells show what
was recorded at the clock's time, except at the end of the timeline, where the clock
stays. `HeldFit` says that a source is held only on a running native page with the
barrier down. `StartInv` is inductive on top of `ClockInv`: one lemma per action
(`PlayFits`, `SeekFits`, `ErrorFits`, ...) and one per function of a tick
(`SynchronizedFits`, `AdvancedFits`, `ReconcileFits`, ...). Theorems:
`ClockInvariant`, `ClockTypes`, `BarriersAreTimed`, `BarriersAreLeftAligned`,
`StartInvariant`, `NobodyForgotten`.

Only model-checked: the liveness properties (the prover has no rule for fairness
here), `ENABLED`, and `NoRewind` of `PlaybackClock`, which needs a bound on how far
the ends of several recordings take the clock ahead of its sources between two
frames; it depends on how positions advance between frames and is not in the
invariants. `NoneForgotten` is neither proved nor checked by a run for three or more
native cameras: a third one that is behind can make a leader of a source that has not
started, so `Begun` as it stands does not hold there, and the model's median is that
of two positions.

The reverse also occurs: the types of `CompressedSource`, `NoResurrection`,
`SpawnUndisturbed`, `CompletedIsComplete`, `SpawnKeepsSlot`, `AdmissionWithinLimit`
and `NextBatch` of `Playback` and `LiveUpdates` and `ReplacesPrevious` of
`PlaybackTrace` are proved for every instance and not repeated by a run.

## Not modelled, and why

* Bytes: MP4 boxes, ranges, playlists' text, command lines, thumbnails' pixels.
* Hidden state of the browser: a media element is the events it may send.
* Time: ages and timeouts are nondeterministic, so no property is about how long
  something takes.
* Shutdown (`lifecycle.stopping`): it ends each loop at once and then the process;
  a crash is the `Restart` of `Indexing`, where something survives it.
* Memory of outcomes beyond the 256 that `playback.history` keeps.
* Refreshes of the timeline that fail after their event was dispatched, where
  liveness is claimed (the code leaves the repetition to the user).
* An idle timer's stop of an HLS process that the watcher sees before the reason is
  recorded: `HlsCancelReported` is about cancels.
* Which outcome an MP4 session gets when its generator and a cancel finish it at the
  same time: nothing documents it.
* HLS in the clock, audio, drawing and zooming of the timeline, event playback, the
  hotspot and the pages of settings: presentation, or planned below.
* Security headers, path checks, authentication of requests: not state machines.

## Plan

1. Done: `Playback` with its proofs, `Indexing`, `LiveUpdates` with its proofs,
   `SessionLease` with the proof that `Playback` implements it, `CompressedSource`,
   `PlaybackClock`, `PlaybackTrace`; the proofs of the safety properties of all of
   these but `NoRewind` of `PlaybackClock`.
2. Next modules, in order:
   * proofs: `NoRewind`, with a bound on the ends of recordings between two frames;
     `NoneForgotten` for three or more native cameras, where the median of the code
     has to be modelled exactly first;
   * `NativeMediaCache` (pins, eviction, reserved space, preparations) and
     `DerivedWorker` (bounded pending work, one thread), each with proofs;
   * `RoleCache` (the two ages of a role);
   * `Cameras`: a camera's update and delete against its scans, and `ScanService`,
     composed with the guard of `Indexing`;
   * `Indexer`: the reconciliation of rows with files and the count triggers;
   * `Backup`: snapshot and restore with a crash between any two steps;
   * event playback and the hotspot, which drive the player from events;
   * the SSE transport of events, `VideoFileResponse`, the segment search against a
     linear reference, `patch_chunk`, the enrichment.
3. Abstract specifications: a work queue with at-most-once execution, implemented
   by `Indexing`; the recorder as an append-only log with crashes.
4. Theorems: those above.
