------------------------------ MODULE Playback ------------------------------
(***************************************************************************)
(* Admission and life cycle of compressed playback sessions: the leases of *)
(* ctv_server/playback.py, the two transports of ctv_server/streaming.py   *)
(* that spawn an ffmpeg process for a lease (a fragmented MP4 response and *)
(* an HLS job), and the endpoints of ctv_server/main.py that drive them.   *)
(*                                                                         *)
(* Everything runs on one asyncio event loop, so a step of this module is  *)
(* the code between two awaits of one task.  A task is a program counter   *)
(* per session: the MP4 response (mp4), the HLS expiry task (expiry), the  *)
(* playlist request that waits for segments (waiter), the process watcher  *)
(* (watching) and the two callers of cancel_hls_job (canc).  Time is not   *)
(* modelled: a timer may fire whenever the condition it watches holds.     *)
(*                                                                         *)
(* A session id is a fresh UUID, so one Lease object per id is modelled,   *)
(* and the 256 remembered outcomes are taken to cover all of Sessions.     *)
(*                                                                         *)
(* Definitions commented as a mutant are plausible bugs: no behaviour of   *)
(* the specification uses them, the properties are tested against them.    *)
(***************************************************************************)
EXTENDS Naturals, FiniteSets

CONSTANTS
  Sessions,     (* session ids that clients use                             *)
  NoSession,    (* not a session: the value of a free _hls_lock             *)
  Limits,       (* the values an administrator gives max_transcoders        *)
  MaxRejected,  (* bound on the counter of rejected admissions              *)
  Cancellers    (* the callers of cancel_hls_job: the DELETE endpoints and  *)
                (* enforce_hls_budget                                       *)

ASSUME PlaybackAssumption ==
  /\ NoSession \notin Sessions
  /\ Limits \subseteq Nat
  /\ MaxRejected \in Nat
  /\ Cancellers \subseteq {"delete", "budget"}

VARIABLES
  limit,        (* playback_settings.max_transcoders; 0 is unlimited        *)
  leases,       (* the ids in playback.leases: the occupied slots           *)
  sig,          (* Lease.signature, reduced to the transport it names       *)
  claimed,      (* sessions whose lease is claimed by a transport           *)
  reason,       (* Lease.reason as cancel() set it                          *)
  history,      (* playback.history                                         *)
  counters,     (* playback.counters                                        *)
  proc,         (* the ffmpeg process of the session: Lease.process         *)
  watching,     (* sessions with a watch_process task                       *)
  mp4,          (* PlaybackStreamingResponse and its transcode_stream       *)
  hlsLock,      (* the session whose ensure_hls_playlist holds _hls_lock    *)
  jobs,         (* the ids in streaming._hls_jobs                           *)
  jobCancelled, (* sessions whose HlsJob.cancelled is set                   *)
  dirs,         (* sessions whose HLS output directory exists               *)
  expiry,       (* _expire_hls_job tasks                                    *)
  waiter,       (* playlist requests polling for their first segments       *)
  canc,         (* cancel_hls_job, per caller and session                   *)
  owns          (* callers of cancel_hls_job that popped the HlsJob         *)

leaseVars == <<leases, sig, claimed, reason, history, counters>>
hlsVars   == <<hlsLock, jobs, jobCancelled, dirs, expiry, waiter>>
cancVars  == <<canc, owns>>
vars == <<limit, leaseVars, proc, watching, mp4, hlsVars, cancVars>>

Transports == {"mp4", "hls"}
Reasons == {"", "cancelled", "storage_limit", "idle", "start_failed", "start_timeout",
            "closed", "disconnected", "session_expired", "encoding"}
FinalStates == {"completed", "cancelled", "failed"}
CounterNames == FinalStates \cup {"admitted", "rejected", "peak_active"}

\* "stopping": terminate() was sent and stop_process polls for the exit.
\* "signalled": it died of that signal; "error": it failed by itself.
ProcStates == {"none", "running", "stopping", "exit0", "error", "signalled"}
Mp4States == {"none", "claimed", "spawning", "refused", "streaming", "closing", "ended"}
\* "ttl": a complete job is served; "refreshed": and was requested since the task
\* last computed how long to sleep from last_access.
ExpiryStates == {"none", "watch", "idleStop", "collect", "ttl", "refreshed"}
WaiterStates == {"none", "waiting", "stopping"}
CancelStates == {"idle", "waitSpawn", "stopping", "cleanup"}

CancelReason(c) == IF c = "delete" THEN "cancelled" ELSE "storage_limit"

NotRemembered == [state |-> "none", reason |-> ""]
Outcomes == [state : FinalStates \cup {"none"}, reason : Reasons]

Live(s) == proc[s] \in {"running", "stopping"}
InHistory(s) == history[s].state # "none"
InFlight(s) == mp4[s] = "spawning"   \* lease.spawning and lease.process is None
LockFree == hlsLock = NoSession
Active == {s \in leases : Live(s)}

TypeOK ==
  /\ limit \in Nat
  /\ leases \subseteq Sessions
  /\ sig \in [Sessions -> Transports \cup {"none"}]
  /\ claimed \subseteq Sessions
  /\ reason \in [Sessions -> Reasons]
  /\ history \in [Sessions -> Outcomes]
  /\ counters \in [CounterNames -> Nat]
  /\ proc \in [Sessions -> ProcStates]
  /\ watching \subseteq Sessions
  /\ mp4 \in [Sessions -> Mp4States]
  /\ hlsLock \in Sessions \cup {NoSession}
  /\ jobs \subseteq Sessions
  /\ jobCancelled \subseteq Sessions
  /\ dirs \subseteq Sessions
  /\ expiry \in [Sessions -> ExpiryStates]
  /\ waiter \in [Sessions -> WaiterStates]
  /\ canc \in [Cancellers -> [Sessions -> CancelStates]]
  /\ owns \in [Cancellers -> SUBSET Sessions]

Init ==
  /\ limit \in Limits
  /\ leases = {}
  /\ sig = [s \in Sessions |-> "none"]
  /\ claimed = {}
  /\ reason = [s \in Sessions |-> ""]
  /\ history = [s \in Sessions |-> NotRemembered]
  /\ counters = [c \in CounterNames |-> 0]
  /\ proc = [s \in Sessions |-> "none"]
  /\ watching = {}
  /\ mp4 = [s \in Sessions |-> "none"]
  /\ hlsLock = NoSession
  /\ jobs = {}
  /\ jobCancelled = {}
  /\ dirs = {}
  /\ expiry = [s \in Sessions |-> "none"]
  /\ waiter = [s \in Sessions |-> "none"]
  /\ canc = [c \in Cancellers |-> [s \in Sessions |-> "idle"]]
  /\ owns = [c \in Cancellers |-> {}]

-----------------------------------------------------------------------------
(* playback.py: leases *)

\* remember(): the outcome the session-status endpoint reports from now on.
Remember(s, state, why) ==
  history' = [history EXCEPT ![s] = [state |-> state, reason |-> why]]

\* Mutant of Finish: it does not ask whether the lease still occupies its slot.
FinishTwice(s, state, why) ==
  /\ leases' = leases \ {s}
  /\ counters' = [counters EXCEPT ![state] = @ + 1]
  /\ Remember(s, state, why)

\* finish(): only the lease that still occupies the slot leaves it.
Finish(s, state, why) ==
  \/ /\ s \in leases
     /\ leases' = leases \ {s}
     /\ counters' = [counters EXCEPT ![state] = @ + 1]
     /\ Remember(s, state, why)
  \/ /\ s \notin leases
     /\ UNCHANGED <<leases, counters, history>>

\* cancel() of a session without a lease: a DELETE can overtake the admission,
\* so the id is remembered as cancelled and never admitted.
Tombstone(s, why) ==
  \/ /\ ~InHistory(s) \/ why = "storage_limit"
     /\ Remember(s, "cancelled", why)
     /\ UNCHANGED <<leases, counters, reason>>
  \/ /\ InHistory(s) /\ why # "storage_limit"
     /\ UNCHANGED <<leases, counters, reason, history>>

\* cancel() when it does not have to wait: no spawn in flight, no live process.
Release(s, why) ==
  \/ /\ s \in leases
     /\ reason' = [reason EXCEPT ![s] = why]
     /\ Finish(s, "cancelled", why)
  \/ /\ s \notin leases
     /\ Tombstone(s, why)

\* Mutant of StopProcess: terminate() is forgotten and the exit only awaited.
StopProcessWaits(s) == proc' = [proc EXCEPT ![s] = @]

\* stop_process() up to its first sleep: terminate() unless it has exited.
StopProcess(s) ==
  proc' = IF proc[s] = "running" THEN [proc EXCEPT ![s] = "stopping"] ELSE proc

HasRoom == limit = 0 \/ Cardinality(leases) < limit

\* Mutant of Unknown: the remembered outcomes are not consulted.
UnknownLease(s) == s \notin leases

\* reserve() finds neither a lease nor a remembered outcome under this id.
Unknown(s) == s \notin leases /\ ~InHistory(s)

\* reserve(): a new lease takes a slot, an existing one with this signature is
\* returned; session_changed, session_expired and capacity are refusals.
Reserve(s, g) ==
  \/ /\ Unknown(s) /\ HasRoom
     /\ leases' = leases \cup {s}
     /\ sig' = [sig EXCEPT ![s] = g]
     /\ counters' = [counters EXCEPT !["admitted"] = @ + 1]
  \/ /\ s \in leases /\ sig[s] = g
     /\ UNCHANGED <<leases, sig, counters>>

\* claim(): session_in_use when a transport has claimed the lease already.
Claim(s, g) ==
  /\ Reserve(s, g)
  /\ s \notin claimed
  /\ claimed' = claimed \cup {s}
  /\ UNCHANGED <<reason, history>>

\* attach() of a process to a lease that is still wanted.
Attach(s) ==
  /\ proc' = [proc EXCEPT ![s] = "running"]
  /\ counters' = [counters EXCEPT !["peak_active"] =
                    IF @ > Cardinality(Active) + 1 THEN @ ELSE Cardinality(Active) + 1]
  /\ watching' = watching \cup {s}
  /\ UNCHANGED <<leases, sig, claimed, reason, history>>

\* POST /api/playback-sessions.
Admit(s, g) ==
  /\ Reserve(s, g)
  /\ UNCHANGED <<limit, claimed, reason, history, proc, watching, mp4, hlsVars, cancVars>>

\* reserve() refuses a new session at capacity, whichever endpoint called it.
RejectAtCapacity(s) ==
  /\ Unknown(s) /\ ~HasRoom
  /\ counters["rejected"] < MaxRejected
  /\ counters' = [counters EXCEPT !["rejected"] = @ + 1]
  /\ UNCHANGED <<limit, leases, sig, claimed, reason, history, proc, watching, mp4,
                 hlsVars, cancVars>>

\* expire_reservation(): thirty seconds passed and nobody claimed the lease.
ExpireReservation(s) ==
  /\ s \in leases /\ s \notin claimed
  /\ Finish(s, "cancelled", "session_expired")
  /\ UNCHANGED <<limit, sig, claimed, reason, proc, watching, mp4, hlsVars, cancVars>>

\* Mutant of WatchProcess: the reason of a cancellation is ignored.
WatchProcessByExit(s) ==
  /\ s \in watching /\ ~Live(s)
  /\ watching' = watching \ {s}
  /\ \/ proc[s] = "exit0" /\ Finish(s, "completed", "")
     \/ proc[s] # "exit0" /\ Finish(s, "failed", "encoding")
  /\ UNCHANGED <<limit, sig, claimed, reason, proc, mp4, hlsVars, cancVars>>

\* watch_process(): the process has exited, its slot is free even when the
\* browser still reads buffered video.
WatchProcess(s) ==
  /\ s \in watching /\ ~Live(s)
  /\ watching' = watching \ {s}
  /\ \/ reason[s] # "" /\ Finish(s, "cancelled", reason[s])
     \/ reason[s] = "" /\ proc[s] = "exit0" /\ Finish(s, "completed", "")
     \/ reason[s] = "" /\ proc[s] # "exit0" /\ Finish(s, "failed", "encoding")
  /\ UNCHANGED <<limit, sig, claimed, reason, proc, mp4, hlsVars, cancVars>>

\* PUT /api/admin/playback-settings applies to new admissions only.
SetLimit(n) ==
  /\ n # limit
  /\ limit' = n
  /\ UNCHANGED <<leaseVars, proc, watching, mp4, hlsVars, cancVars>>

\* The operating system: a process ends by itself or of the signal sent to it,
\* which it may also outrun.
ProcessExit(s) ==
  /\ \/ proc[s] = "running" /\ \E x \in {"exit0", "error"} : proc' = [proc EXCEPT ![s] = x]
     \/ proc[s] = "stopping" /\ \E x \in {"exit0", "signalled"} : proc' = [proc EXCEPT ![s] = x]
  /\ UNCHANGED <<limit, leaseVars, watching, mp4, hlsVars, cancVars>>

-----------------------------------------------------------------------------
(* The MP4 transport: GET /stream/{recording_id} *)

\* serve_transcoded_video claims the lease and returns the response; its
\* generator has not been entered yet.
StreamRequest(s) ==
  /\ Claim(s, "mp4")
  /\ mp4' = [mp4 EXCEPT ![s] = "claimed"]
  /\ UNCHANGED <<limit, proc, watching, hlsVars, cancVars>>

\* transcode_stream is entered: lease.spawning is set and the process created,
\* whatever became of the lease since it was claimed.
GeneratorStart(s) ==
  /\ mp4[s] = "claimed"
  /\ mp4' = [mp4 EXCEPT ![s] = "spawning"]
  /\ UNCHANGED <<limit, leaseVars, proc, watching, hlsVars, cancVars>>

\* Mutant of Wanted: attach() does not look at the lease again.
WantedAlways(s) == s \in Sessions

Wanted(s) == s \in leases /\ reason[s] = ""

Mp4Attached(s) ==
  /\ InFlight(s) /\ Wanted(s)
  /\ Attach(s)
  /\ mp4' = [mp4 EXCEPT ![s] = "streaming"]
  /\ UNCHANGED <<limit, hlsVars, cancVars>>

\* attach() of a process whose session was cancelled meanwhile: it is stopped.
Mp4AttachRefused(s) ==
  /\ InFlight(s) /\ ~Wanted(s)
  /\ proc' = [proc EXCEPT ![s] = "stopping"]
  /\ mp4' = [mp4 EXCEPT ![s] = "refused"]
  /\ UNCHANGED <<limit, leaseVars, watching, hlsVars, cancVars>>

Mp4RefusedStopped(s) ==
  /\ mp4[s] = "refused" /\ ~Live(s)
  /\ Finish(s, "cancelled", IF reason[s] # "" THEN reason[s] ELSE "session_expired")
  /\ mp4' = [mp4 EXCEPT ![s] = "ended"]
  /\ UNCHANGED <<limit, sig, claimed, reason, proc, watching, hlsVars, cancVars>>

\* create_subprocess_exec raises: the finally block sets lease.spawned.
Mp4SpawnFails(s) ==
  /\ InFlight(s)
  /\ mp4' = [mp4 EXCEPT ![s] = "closing"]
  /\ UNCHANGED <<limit, leaseVars, proc, watching, hlsVars, cancVars>>

\* _stop_idle_transcode(): no chunk was delivered for the idle timeout.
Mp4Idle(s) ==
  /\ mp4[s] = "streaming" /\ proc[s] = "running"
  /\ StopProcess(s)
  /\ UNCHANGED <<limit, leaseVars, watching, mp4, hlsVars, cancVars>>

\* The generator reads the end of stdout and reports by the exit status alone.
Mp4End(s) ==
  /\ mp4[s] = "streaming" /\ ~Live(s)
  /\ \/ proc[s] = "exit0" /\ Finish(s, "completed", "")
     \/ proc[s] # "exit0" /\ Finish(s, "failed", "encoding")
  /\ mp4' = [mp4 EXCEPT ![s] = "ended"]
  /\ UNCHANGED <<limit, sig, claimed, reason, proc, watching, hlsVars, cancVars>>

\* The browser goes away before the generator is entered: only the response's
\* own finally block runs.
Mp4DisconnectEarly(s) ==
  /\ mp4[s] = "claimed"
  /\ Release(s, "disconnected")
  /\ mp4' = [mp4 EXCEPT ![s] = "ended"]
  /\ UNCHANGED <<limit, sig, claimed, proc, watching, hlsVars, cancVars>>

\* Mutant of Mp4Disconnect: the generator's finally block waits without stopping.
Mp4DisconnectWaits(s) ==
  /\ mp4[s] = "streaming"
  /\ mp4' = [mp4 EXCEPT ![s] = "closing"]
  /\ UNCHANGED <<limit, leaseVars, proc, watching, hlsVars, cancVars>>

\* The browser goes away later: the generator's finally block stops the process.
Mp4Disconnect(s) ==
  /\ mp4[s] = "streaming"
  /\ StopProcess(s)
  /\ mp4' = [mp4 EXCEPT ![s] = "closing"]
  /\ UNCHANGED <<limit, leaseVars, watching, hlsVars, cancVars>>

\* Mutant of Mp4Closed: the generator's finally block leaves the lease alone.
Mp4ClosedKeepsLease(s) ==
  /\ mp4[s] = "closing" /\ ~Live(s)
  /\ mp4' = [mp4 EXCEPT ![s] = "ended"]
  /\ UNCHANGED <<limit, leaseVars, proc, watching, hlsVars, cancVars>>

Mp4Closed(s) ==
  /\ mp4[s] = "closing" /\ ~Live(s)
  /\ Release(s, "closed")
  /\ mp4' = [mp4 EXCEPT ![s] = "ended"]
  /\ UNCHANGED <<limit, sig, claimed, proc, watching, hlsVars, cancVars>>

-----------------------------------------------------------------------------
(* The HLS transport: GET /hls/{job_id}/index.m3u8 *)

\* ensure_hls_playlist() takes _hls_lock, claims the lease and creates the
\* output directory; the lock stays held while the process is created.
PlaylistStart(s) ==
  /\ LockFree /\ s \notin jobs
  /\ Claim(s, "hls")
  /\ dirs' = dirs \cup {s}
  /\ hlsLock' = s
  /\ UNCHANGED <<limit, proc, watching, mp4, jobs, jobCancelled, expiry, waiter, cancVars>>

\* attach() succeeds: the job is registered before the lock is released.
HlsAttached(s) ==
  /\ hlsLock = s /\ Wanted(s)
  /\ Attach(s)
  /\ hlsLock' = NoSession
  /\ jobs' = jobs \cup {s}
  /\ expiry' = [expiry EXCEPT ![s] = "watch"]
  /\ waiter' = [waiter EXCEPT ![s] = "waiting"]
  /\ UNCHANGED <<limit, mp4, jobCancelled, dirs, cancVars>>

\* Mutant of HlsSpawnFails: the directory made for the failed spawn stays.
HlsSpawnFailsLeaks(s) ==
  /\ hlsLock = s
  /\ Release(s, "start_failed")
  /\ hlsLock' = NoSession
  /\ UNCHANGED <<limit, sig, claimed, proc, watching, mp4, jobs, jobCancelled, dirs, expiry,
                 waiter, cancVars>>

\* mkdir or create_subprocess_exec raises.
HlsSpawnFails(s) ==
  /\ hlsLock = s
  /\ Release(s, "start_failed")
  /\ dirs' = dirs \ {s}
  /\ hlsLock' = NoSession
  /\ UNCHANGED <<limit, sig, claimed, proc, watching, mp4, jobs, jobCancelled, expiry,
                 waiter, cancVars>>

\* job.last_access = time.monotonic(): the time to live starts anew.  Before the
\* job is complete a request only re-arms the idle timer, which may fire whenever
\* it is armed.
Touch(s) == expiry' = [expiry EXCEPT ![s] = IF @ = "ttl" THEN "refreshed" ELSE @]

\* A request for the playlist of a registered job.
PlaylistPoll(s) ==
  /\ LockFree /\ s \in jobs
  /\ waiter[s] = "none"
  /\ Touch(s)
  /\ waiter' = [waiter EXCEPT ![s] = "waiting"]
  /\ UNCHANGED <<limit, leaseVars, proc, watching, mp4, hlsLock, jobs, jobCancelled, dirs,
                 cancVars>>

\* Enough segments are listed and on disk; or the job was cancelled or failed.
PlaylistAnswer(s) ==
  /\ waiter[s] = "waiting"
  /\ s \in dirs \/ s \in jobCancelled \/ proc[s] \notin {"running", "stopping", "exit0"}
  /\ IF s \in jobCancelled THEN expiry' = expiry ELSE Touch(s)
  /\ waiter' = [waiter EXCEPT ![s] = "none"]
  /\ UNCHANGED <<limit, leaseVars, proc, watching, mp4, hlsLock, jobs, jobCancelled, dirs,
                 cancVars>>

\* hls_segment(): a request for a segment of a complete job, on a thread of its own.
SegmentRequest(s) ==
  /\ s \in jobs /\ expiry[s] = "ttl"
  /\ Touch(s)
  /\ UNCHANGED <<limit, leaseVars, proc, watching, mp4, hlsLock, jobs, jobCancelled, dirs, waiter,
                 cancVars>>

\* No playable segment within _HLS_START_TIMEOUT.
StartTimeout(s) ==
  /\ waiter[s] = "waiting" /\ s \notin jobCancelled
  /\ proc[s] \in {"running", "stopping", "exit0"}
  /\ StopProcess(s)
  /\ waiter' = [waiter EXCEPT ![s] = "stopping"]
  /\ UNCHANGED <<limit, leaseVars, watching, mp4, hlsLock, jobs, jobCancelled, dirs, expiry,
                 cancVars>>

StartTimedOut(s) ==
  /\ waiter[s] = "stopping" /\ ~Live(s)
  /\ Release(s, "start_timeout")
  /\ waiter' = [waiter EXCEPT ![s] = "none"]
  /\ UNCHANGED <<limit, sig, claimed, proc, watching, mp4, hlsLock, jobs, jobCancelled, dirs,
                 expiry, cancVars>>

\* _expire_hls_job(): no playlist or segment request for the idle timeout.
HlsIdle(s) ==
  /\ expiry[s] = "watch" /\ Live(s) /\ s \notin jobCancelled
  /\ jobCancelled' = jobCancelled \cup {s}
  /\ StopProcess(s)
  /\ expiry' = [expiry EXCEPT ![s] = "idleStop"]
  /\ UNCHANGED <<limit, leaseVars, watching, mp4, hlsLock, jobs, dirs, waiter, cancVars>>

HlsIdleStopped(s) ==
  /\ expiry[s] = "idleStop" /\ ~Live(s)
  /\ Release(s, "idle")
  /\ expiry' = [expiry EXCEPT ![s] = "collect"]
  /\ UNCHANGED <<limit, sig, claimed, proc, watching, mp4, hlsLock, jobs, jobCancelled, dirs,
                 waiter, cancVars>>

\* The process has exited: a cancelled or failed job is collected, a complete
\* one is served for another _HLS_TTL_SECONDS after its last request.
HlsExited(s) ==
  /\ expiry[s] = "watch" /\ ~Live(s)
  /\ expiry' = [expiry EXCEPT ![s] =
                  IF s \notin jobCancelled /\ proc[s] = "exit0" THEN "ttl" ELSE "collect"]
  /\ UNCHANGED <<limit, leaseVars, proc, watching, mp4, hlsLock, jobs, jobCancelled, dirs,
                 waiter, cancVars>>

HlsCollect(s) ==
  /\ expiry[s] = "collect" /\ LockFree
  /\ jobs' = jobs \ {s}
  /\ dirs' = dirs \ {s}
  /\ expiry' = [expiry EXCEPT ![s] = "none"]
  /\ UNCHANGED <<limit, leaseVars, proc, watching, mp4, hlsLock, jobCancelled, waiter, cancVars>>

\* Mutant of HlsTtl: a complete job is forgotten without its directory.
HlsTtlForgets(s) ==
  /\ expiry[s] = "ttl" \/ (expiry[s] = "refreshed" /\ s \notin jobs)
  /\ LockFree
  /\ jobs' = jobs \ {s}
  /\ expiry' = [expiry EXCEPT ![s] = "none"]
  /\ UNCHANGED <<limit, leaseVars, proc, watching, mp4, hlsLock, jobCancelled, dirs, waiter,
                 cancVars>>

\* The job was requested while the task slept: it sleeps for the rest.
HlsTtlAgain(s) ==
  /\ expiry[s] = "refreshed" /\ LockFree /\ s \in jobs
  /\ expiry' = [expiry EXCEPT ![s] = "ttl"]
  /\ UNCHANGED <<limit, leaseVars, proc, watching, mp4, hlsLock, jobs, jobCancelled, dirs, waiter,
                 cancVars>>

\* Nothing is removed when a canceller has popped the job meanwhile.
HlsTtl(s) ==
  /\ expiry[s] = "ttl" \/ (expiry[s] = "refreshed" /\ s \notin jobs)
  /\ LockFree
  /\ jobs' = jobs \ {s}
  /\ dirs' = IF s \in jobs THEN dirs \ {s} ELSE dirs
  /\ expiry' = [expiry EXCEPT ![s] = "none"]
  /\ UNCHANGED <<limit, leaseVars, proc, watching, mp4, hlsLock, jobCancelled, waiter, cancVars>>

-----------------------------------------------------------------------------
(* cancel_hls_job(), for either transport; c is its caller *)

\* The endpoint is a client's choice; enforce_hls_budget cancels registered
\* jobs, one after the other.
MayCancel(c, s) ==
  /\ canc[c][s] = "idle" /\ LockFree
  /\ c = "budget" => s \in jobs /\ \A t \in Sessions : canc[c][t] = "idle"

\* Mutant of PopJob: the job stays registered while it is cancelled.
PopJobLater(c, s) ==
  /\ jobs' = jobs
  /\ jobCancelled' = jobCancelled \cup ({s} \cap jobs)
  /\ owns' = [owns EXCEPT ![c] = @ \cup ({s} \cap jobs)]

\* Under the lock the job is popped, so no playlist request finds it again.
PopJob(c, s) ==
  /\ jobs' = jobs \ {s}
  /\ jobCancelled' = jobCancelled \cup ({s} \cap jobs)
  /\ owns' = [owns EXCEPT ![c] = @ \cup ({s} \cap jobs)]

Go(c, s, pc) == canc' = [canc EXCEPT ![c][s] = pc]
AfterCancel(c, s, own) == Go(c, s, IF own THEN "cleanup" ELSE "idle")

\* playback.cancel() without a lease, or with one that has no process.
CancelAtOnce(c, s) ==
  /\ MayCancel(c, s)
  /\ s \in leases => proc[s] = "none" /\ ~InFlight(s)
  /\ PopJob(c, s)
  /\ Release(s, CancelReason(c))
  /\ AfterCancel(c, s, s \in jobs)
  /\ UNCHANGED <<limit, sig, claimed, proc, watching, mp4, hlsLock, dirs, expiry, waiter>>

\* The slot stays occupied until the spawn in flight has been stopped.
CancelInFlight(c, s) ==
  /\ MayCancel(c, s)
  /\ s \in leases /\ InFlight(s)
  /\ PopJob(c, s)
  /\ reason' = [reason EXCEPT ![s] = CancelReason(c)]
  /\ Go(c, s, "waitSpawn")
  /\ UNCHANGED <<limit, leases, sig, claimed, history, counters, proc, watching, mp4, hlsLock,
                 dirs, expiry, waiter>>

CancelRunning(c, s) ==
  /\ MayCancel(c, s)
  /\ s \in leases /\ proc[s] # "none"
  /\ PopJob(c, s)
  /\ reason' = [reason EXCEPT ![s] = CancelReason(c)]
  /\ StopProcess(s)
  /\ Go(c, s, "stopping")
  /\ UNCHANGED <<limit, leases, sig, claimed, history, counters, watching, mp4, hlsLock, dirs,
                 expiry, waiter>>

\* lease.spawned was set.
CancelSpawned(c, s) ==
  /\ canc[c][s] = "waitSpawn" /\ ~InFlight(s)
  /\ StopProcess(s)
  /\ Go(c, s, "stopping")
  /\ UNCHANGED <<limit, leaseVars, watching, mp4, hlsVars, owns>>

\* It was not within three seconds: attach() will find lease.reason.
CancelWaitTimeout(c, s) ==
  /\ canc[c][s] = "waitSpawn" /\ InFlight(s)
  /\ AfterCancel(c, s, s \in owns[c])
  /\ UNCHANGED <<limit, leaseVars, proc, watching, mp4, hlsVars, owns>>

CancelStopped(c, s) ==
  /\ canc[c][s] = "stopping" /\ ~Live(s)
  /\ Finish(s, "cancelled", CancelReason(c))
  /\ AfterCancel(c, s, s \in owns[c])
  /\ UNCHANGED <<limit, sig, claimed, reason, proc, watching, mp4, hlsVars, owns>>

\* The popped job's expiry task is cancelled and its directory removed.
CancelCleanup(c, s) ==
  /\ canc[c][s] = "cleanup" /\ ~Live(s)
  /\ expiry' = [expiry EXCEPT ![s] = "none"]
  /\ dirs' = dirs \ {s}
  /\ owns' = [owns EXCEPT ![c] = @ \ {s}]
  /\ Go(c, s, "idle")
  /\ UNCHANGED <<limit, leaseVars, proc, watching, mp4, hlsLock, jobs, jobCancelled, waiter>>

-----------------------------------------------------------------------------
LeaseStep(s) ==
  \/ \E g \in Transports : Admit(s, g)
  \/ RejectAtCapacity(s) \/ ExpireReservation(s)
  \/ WatchProcess(s) \/ ProcessExit(s)

Mp4Step(s) ==
  \/ StreamRequest(s) \/ GeneratorStart(s)
  \/ Mp4Attached(s) \/ Mp4AttachRefused(s) \/ Mp4RefusedStopped(s) \/ Mp4SpawnFails(s)
  \/ Mp4Idle(s) \/ Mp4End(s)
  \/ Mp4DisconnectEarly(s) \/ Mp4Disconnect(s) \/ Mp4Closed(s)

HlsStep(s) ==
  \/ PlaylistStart(s) \/ HlsAttached(s) \/ HlsSpawnFails(s)
  \/ PlaylistPoll(s) \/ PlaylistAnswer(s) \/ SegmentRequest(s)
  \/ StartTimeout(s) \/ StartTimedOut(s)
  \/ HlsIdle(s) \/ HlsIdleStopped(s) \/ HlsExited(s) \/ HlsCollect(s)
  \/ HlsTtlAgain(s) \/ HlsTtl(s)

CancelStep(c, s) ==
  \/ CancelAtOnce(c, s) \/ CancelInFlight(c, s) \/ CancelRunning(c, s)
  \/ CancelSpawned(c, s) \/ CancelWaitTimeout(c, s)
  \/ CancelStopped(c, s) \/ CancelCleanup(c, s)

Next ==
  \/ \E n \in Limits : SetLimit(n)
  \/ \E s \in Sessions : LeaseStep(s) \/ Mp4Step(s) \/ HlsStep(s)
  \/ \E c \in Cancellers, s \in Sessions : CancelStep(c, s)

Spec == Init /\ [][Next]_vars

(***************************************************************************)
(* Fairness: what the event loop and the operating system owe.  Every task *)
(* that can take its next step does; a signalled process ends (SIGKILL is  *)
(* sent after two seconds).  A running one ends when its output is taken,  *)
(* that is by a reader of the MP4 response or by files, or else its idle   *)
(* timer fires; unread, it blocks on a full pipe.  A claimed response is   *)
(* entered or abandoned.  Nothing is assumed of clients: they may never    *)
(* disconnect or send a DELETE, and may request a complete job for ever,   *)
(* which keeps it.                                                         *)
(***************************************************************************)
Fairness ==
  \A s \in Sessions :
    /\ WF_vars(ExpireReservation(s)) /\ WF_vars(WatchProcess(s))
    /\ WF_vars(ProcessExit(s) /\ proc[s] = "stopping")
    /\ WF_vars((ProcessExit(s) /\ mp4[s] \in {"none", "streaming"}) \/ Mp4Idle(s) \/ HlsIdle(s))
    /\ WF_vars(GeneratorStart(s) \/ Mp4DisconnectEarly(s))
    /\ WF_vars(Mp4Attached(s) \/ Mp4AttachRefused(s) \/ Mp4SpawnFails(s))
    /\ WF_vars(Mp4RefusedStopped(s)) /\ WF_vars(Mp4Closed(s))
    /\ WF_vars(HlsAttached(s) \/ HlsSpawnFails(s))
    /\ WF_vars(StartTimedOut(s)) /\ WF_vars(HlsIdleStopped(s))
    /\ WF_vars(HlsExited(s)) /\ WF_vars(HlsCollect(s))
    /\ WF_vars(HlsTtlAgain(s) \/ HlsTtl(s))
    /\ \A c \in Cancellers :
         WF_vars(CancelSpawned(c, s) \/ CancelStopped(c, s) \/ CancelCleanup(c, s))

FairSpec == Spec /\ Fairness

-----------------------------------------------------------------------------
(* Safety *)

\* Every admission is accounted for exactly once, whichever of the watcher,
\* the generator, the timers and the cancellers reaches finish() first.
Conservation ==
  counters["admitted"] =
    counters["completed"] + counters["cancelled"] + counters["failed"] + Cardinality(leases)

\* A session whose outcome is remembered, a DELETE that overtook its admission
\* included, does not occupy a slot.
NoResurrection == \A s \in leases : ~InHistory(s)

\* A transcoder that was attached occupies a slot of the shared limit for as
\* long as it runs; only one whose attachment was refused does not.
TranscoderHoldsSlot == \A s \in Sessions : Live(s) /\ mp4[s] # "refused" => s \in leases

\* The playlist of a registered job never points into a removed directory:
\* whole sessions are invalidated before their files are removed.
PlaylistBacked == jobs \subseteq dirs

\* A spawn under _hls_lock is never disturbed: the lease is still wanted when
\* the process is attached, since every HLS canceller waits for the lock.
SpawnUndisturbed == ~LockFree => Wanted(hlsLock)

\* "completed" is reported only of a transcoder that exited with status 0.
CompletedIsComplete ==
  \A s \in Sessions : history[s].state = "completed" => proc[s] = "exit0"

\* An HLS session that was cancelled while it held its slot is reported as
\* cancelled, although the watcher sees the exit of the terminated process too.
HlsCancelReported ==
  \A s \in Sessions :
    sig[s] = "hls" /\ reason[s] # "" /\ InHistory(s) => history[s].state = "cancelled"

\* At rest (no task left for the session) no output directory remains.
AtRest(s) ==
  /\ s \notin jobs /\ hlsLock # s /\ expiry[s] = "none"
  /\ \A c \in Cancellers : canc[c][s] = "idle"
NoLeftoverDirectory == \A s \in Sessions : AtRest(s) => s \notin dirs

\* Lowering the limit leaves running sessions alone, and no step takes a slot
\* beyond the limit in force.
AdmissionWithinLimit ==
  [][\A s \in Sessions : s \notin leases /\ s \in leases' =>
        limit = 0 \/ Cardinality(leases') <= limit]_vars

\* A cancelled spawn in flight keeps its slot until its process was stopped.
SpawnKeepsSlot ==
  [][\A s \in Sessions : InFlight(s) /\ s \in leases => s \in leases' \/ mp4'[s] # "spawning"]_vars

(* Refinement *)

\* What a client can tell of a session id: it is over as soon as an outcome is
\* remembered for it.
LeaseOf(s) ==
  IF s \in leases THEN "held" ELSE IF InHistory(s) THEN "over" ELSE "unknown"

Contract == INSTANCE SessionLease
              WITH Ids <- Sessions, lease <- [s \in Sessions |-> LeaseOf(s)]

\* Admission, the transports, the timers and the cancellers together implement
\* the contract of SessionLease: an id is admitted at most once and within the
\* limit in force, and a session that is over, a DELETE that overtook its admission
\* included, stays over.
ImplementsLease == Contract!Spec

(* Liveness *)

\* Every cancel_hls_job returns: a DELETE is answered and the budget task goes
\* on to the next session.
CancelReturns ==
  \A c \in Cancellers, s \in Sessions : canc[c][s] # "idle" ~> canc[c][s] = "idle"

\* Watchdogs cover lost cancellations: every slot is eventually free again.
SlotReleased == \A s \in Sessions : s \in leases ~> s \notin leases

\* Every ffmpeg process ends, also one whose session was cancelled before it
\* was created.
TranscoderEnds == \A s \in Sessions : Live(s) ~> ~Live(s)

\* Every HLS directory is eventually removed, unless its complete job is requested
\* again and again: no abandoned session keeps its files.
Refreshed(s) == expiry[s] = "ttl" /\ expiry'[s] = "refreshed"
DirectoryRemoved ==
  \A s \in Sessions : (s \in dirs ~> s \notin dirs) \/ []<><<Refreshed(s)>>_vars

-----------------------------------------------------------------------------
(* The inductive invariant *)

\* No task of a session precedes its claim, and only a transport that spawned a
\* process has anything to watch, serve, expire or wait for; an unclaimed lease
\* leaves at once when it is cancelled.
TasksFollowClaim ==
  \A s \in Sessions :
    /\ proc[s] # "none" \/ mp4[s] # "none" => s \in claimed
    /\ mp4[s] \in {"claimed", "spawning"} => proc[s] = "none"
    /\ s \in watching \cup jobs \/ waiter[s] # "none" \/ expiry[s] # "none" => proc[s] # "none"
    /\ reason[s] # "" => s \in claimed \/ InHistory(s)

\* While _hls_lock is held across the spawn, its session has no other task.
SpawnExclusive ==
  ~LockFree => /\ proc[hlsLock] = "none" /\ mp4[hlsLock] = "none"
               /\ hlsLock \in claimed /\ hlsLock \in dirs

\* A canceller removes only the directory of a job that it popped itself, and
\* waits only for a session whose transport has started, for its process only
\* when that is not being created any more.
CancellersOwn ==
  \A c \in Cancellers, s \in Sessions :
    /\ canc[c][s] = "cleanup" => s \in owns[c]
    /\ s \in owns[c] => s \notin jobs /\ proc[s] # "none" /\ canc[c][s] # "idle"
    /\ canc[c][s] = "waitSpawn" => mp4[s] \notin {"none", "claimed"}
    /\ canc[c][s] = "stopping" => mp4[s] \notin {"claimed", "spawning"}
                                 /\ (mp4[s] # "none" \/ proc[s] # "none")

\* A directory belongs to the spawn under _hls_lock, to a registered job or to a
\* canceller that popped the job; an expiry task whose job was popped owns nothing.
DirectoryOwned ==
  \A s \in dirs : s \in jobs \/ hlsLock = s \/ \E c \in Cancellers : s \in owns[c]

\* A claimed session holds its slot or is remembered, so that its id, and with it
\* the transport it was signed for, is not reserved anew.
ClaimRemembered ==
  \A s \in Sessions :
    /\ s \in claimed => s \in leases \/ InHistory(s)
    /\ mp4[s] # "none" => sig[s] = "mp4"

IInv ==
  /\ TypeOK
  /\ IsFiniteSet(leases) /\ Conservation
  /\ NoResurrection
  /\ TasksFollowClaim /\ SpawnExclusive /\ CancellersOwn /\ DirectoryOwned /\ ClaimRemembered
  /\ TranscoderHoldsSlot /\ PlaylistBacked /\ SpawnUndisturbed /\ CompletedIsComplete
  /\ HlsCancelReported

-----------------------------------------------------------------------------
(* What the comments say and the code does not do *)

\* "Reservations count against capacity before subprocess creation": no more
\* transcoders run than the limit allows.
TranscodersWithinLimit ==
  limit # 0 => Cardinality({s \in Sessions : Live(s)}) <= limit

=============================================================================
