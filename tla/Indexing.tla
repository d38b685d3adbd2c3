------------------------------ MODULE Indexing ------------------------------
(***************************************************************************)
(* Indexing of date partitions: the guard that keeps index jobs and the    *)
(* rebuild of the index apart (ctv_server/operations.py), the slot that    *)
(* serialises partition scans (index_queue.py), the scan and the           *)
(* preparation of partitions (partition_service.py), the automatic scan of *)
(* the current day (autoscan.py) and the rebuild endpoint (api/system.py). *)
(*                                                                         *)
(* Every thread is a program counter; a step is what it does under one     *)
(* lock or in one write transaction (write_db serialises them).  A request *)
(* of Requests is one POST /api/timeline/prepare with the background tasks *)
(* it leaves behind; Autoscan is the only thread of run_due_autoscans().   *)
(* Of a partition's recordings only their presence is kept.  Time is not   *)
(* modelled: a refresh may become due, and a day end, at any moment.       *)
(*                                                                         *)
(* Definitions commented as a mutant are plausible bugs: no behaviour of   *)
(* the specification uses them, the properties are tested against them.    *)
(***************************************************************************)
EXTENDS Naturals, FiniteSets

CONSTANTS
  Partitions,     (* (camera, day) pairs                                    *)
  Today,          (* those of the current day: the ones Autoscan scans      *)
  Requests,       (* the viewers' preparation requests                      *)
  Autoscan,       (* the automatic scan's thread                            *)
  NoPartition,    (* what a thread without a scan works on                  *)
  MaxGeneration,  (* bound on the number of rebuilds between two restarts   *)
  Faults          (* what may go wrong: "rebuild" (it does not reach the    *)
                  (* end of its body), "database" (a transaction of a scan  *)
                  (* fails), "record" (the one that records a failure fails *)
                  (* too), "restart"                                        *)

ASSUME IndexingAssumption ==
  /\ Today \subseteq Partitions
  /\ Autoscan \notin Requests
  /\ NoPartition \notin Partitions
  /\ IsFiniteSet(Requests)
  /\ MaxGeneration \in Nat
  /\ Faults \subseteq {"rebuild", "database", "record", "restart"}

VARIABLES
  status,       (* partitions.status; "none" when there is no row           *)
  fresh,        (* partitions scanned in full within the refresh interval   *)
  recorded,     (* partitions that have recordings in the index             *)
  unrecorded,   (* history: partitions whose last failure is only logged    *)
  active,       (* operations._active_index_jobs                            *)
  maintenance,  (* operations._maintenance_active                           *)
  generation,   (* operations._index_generation                             *)
  running,      (* index_queue._running                                     *)
  rebuild,      (* the rebuild endpoint, inside its maintenance window      *)
  pc,           (* where each thread is                                     *)
  part,         (* the partition it works on                                *)
  gen,          (* the generation its jobs were prepared in                 *)
  jobs          (* background tasks of a request that have not begun        *)

rowVars    == <<status, fresh, recorded, unrecorded>>
guardVars  == <<active, maintenance, generation>>
threadVars == <<pc, part, gen, jobs>>
vars == <<rowVars, guardVars, running, rebuild, threadVars>>

Threads == Requests \cup {Autoscan}

Statuses == {"none", "unknown", "queued", "scanning", "background", "ready", "missing", "error"}
RebuildStates == {"idle", "waiting", "clearing", "cleared"}

\* Between begin_index_job and end_index_job; with the partition's lock held;
\* inside partition_slot.
JobPcs  == {"prepare", "begun", "reserved", "prepared", "purged", "indexed", "final", "ending"}
LockPcs == JobPcs \ {"prepare"}
SlotPcs == LockPcs \cup {"admitted", "leave"}
Pcs == SlotPcs \cup {"prepare", "jobs", "slot", "done", "idle", "due", "picked"}

At(t, where) == pc[t] \in where
Locked(p) == \E t \in Threads : part[t] = p /\ At(t, LockPcs)   \* _lock_for(p).locked()
ForegroundWaiters == {r \in Requests : pc[r] = "slot"}

TypeOK ==
  /\ status \in [Partitions -> Statuses]
  /\ fresh \subseteq Partitions
  /\ recorded \subseteq Partitions
  /\ unrecorded \subseteq Partitions
  /\ active \in Nat
  /\ maintenance \in BOOLEAN
  /\ generation \in Nat
  /\ running \in BOOLEAN
  /\ rebuild \in RebuildStates
  /\ pc \in [Threads -> Pcs]
  /\ part \in [Threads -> Partitions \cup {NoPartition}]
  /\ gen \in [Threads -> Nat]
  /\ jobs \in [Requests -> SUBSET Partitions]

\* A request is "idle" until it arrives.
Init ==
  /\ status = [p \in Partitions |-> "none"]
  /\ fresh = {} /\ recorded = {} /\ unrecorded = {}
  /\ active = 0 /\ maintenance = FALSE /\ generation = 0
  /\ running = FALSE /\ rebuild = "idle"
  /\ pc = [t \in Threads |-> "idle"]
  /\ part = [t \in Threads |-> NoPartition]
  /\ gen = [t \in Threads |-> 0]
  /\ jobs = [r \in Requests |-> {}]

-----------------------------------------------------------------------------
(* operations.py and index_queue.py *)

Goto(t, where) == pc' = [pc EXCEPT ![t] = where]

\* Mutant of MayBegin: the generation a job was prepared in is not compared.
MayBeginAnyGeneration(g) == ~maintenance /\ g \in Nat

\* begin_index_job(expected_generation) would admit a job.
MayBegin(g) == ~maintenance /\ g = generation

BeginJob == active' = active + 1
EndJob == active' = IF active = 0 THEN 0 ELSE active - 1

\* A request's task asks for the slot and counts as a foreground waiter.
Queue(r, p) ==
  /\ pc[r] = "jobs" /\ p \in jobs[r]
  /\ Goto(r, "slot")
  /\ part' = [part EXCEPT ![r] = p]
  /\ jobs' = [jobs EXCEPT ![r] = @ \ {p}]
  /\ UNCHANGED <<rowVars, guardVars, running, rebuild, gen>>

\* Mutant of Admit: the slot is not looked at.
AdmitAlways(r) ==
  /\ pc[r] = "slot"
  /\ running' = TRUE
  /\ Goto(r, "admitted")
  /\ UNCHANGED <<rowVars, guardVars, rebuild, part, gen, jobs>>

Admit(r) ==
  /\ pc[r] = "slot" /\ ~running
  /\ running' = TRUE
  /\ Goto(r, "admitted")
  /\ UNCHANGED <<rowVars, guardVars, rebuild, part, gen, jobs>>

\* The background scan does not wait: it gives up when the slot is taken or an
\* interactive request waits for it.
AdmitAuto ==
  /\ pc[Autoscan] = "picked"
  /\ \/ /\ ~running /\ ForegroundWaiters = {}
        /\ running' = TRUE /\ Goto(Autoscan, "admitted")
     \/ /\ running \/ ForegroundWaiters # {}
        /\ Goto(Autoscan, "idle") /\ UNCHANGED running
  /\ UNCHANGED <<rowVars, guardVars, rebuild, part, gen, jobs>>

\* Mutant of Leave: an early exit keeps the slot.
LeaveRunning(t) ==
  /\ pc[t] = "leave"
  /\ Goto(t, IF t = Autoscan THEN "idle" ELSE IF jobs[t] = {} THEN "done" ELSE "jobs")
  /\ part' = [part EXCEPT ![t] = NoPartition]
  /\ UNCHANGED <<rowVars, guardVars, running, rebuild, gen, jobs>>

Leave(t) ==
  /\ pc[t] = "leave"
  /\ running' = FALSE
  /\ Goto(t, IF t = Autoscan THEN "idle" ELSE IF jobs[t] = {} THEN "done" ELSE "jobs")
  /\ part' = [part EXCEPT ![t] = NoPartition]
  /\ UNCHANGED <<rowVars, guardVars, rebuild, gen, jobs>>

-----------------------------------------------------------------------------
(* prepare_partitions(): POST /api/timeline/prepare *)

\* The preparation counts as an index job.  When it is refused the request
\* ends without jobs, which changes nothing.
PrepareBegin(r) ==
  /\ pc[r] = "idle" /\ ~maintenance
  /\ BeginJob
  /\ gen' = [gen EXCEPT ![r] = generation]
  /\ Goto(r, "prepare")
  /\ UNCHANGED <<rowVars, maintenance, generation, running, rebuild, part, jobs>>

\* A partition due for a refresh that is neither reserved nor being scanned; a
\* background scan does not stand in for the full reconciliation.
Due(p) ==
  /\ p \notin fresh
  /\ status[p] \notin {"queued", "scanning"}
  /\ status[p] = "background" \/ ~Locked(p)

\* One transaction inserts the rows of the days P and reserves those due.
PrepareWrite(r, P) ==
  /\ pc[r] = "prepare"
  /\ status' = [p \in Partitions |->
                  IF p \in P /\ Due(p) THEN "queued"
                  ELSE IF p \in P /\ status[p] = "none" THEN "unknown" ELSE status[p]]
  /\ unrecorded' = unrecorded \ {p \in P : Due(p)}
  /\ jobs' = [jobs EXCEPT ![r] = {p \in P : Due(p)}]
  /\ Goto(r, IF \E p \in P : Due(p) THEN "jobs" ELSE "done")
  /\ EndJob
  /\ UNCHANGED <<fresh, recorded, maintenance, generation, running, rebuild, part, gen>>

\* The refresh interval of a partition has passed.
Expire(p) ==
  /\ p \in fresh
  /\ fresh' = fresh \ {p}
  /\ UNCHANGED <<status, recorded, unrecorded, guardVars, running, rebuild, threadVars>>

-----------------------------------------------------------------------------
(* run_due_autoscans() up to its call of run_partition_scan() *)

AutoRead ==
  /\ pc[Autoscan] = "idle"
  /\ gen' = [gen EXCEPT ![Autoscan] = generation]
  /\ Goto(Autoscan, "due")
  /\ UNCHANGED <<rowVars, guardVars, running, rebuild, part, jobs>>

AutoPick(p) ==
  /\ pc[Autoscan] = "due" /\ p \in Today
  /\ status[p] \notin {"queued", "scanning", "background"}
  /\ status' = [status EXCEPT ![p] = IF @ = "none" THEN "unknown" ELSE @]
  /\ part' = [part EXCEPT ![Autoscan] = p]
  /\ Goto(Autoscan, "picked")
  /\ UNCHANGED <<fresh, recorded, unrecorded, guardVars, running, rebuild, gen, jobs>>

\* Disabled, not due, or every partition of today is in progress.
AutoSkip ==
  /\ pc[Autoscan] = "due"
  /\ Goto(Autoscan, "idle")
  /\ UNCHANGED <<rowVars, guardVars, running, rebuild, part, gen, jobs>>

-----------------------------------------------------------------------------
(* run_partition_scan(), by a request's task or by Autoscan *)

\* An UPDATE of partitions: nothing when the row is gone.
SetStatus(p, to) ==
  /\ status' = [status EXCEPT ![p] = IF @ = "none" THEN @ ELSE to]
  /\ unrecorded' = unrecorded \ {p}

\* The partition's lock and the guard admit the job.
Begin(t) ==
  /\ pc[t] = "admitted" /\ ~Locked(part[t]) /\ MayBegin(gen[t])
  /\ BeginJob
  /\ Goto(t, "begun")
  /\ UNCHANGED <<rowVars, maintenance, generation, running, rebuild, part, gen, jobs>>

\* "busy": the partition is left as it is.
Busy(t) ==
  /\ pc[t] = "admitted" /\ (Locked(part[t]) \/ ~MayBegin(gen[t]))
  /\ Goto(t, "leave")
  /\ UNCHANGED <<rowVars, guardVars, running, rebuild, part, gen, jobs>>

Reserve(t) ==
  /\ pc[t] = "begun"
  /\ t = Autoscan => \A p \in Partitions : status[p] # "queued"
  /\ SetStatus(part[t], IF t = Autoscan THEN "background" ELSE "scanning")
  /\ Goto(t, "reserved")
  /\ UNCHANGED <<fresh, recorded, guardVars, running, rebuild, part, gen, jobs>>

\* Mutant of ReserveRefused: the early return skips end_index_job().
ReserveRefusedActive ==
  /\ pc[Autoscan] = "begun"
  /\ Goto(Autoscan, "leave")
  /\ UNCHANGED <<rowVars, guardVars, running, rebuild, part, gen, jobs>>

\* A background scan that is disabled, moved, out of date or behind a queued
\* request gives up; the finally block ends the job.
ReserveRefused ==
  /\ pc[Autoscan] = "begun"
  /\ EndJob
  /\ Goto(Autoscan, "leave")
  /\ UNCHANGED <<rowVars, maintenance, generation, running, rebuild, part, gen, jobs>>

\* index_camera() probes the files; its progress callback raises once the
\* generation has moved on.
Probe(t) ==
  /\ pc[t] = "reserved" /\ gen[t] = generation
  /\ Goto(t, "prepared")
  /\ UNCHANGED <<rowVars, guardVars, running, rebuild, part, gen, jobs>>

\* index_camera()'s one transaction, which asks for nothing any more.
Write(t) ==
  /\ pc[t] = "prepared"
  /\ recorded' = recorded \cup {part[t]}
  /\ Goto(t, "indexed")
  /\ UNCHANGED <<status, fresh, unrecorded, guardVars, running, rebuild, part, gen, jobs>>

\* Mutant of Finalize: an incremental scan takes a reservation away.
FinalizeReady(t) ==
  /\ pc[t] = "indexed"
  /\ SetStatus(part[t], "ready")
  /\ fresh' = IF t # Autoscan /\ status[part[t]] # "none" THEN fresh \cup {part[t]} ELSE fresh
  /\ Goto(t, "final")
  /\ UNCHANGED <<recorded, guardVars, running, rebuild, part, gen, jobs>>

\* The incremental scan neither takes a reservation away nor counts as a full
\* reconciliation.
Finalize(t) ==
  /\ pc[t] = "indexed"
  /\ \/ t = Autoscan /\ status[part[t]] = "queued" /\ UNCHANGED <<status, unrecorded>>
     \/ ~(t = Autoscan /\ status[part[t]] = "queued") /\ SetStatus(part[t], "ready")
  /\ fresh' = IF t # Autoscan /\ status[part[t]] # "none" THEN fresh \cup {part[t]} ELSE fresh
  /\ Goto(t, "final")
  /\ UNCHANGED <<recorded, guardVars, running, rebuild, part, gen, jobs>>

\* The day's directory does not exist.  A full scan removes the recordings ...
Purge(t) ==
  /\ pc[t] = "reserved" /\ t # Autoscan
  /\ recorded' = recorded \ {part[t]}
  /\ Goto(t, "purged")
  /\ UNCHANGED <<status, fresh, unrecorded, guardVars, running, rebuild, part, gen, jobs>>

\* ... and then marks the partition, inserting the row when it is gone.
Missing(t) ==
  /\ pc[t] = "purged"
  /\ status' = [status EXCEPT ![part[t]] = "missing"]
  /\ unrecorded' = unrecorded \ {part[t]}
  /\ fresh' = IF status[part[t]] # "none" THEN fresh \cup {part[t]} ELSE fresh
  /\ Goto(t, "ending")
  /\ UNCHANGED <<recorded, guardVars, running, rebuild, part, gen, jobs>>

\* An incremental scan keeps the recordings, and leaves the full one due.
MissingToday ==
  /\ pc[Autoscan] = "reserved"
  /\ SetStatus(part[Autoscan], "missing")
  /\ Goto(Autoscan, "ending")
  /\ UNCHANGED <<fresh, recorded, guardVars, running, rebuild, part, gen, jobs>>

\* The source is offline, a probe raises, the progress callback finds a newer
\* generation; or one of the other steps' transactions fails.
Failing(t) ==
  \/ pc[t] = "reserved"
  \/ "database" \in Faults /\ At(t, {"begun", "prepared", "purged", "indexed"})

Fail(t) ==
  /\ Failing(t)
  /\ SetStatus(part[t], "error")
  /\ Goto(t, "ending")
  /\ UNCHANGED <<fresh, recorded, guardVars, running, rebuild, part, gen, jobs>>

\* The transaction that records the failure fails too, which is only logged: the
\* row keeps the status it had.
FailUnrecorded(t) ==
  /\ "record" \in Faults /\ Failing(t)
  /\ unrecorded' = unrecorded \cup {part[t]}
  /\ Goto(t, "ending")
  /\ UNCHANGED <<status, fresh, recorded, guardVars, running, rebuild, part, gen, jobs>>

\* The end of the enrichment, or of an early return: end_index_job() and the
\* release of the partition's lock.
End(t) ==
  /\ At(t, {"final", "ending"})
  /\ EndJob
  /\ Goto(t, "leave")
  /\ UNCHANGED <<rowVars, maintenance, generation, running, rebuild, part, gen, jobs>>

-----------------------------------------------------------------------------
(* POST /api/admin/rebuild-index, inside maintenance_window(wait_for_jobs) *)

RebuildBegin ==
  /\ rebuild = "idle" /\ ~maintenance
  /\ generation < MaxGeneration
  /\ maintenance' = TRUE
  /\ generation' = generation + 1
  /\ rebuild' = "waiting"
  /\ UNCHANGED <<rowVars, active, running, threadVars>>

\* Mutant of RebuildEnter: the jobs that are already running are not waited for.
RebuildEnterAtOnce ==
  /\ rebuild = "waiting"
  /\ rebuild' = "clearing"
  /\ UNCHANGED <<rowVars, guardVars, running, threadVars>>

RebuildEnter ==
  /\ rebuild = "waiting" /\ active = 0
  /\ rebuild' = "clearing"
  /\ UNCHANGED <<rowVars, guardVars, running, threadVars>>

RebuildClear ==
  /\ rebuild = "clearing"
  /\ status' = [p \in Partitions |-> "none"]
  /\ recorded' = {} /\ fresh' = {} /\ unrecorded' = {}
  /\ rebuild' = "cleared"
  /\ UNCHANGED <<guardVars, running, threadVars>>

RebuildEnd ==
  /\ rebuild = "cleared"
  /\ rebuild' = "idle" /\ maintenance' = FALSE
  /\ UNCHANGED <<rowVars, active, generation, running, threadVars>>

\* Sixty seconds passed and a job still runs, or the database refuses.
RebuildFails ==
  /\ "rebuild" \in Faults
  /\ \/ rebuild = "waiting" /\ active > 0
     \/ rebuild = "clearing"
  /\ rebuild' = "idle" /\ maintenance' = FALSE
  /\ UNCHANGED <<rowVars, active, generation, running, threadVars>>

-----------------------------------------------------------------------------
(* The process stops at any point and starts again *)

\* Mutants of Recovered: interrupted work gets a status nobody knows, or only
\* reservations, or only scans, are recovered.
RecoveredInterrupted ==
  [p \in Partitions |->
     IF status[p] \in {"queued", "scanning", "background"} THEN "interrupted" ELSE status[p]]
RecoveredQueued == [p \in Partitions |-> IF status[p] = "queued" THEN "unknown" ELSE status[p]]
RecoveredScans ==
  [p \in Partitions |-> IF status[p] \in {"scanning", "background"} THEN "unknown" ELSE status[p]]

\* recover_interrupted_scans()
Recovered ==
  [p \in Partitions |->
     IF status[p] \in {"queued", "scanning", "background"} THEN "unknown" ELSE status[p]]

Restart ==
  /\ "restart" \in Faults
  /\ status' = Recovered /\ unrecorded' = {}
  /\ active' = 0 /\ maintenance' = FALSE /\ generation' = 0
  /\ running' = FALSE /\ rebuild' = "idle"
  /\ pc' = [t \in Threads |-> "idle"]
  /\ part' = [t \in Threads |-> NoPartition]
  /\ gen' = [t \in Threads |-> 0]
  /\ jobs' = [r \in Requests |-> {}]
  /\ UNCHANGED <<fresh, recorded>>

-----------------------------------------------------------------------------
ScanStep(t) ==
  \/ Begin(t) \/ Busy(t) \/ Reserve(t) \/ Probe(t) \/ Write(t) \/ Finalize(t)
  \/ Purge(t) \/ Missing(t) \/ Fail(t) \/ FailUnrecorded(t) \/ End(t) \/ Leave(t)

RequestStep(r) ==
  \/ PrepareBegin(r)
  \/ \E P \in SUBSET Partitions : PrepareWrite(r, P)
  \/ \E p \in Partitions : Queue(r, p)
  \/ Admit(r)

AutoStep ==
  \/ AutoRead \/ AutoSkip \/ AdmitAuto \/ ReserveRefused \/ MissingToday
  \/ \E p \in Partitions : AutoPick(p)

RebuildStep ==
  RebuildBegin \/ RebuildEnter \/ RebuildClear \/ RebuildEnd \/ RebuildFails

Next ==
  \/ \E r \in Requests : RequestStep(r)
  \/ \E t \in Threads : ScanStep(t)
  \/ AutoStep \/ RebuildStep \/ Restart
  \/ \E p \in Partitions : Expire(p)

Spec == Init /\ [][Next]_vars

(***************************************************************************)
(* Fairness: threads that can go on do so, and a probe returns or fails    *)
(* (every subprocess has a timeout).  Nothing is owed of viewers, of the   *)
(* administrator or of the schedule.  A request is served once, so between *)
(* requests the slot needs weak fairness only: Autoscan cannot overtake.   *)
(***************************************************************************)
Fairness ==
  /\ \A r \in Requests :
       WF_vars((RequestStep(r) /\ ~PrepareBegin(r)) \/ ScanStep(r))
  /\ WF_vars(AdmitAuto \/ ReserveRefused \/ MissingToday \/ ScanStep(Autoscan))
  /\ WF_vars(RebuildEnter \/ RebuildClear \/ RebuildEnd)

FairSpec == Spec /\ Fairness

-----------------------------------------------------------------------------
(* Safety *)

Working == {t \in Threads : At(t, JobPcs)}
Scanning(p) == {t \in Threads : part[t] = p /\ At(t, LockPcs)}

\* The body of a rebuild runs alone: every preparation and scan that began
\* before the maintenance window has ended, and none begins inside it.
RebuildAlone == rebuild \in {"clearing", "cleared"} => Working = {}

\* At most one partition scan at a time, whoever asked for it: two writers never
\* reconcile the same partition.
OneScan == \A t, u \in Threads : At(t, LockPcs) /\ At(u, LockPcs) => t = u

\* A requested scan always has the row that it reports to: none that was
\* prepared before a rebuild goes on after it.  (Autoscan may: it reads the
\* generation and inserts its row outside of the guard.)
ScanHasRow == \A r \in Requests : At(r, LockPcs) => status[part[r]] # "none"

\* A task of r will still run a scan of p in the current generation.
Pending(r, p) ==
  /\ gen[r] = generation
  /\ \/ p \in jobs[r]
     \/ part[r] = p /\ At(r, {"slot", "admitted", "begun"})

\* No partition is shown as being scanned with nobody left to scan it, unless the
\* log says that the failure of its scan could not be recorded.
ScanningHasJob ==
  \A p \in Partitions :
    status[p] \in {"scanning", "background"} => Scanning(p) # {} \/ p \in unrecorded

\* A reserved partition has a task that will be admitted, save while a rebuild
\* is about to remove its row and where the log says that the failure of its scan
\* could not be recorded; a lost task would keep it reserved for good, and with it
\* every automatic scan of every camera.
QueuedHasJob ==
  \A p \in Partitions :
    status[p] = "queued" /\ rebuild = "idle" =>
      p \in unrecorded \/ \E r \in Requests : Pending(r, p)

\* A scan of the current day takes no reservation away by ending well: a day that
\* was opened while it ran becomes ready by its full reconciliation only.
ReservationHolds ==
  [][\A p \in Partitions : status[p] = "queued" => status'[p] # "ready"]_vars

(* Liveness *)

\* Opening a day retains the normal full reconciliation: a reserved partition
\* does not stay reserved, unless the failure of its scan could not be recorded.
OpenedDayScanned ==
  \A p \in Partitions : status[p] = "queued" ~> status[p] # "queued" \/ p \in unrecorded

\* A rebuild ends, also one that began while scans were running.
RebuildReturns == rebuild # "idle" ~> rebuild = "idle"

-----------------------------------------------------------------------------
(* The inductive invariant *)

\* The guard counts the jobs exactly, so that a rebuild that finds no job active
\* is alone.
JobsCounted == active = Cardinality(Working)

\* Whoever is inside partition_slot is alone there, and the slot is taken.
SlotHeld ==
  \A t \in Threads : At(t, SlotPcs) =>
    running /\ \A u \in Threads : At(u, SlotPcs) => t = u

\* A rebuild is under way exactly during its maintenance window.
RebuildInWindow == maintenance <=> rebuild # "idle"

\* Nobody is ahead of the generation, and during a rebuild every request is
\* behind it: what was prepared before cannot begin any more.
GenerationsPast ==
  /\ \A t \in Threads : gen[t] <= generation
  /\ rebuild # "idle" => \A r \in Requests : gen[r] < generation

\* A thread that waits for the slot or is inside has a partition; a request that
\* is not working through its jobs has none.
JobsAssigned ==
  /\ \A t \in Threads : At(t, SlotPcs \cup {"slot", "picked"}) => part[t] \in Partitions
  /\ \A r \in Requests : At(r, {"idle", "prepare", "done"}) => jobs[r] = {}

\* What a task will still scan in this generation has its row.
PendingHasRow ==
  \A r \in Requests, p \in Partitions : Pending(r, p) => status[p] # "none"

\* A partition shown as being scanned is between the reservation of its scan and
\* the transaction that ends it, if that was not the one that failed.
ScanningReserved ==
  \A p \in Partitions : status[p] \in {"scanning", "background"} =>
    \/ p \in unrecorded
    \/ \E t \in Threads : part[t] = p /\ At(t, {"reserved", "prepared", "purged", "indexed"})

\* While rebuilds complete, a rebuild leaves no reservation behind, and a
\* preparation that is under way outside of one is of the present generation.
ReservationsKept ==
  /\ QueuedHasJob
  /\ rebuild = "cleared" => \A p \in Partitions : status[p] # "queued"
  /\ rebuild = "idle" => \A r \in Requests : pc[r] = "prepare" => gen[r] = generation

IInv ==
  /\ TypeOK
  /\ JobsCounted /\ SlotHeld /\ RebuildInWindow /\ GenerationsPast /\ JobsAssigned
  /\ RebuildAlone /\ ScanHasRow /\ PendingHasRow /\ ScanningReserved
  /\ "rebuild" \notin Faults => ReservationsKept

-----------------------------------------------------------------------------
(* What the documentation says and the code does not do *)

\* "Interactive partition requests take priority over the next background job":
\* no background scan reserves a partition while a requested one is pending.
BackgroundYields ==
  [][pc[Autoscan] = "begun" /\ pc'[Autoscan] = "reserved" =>
       \A r \in Requests, p \in Partitions : ~Pending(r, p)]_vars

\* "Attempts that fail, including an offline NAS, also wait the configured interval
\* before retry": an attempt does not stay in progress, which would rule out every
\* later one.
AttemptsEnd == \A p \in Today : status[p] = "background" ~> status[p] # "background"

\* "Opening a day retains the normal full reconciliation (subject to the existing
\* refresh cache)": a preparation leaves no day that is due unreserved.
OpeningReserves ==
  [][\A r \in Requests, P \in SUBSET Partitions :
       PrepareWrite(r, P) =>
         \A p \in P : p \in fresh \/ status'[p] \in {"queued", "scanning"}]_vars

=============================================================================
