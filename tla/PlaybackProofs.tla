--------------------------- MODULE PlaybackProofs ---------------------------
(***************************************************************************)
(* Proofs about Playback: its inductive invariant, and with it, for any    *)
(* sessions, limits and callers of cancel_hls_job, the safety properties   *)
(* that the runs check on two sessions.                                    *)
(***************************************************************************)
EXTENDS Playback, FiniteSetTheorems, TLAPS

-----------------------------------------------------------------------------
(* Type correctness *)

LEMMA InitTypeOK == Init => TypeOK
  <1> SUFFICES ASSUME Init PROVE TypeOK
    OBVIOUS
  <1>1. limit \in Nat
    BY PlaybackAssumption DEF PlaybackAssumption, Init
  <1>2. history \in [Sessions -> Outcomes] /\ reason \in [Sessions -> Reasons]
    BY DEF Init, NotRemembered, Outcomes, Reasons
  <1>3. canc \in [Cancellers -> [Sessions -> CancelStates]] /\ owns \in [Cancellers -> SUBSET Sessions]
    BY DEF Init, CancelStates
  <1>4. counters \in [CounterNames -> Nat] /\ proc \in [Sessions -> ProcStates]
    BY DEF Init, ProcStates
  <1> QED
    BY <1>1, <1>2, <1>3, <1>4
    DEF Init, TypeOK, Transports, Mp4States, ExpiryStates, WaiterStates

LEMMA FinishType ==
  ASSUME TypeOK, NEW s \in Sessions, NEW state \in FinalStates, NEW why \in Reasons,
         Finish(s, state, why)
  PROVE  /\ leases' \subseteq Sessions
         /\ history' \in [Sessions -> Outcomes]
         /\ counters' \in [CounterNames -> Nat]
  <1>1. leases' \subseteq Sessions
    BY DEF TypeOK, Finish
  <1>2. [state |-> state, reason |-> why] \in Outcomes
    BY DEF Outcomes
  <1>3. history' \in [Sessions -> Outcomes]
    BY <1>2 DEF TypeOK, Finish, Remember
  <1>4. state \in CounterNames
    BY DEF CounterNames
  <1>5. counters' \in [CounterNames -> Nat]
    BY <1>4 DEF TypeOK, Finish
  <1> QED BY <1>1, <1>3, <1>5

LEMMA ReleaseType ==
  ASSUME TypeOK, NEW s \in Sessions, NEW why \in Reasons, Release(s, why)
  PROVE  /\ leases' \subseteq Sessions
         /\ history' \in [Sessions -> Outcomes]
         /\ counters' \in [CounterNames -> Nat]
         /\ reason' \in [Sessions -> Reasons]
  <1>1. CASE s \in leases
    BY <1>1, FinishType DEF Release, TypeOK, FinalStates
  <1>2. CASE s \notin leases
    BY <1>2 DEF Release, Tombstone, Remember, TypeOK, Outcomes, FinalStates
  <1> QED BY <1>1, <1>2

LEMMA ReserveType ==
  ASSUME TypeOK, NEW s \in Sessions, NEW g \in Transports, Reserve(s, g)
  PROVE  /\ leases' \subseteq Sessions
         /\ sig' \in [Sessions -> Transports \cup {"none"}]
         /\ counters' \in [CounterNames -> Nat]
  BY DEF TypeOK, Reserve, CounterNames

LEMMA StopProcessType ==
  ASSUME TypeOK, NEW s \in Sessions, StopProcess(s)
  PROVE  proc' \in [Sessions -> ProcStates]
  BY DEF TypeOK, StopProcess, ProcStates

LEMMA AttachType ==
  ASSUME TypeOK, IsFiniteSet(leases), NEW s \in Sessions, Attach(s)
  PROVE  /\ proc' \in [Sessions -> ProcStates]
         /\ counters' \in [CounterNames -> Nat]
         /\ watching' \subseteq Sessions
  <1>1. Cardinality(Active) \in Nat
    BY FS_Subset, FS_CardinalityType DEF Active
  <1> QED
    BY <1>1 DEF TypeOK, Attach, ProcStates, CounterNames

LEMMA LeaseStepTypeOK ==
  ASSUME TypeOK, IsFiniteSet(leases), NEW s \in Sessions, LeaseStep(s)
  PROVE  TypeOK'
  <1> USE DEF TypeOK, vars, leaseVars, hlsVars, cancVars
  <1>1. ASSUME NEW g \in Transports, Admit(s, g) PROVE TypeOK'
    BY <1>1, ReserveType DEF Admit
  <1>2. CASE RejectAtCapacity(s)
    <2>1. counters' \in [CounterNames -> Nat]
      BY <1>2 DEF RejectAtCapacity, CounterNames
    <2> QED BY <1>2, <2>1 DEF RejectAtCapacity
  <1>3. CASE ExpireReservation(s)
    BY <1>3, FinishType DEF ExpireReservation, CounterNames, ProcStates, Reasons, FinalStates
  <1>4. CASE WatchProcess(s)
    BY <1>4, FinishType DEF WatchProcess, CounterNames, ProcStates, Reasons, FinalStates
  <1>5. CASE ProcessExit(s)
    <2>1. proc' \in [Sessions -> ProcStates]
      BY <1>5 DEF ProcessExit, ProcStates
    <2> QED BY <1>5, <2>1 DEF ProcessExit
  <1> QED BY <1>1, <1>2, <1>3, <1>4, <1>5 DEF LeaseStep


LEMMA Mp4StepTypeOK ==
  ASSUME TypeOK, IsFiniteSet(leases), NEW s \in Sessions, Mp4Step(s)
  PROVE  TypeOK'
  <1> USE DEF TypeOK, vars, leaseVars, hlsVars, cancVars
  <1>1. CASE StreamRequest(s)
    BY <1>1, ReserveType DEF StreamRequest, Claim, Transports, Mp4States, ProcStates, Reasons, FinalStates, InFlight
  <1>2. CASE GeneratorStart(s)
    BY <1>2 DEF GeneratorStart, Claim, Transports, Mp4States, ProcStates, Reasons, FinalStates, InFlight
  <1>3. CASE Mp4Attached(s)
    <2>1. Attach(s)
      BY <1>3 DEF Mp4Attached
    <2>2. UNCHANGED <<leases, sig, claimed, reason, history>>
      BY <2>1 DEF Attach
    <2> QED BY <1>3, <2>1, <2>2, AttachType DEF Mp4Attached, Mp4States
  <1>4. CASE Mp4AttachRefused(s)
    BY <1>4 DEF Mp4AttachRefused, Claim, Transports, Mp4States, ProcStates, Reasons, FinalStates, InFlight
  <1>5. CASE Mp4RefusedStopped(s)
    BY <1>5, FinishType DEF Mp4RefusedStopped, Claim, Transports, Mp4States, ProcStates, Reasons, FinalStates, InFlight
  <1>6. CASE Mp4SpawnFails(s)
    BY <1>6 DEF Mp4SpawnFails, Claim, Transports, Mp4States, ProcStates, Reasons, FinalStates, InFlight
  <1>7. CASE Mp4Idle(s)
    BY <1>7, StopProcessType DEF Mp4Idle, Claim, Transports, Mp4States, ProcStates, Reasons, FinalStates, InFlight
  <1>8. CASE Mp4End(s)
    BY <1>8, FinishType DEF Mp4End, Claim, Transports, Mp4States, ProcStates, Reasons, FinalStates, InFlight
  <1>9. CASE Mp4DisconnectEarly(s)
    BY <1>9, ReleaseType DEF Mp4DisconnectEarly, Claim, Transports, Mp4States, ProcStates, Reasons, FinalStates, InFlight
  <1>10. CASE Mp4Disconnect(s)
    BY <1>10, StopProcessType DEF Mp4Disconnect, Claim, Transports, Mp4States, ProcStates, Reasons, FinalStates, InFlight
  <1>11. CASE Mp4Closed(s)
    BY <1>11, ReleaseType DEF Mp4Closed, Claim, Transports, Mp4States, ProcStates, Reasons, FinalStates, InFlight
  <1> QED BY <1>1, <1>2, <1>3, <1>4, <1>5, <1>6, <1>7, <1>8, <1>9, <1>10, <1>11 DEF Mp4Step


LEMMA HlsStepTypeOK ==
  ASSUME TypeOK, IsFiniteSet(leases), NEW s \in Sessions, HlsStep(s)
  PROVE  TypeOK'
  <1> USE DEF TypeOK, vars, leaseVars, hlsVars, cancVars
  <1>1. CASE PlaylistStart(s)
    BY <1>1, ReserveType DEF PlaylistStart, Claim, Transports, ExpiryStates, WaiterStates, Reasons
  <1>2. CASE HlsAttached(s)
    <2>1. Attach(s)
      BY <1>2 DEF HlsAttached
    <2>2. UNCHANGED <<leases, sig, claimed, reason, history>>
      BY <2>1 DEF Attach
    <2> QED BY <1>2, <2>1, <2>2, AttachType DEF HlsAttached, ExpiryStates, WaiterStates
  <1>3. CASE HlsSpawnFails(s)
    BY <1>3, ReleaseType DEF HlsSpawnFails, Claim, Transports, ExpiryStates, WaiterStates, Reasons
  <1>4. CASE PlaylistPoll(s)
    BY <1>4 DEF PlaylistPoll, Touch, Claim, Transports, ExpiryStates, WaiterStates, Reasons
  <1>5. CASE PlaylistAnswer(s)
    BY <1>5 DEF PlaylistAnswer, Touch, Claim, Transports, ExpiryStates, WaiterStates, Reasons
  <1>6. CASE StartTimeout(s)
    BY <1>6, StopProcessType DEF StartTimeout, Claim, Transports, ExpiryStates, WaiterStates, Reasons
  <1>7. CASE StartTimedOut(s)
    BY <1>7, ReleaseType DEF StartTimedOut, Claim, Transports, ExpiryStates, WaiterStates, Reasons
  <1>8. CASE HlsIdle(s)
    BY <1>8, StopProcessType DEF HlsIdle, Claim, Transports, ExpiryStates, WaiterStates, Reasons
  <1>9. CASE HlsIdleStopped(s)
    BY <1>9, ReleaseType DEF HlsIdleStopped, Claim, Transports, ExpiryStates, WaiterStates, Reasons
  <1>10. CASE HlsExited(s)
    BY <1>10 DEF HlsExited, Claim, Transports, ExpiryStates, WaiterStates, Reasons
  <1>11. CASE HlsCollect(s)
    BY <1>11 DEF HlsCollect, Claim, Transports, ExpiryStates, WaiterStates, Reasons
  <1>12. CASE HlsTtl(s)
    BY <1>12 DEF HlsTtl, Claim, Transports, ExpiryStates, WaiterStates, Reasons
  <1>13. CASE SegmentRequest(s)
    BY <1>13 DEF SegmentRequest, Touch, Claim, Transports, ExpiryStates, WaiterStates, Reasons
  <1>14. CASE HlsTtlAgain(s)
    BY <1>14 DEF HlsTtlAgain, Claim, Transports, ExpiryStates, WaiterStates, Reasons
  <1> QED
    BY <1>1, <1>2, <1>3, <1>4, <1>5, <1>6, <1>7, <1>8, <1>9, <1>10, <1>11, <1>12, <1>13, <1>14
    DEF HlsStep


LEMMA CancelStepTypeOK ==
  ASSUME TypeOK, IsFiniteSet(leases), NEW c \in Cancellers, NEW s \in Sessions, CancelStep(c, s)
  PROVE  TypeOK'
  <1> USE DEF TypeOK, vars, leaseVars, hlsVars, cancVars
  <1>1. CASE CancelAtOnce(c, s)
    BY <1>1, ReleaseType DEF CancelAtOnce, CancelStates, Reasons, FinalStates, CancelReason, PopJob, Go, AfterCancel
  <1>2. CASE CancelInFlight(c, s)
    BY <1>2 DEF CancelInFlight, CancelStates, Reasons, FinalStates, CancelReason, PopJob, Go, AfterCancel
  <1>3. CASE CancelRunning(c, s)
    BY <1>3, StopProcessType DEF CancelRunning, CancelStates, Reasons, FinalStates, CancelReason, PopJob, Go, AfterCancel
  <1>4. CASE CancelSpawned(c, s)
    BY <1>4, StopProcessType DEF CancelSpawned, CancelStates, Reasons, FinalStates, CancelReason, PopJob, Go, AfterCancel
  <1>5. CASE CancelWaitTimeout(c, s)
    BY <1>5 DEF CancelWaitTimeout, CancelStates, Reasons, FinalStates, CancelReason, PopJob, Go, AfterCancel
  <1>6. CASE CancelStopped(c, s)
    BY <1>6, FinishType DEF CancelStopped, CancelStates, Reasons, FinalStates, CancelReason, PopJob, Go, AfterCancel
  <1>7. CASE CancelCleanup(c, s)
    <2>1. owns' \in [Cancellers -> SUBSET Sessions]
      BY <1>7 DEF CancelCleanup
    <2>2. canc' \in [Cancellers -> [Sessions -> CancelStates]]
      BY <1>7 DEF CancelCleanup, CancelStates, Go
    <2>3. expiry' \in [Sessions -> ExpiryStates] /\ dirs' \subseteq Sessions
      BY <1>7 DEF CancelCleanup, ExpiryStates
    <2> QED BY <1>7, <2>1, <2>2, <2>3 DEF CancelCleanup
  <1> QED BY <1>1, <1>2, <1>3, <1>4, <1>5, <1>6, <1>7 DEF CancelStep

LEMMA NextTypeOK == TypeOK /\ IsFiniteSet(leases) /\ [Next]_vars => TypeOK'
  <1> SUFFICES ASSUME TypeOK, IsFiniteSet(leases), [Next]_vars PROVE TypeOK'
    OBVIOUS
  <1>1. CASE \E n \in Limits : SetLimit(n)
    BY <1>1, PlaybackAssumption
    DEF PlaybackAssumption, SetLimit, TypeOK, leaseVars, hlsVars, cancVars
  <1>2. CASE \E s \in Sessions : LeaseStep(s) \/ Mp4Step(s) \/ HlsStep(s)
    BY <1>2, LeaseStepTypeOK, Mp4StepTypeOK, HlsStepTypeOK
  <1>3. CASE \E c \in Cancellers, s \in Sessions : CancelStep(c, s)
    BY <1>3, CancelStepTypeOK
  <1>4. CASE UNCHANGED vars
    BY <1>4 DEF TypeOK, vars, leaseVars, hlsVars, cancVars
  <1> QED BY <1>1, <1>2, <1>3, <1>4 DEF Next

-----------------------------------------------------------------------------
(* What any step may do to the slots, the counters and the remembered outcomes *)

Endings == [state : FinalStates, reason : Reasons]

Enters(s) ==
  /\ Unknown(s) /\ HasRoom
  /\ leases' = leases \cup {s}
  /\ counters' = [counters EXCEPT !["admitted"] = @ + 1]
  /\ history' = history

Leaves(s) ==
  /\ s \in leases
  /\ leases' = leases \ {s}
  /\ \E state \in FinalStates :
       /\ counters' = [counters EXCEPT ![state] = @ + 1]
       /\ \E o \in Endings : history' = [history EXCEPT ![s] = o]

Keeps ==
  /\ leases' = leases
  /\ \A name \in FinalStates \cup {"admitted"} : counters'[name] = counters[name]
  /\ \/ history' = history
     \/ \E s \in Sessions \ leases, o \in Endings : history' = [history EXCEPT ![s] = o]

LEMMA FinishEffect ==
  ASSUME NEW s \in Sessions, NEW state \in FinalStates, NEW why \in Reasons,
         Finish(s, state, why)
  PROVE  Keeps \/ Leaves(s)
  <1>1. [state |-> state, reason |-> why] \in Endings
    BY DEF Endings
  <1> QED BY <1>1 DEF Finish, Remember, Keeps, Leaves

LEMMA ReleaseEffect ==
  ASSUME NEW s \in Sessions, NEW why \in Reasons, Release(s, why)
  PROVE  Keeps \/ Leaves(s)
  <1>1. [state |-> "cancelled", reason |-> why] \in Endings
    BY DEF Endings, FinalStates
  <1>2. CASE s \in leases
    BY <1>2, FinishEffect DEF Release, FinalStates
  <1>3. CASE s \notin leases
    BY <1>1, <1>3 DEF Release, Tombstone, Remember, Keeps
  <1> QED BY <1>2, <1>3

LEMMA ReserveEffect ==
  ASSUME NEW s \in Sessions, NEW g \in Transports, Reserve(s, g), history' = history
  PROVE  Keeps \/ Enters(s)
  BY DEF Reserve, Keeps, Enters

LEMMA AttachEffect ==
  ASSUME TypeOK, NEW s \in Sessions, Attach(s)
  PROVE  Keeps
  BY DEF Attach, Keeps, TypeOK, CounterNames, FinalStates

LEMMA StepEffect ==
  ASSUME TypeOK, [Next]_vars
  PROVE  Keeps \/ \E s \in Sessions : Enters(s) \/ Leaves(s)
  <1> USE DEF vars, leaseVars, hlsVars, cancVars
  <1>1. CASE UNCHANGED leaseVars
    BY <1>1 DEF Keeps
  <1>2. ASSUME NEW s \in Sessions, LeaseStep(s) \/ Mp4Step(s) \/ HlsStep(s)
        PROVE  Keeps \/ Enters(s) \/ Leaves(s)
    <2>1. ASSUME NEW g \in Transports, Admit(s, g) PROVE Keeps \/ Enters(s)
      BY <2>1, ReserveEffect DEF Admit
    <2>2. CASE RejectAtCapacity(s)
      BY <2>2 DEF RejectAtCapacity, Keeps, FinalStates, TypeOK, CounterNames
    <2>3. CASE ExpireReservation(s) \/ WatchProcess(s) \/ Mp4RefusedStopped(s) \/ Mp4End(s)
      <3>1. reason[s] \in Reasons /\ {"", "session_expired", "encoding"} \subseteq Reasons
        BY DEF TypeOK, Reasons
      <3>2. CASE ExpireReservation(s)
        BY <3>1, <3>2, FinishEffect DEF ExpireReservation, FinalStates
      <3>3. CASE WatchProcess(s)
        BY <3>1, <3>3, FinishEffect DEF WatchProcess, FinalStates
      <3>4. CASE Mp4RefusedStopped(s)
        BY <3>1, <3>4, FinishEffect DEF Mp4RefusedStopped, FinalStates
      <3>5. CASE Mp4End(s)
        BY <3>1, <3>5, FinishEffect DEF Mp4End, FinalStates
      <3> QED BY <2>3, <3>2, <3>3, <3>4, <3>5
    <2>4. CASE \/ Mp4DisconnectEarly(s) \/ Mp4Closed(s)
               \/ HlsSpawnFails(s) \/ StartTimedOut(s) \/ HlsIdleStopped(s)
      BY <2>4, ReleaseEffect DEF Mp4DisconnectEarly, Mp4Closed, HlsSpawnFails, StartTimedOut,
         HlsIdleStopped, Reasons
    <2>5. CASE StreamRequest(s) \/ PlaylistStart(s)
      BY <2>5, ReserveEffect DEF StreamRequest, PlaylistStart, Claim, Transports
    <2>6. CASE Mp4Attached(s) \/ HlsAttached(s)
      BY <2>6, AttachEffect DEF Mp4Attached, HlsAttached
    <2>7. CASE UNCHANGED leaseVars
      BY <2>7 DEF Keeps
    <2> QED
      BY <1>2, <2>1, <2>2, <2>3, <2>4, <2>5, <2>6, <2>7
      DEF LeaseStep, Mp4Step, HlsStep, ProcessExit, GeneratorStart, Mp4AttachRefused,
          Mp4SpawnFails, Mp4Idle, Mp4Disconnect, PlaylistPoll, PlaylistAnswer, StartTimeout,
          HlsIdle, HlsExited, HlsCollect, HlsTtl, HlsTtlAgain, SegmentRequest
  <1>3. ASSUME NEW c \in Cancellers, NEW s \in Sessions, CancelStep(c, s)
        PROVE  Keeps \/ Leaves(s)
    <2>1. CASE CancelAtOnce(c, s)
      BY <2>1, ReleaseEffect DEF CancelAtOnce, CancelReason, Reasons
    <2>2. CASE CancelStopped(c, s)
      BY <2>2, FinishEffect DEF CancelStopped, CancelReason, Reasons, FinalStates
    <2>3. CASE UNCHANGED <<leases, counters, history>>
      BY <2>3 DEF Keeps
    <2> QED
      BY <1>3, <2>1, <2>2, <2>3
      DEF CancelStep, CancelInFlight, CancelRunning, CancelSpawned, CancelWaitTimeout,
          CancelCleanup
  <1> QED BY <1>1, <1>2, <1>3 DEF Next, SetLimit

-----------------------------------------------------------------------------
(* Slots and counters *)

LEMMA FiniteStep ==
  ASSUME TypeOK, IsFiniteSet(leases), [Next]_vars
  PROVE  IsFiniteSet(leases')
  BY StepEffect, FS_AddElement, FS_RemoveElement DEF Keeps, Enters, Leaves

LEMMA ConservationStep ==
  ASSUME TypeOK, IsFiniteSet(leases), Conservation, [Next]_vars
  PROVE  Conservation'
  <1> USE DEF Conservation, TypeOK, CounterNames, FinalStates
  <1>0. Cardinality(leases) \in Nat
    BY FS_CardinalityType
  <1>1. CASE Keeps
    BY <1>1 DEF Keeps
  <1>2. ASSUME NEW s \in Sessions, Enters(s) PROVE Conservation'
    <2>1. Cardinality(leases') = Cardinality(leases) + 1
      BY <1>2, FS_AddElement DEF Enters, Unknown
    <2> QED BY <1>0, <1>2, <2>1 DEF Enters
  <1>3. ASSUME NEW s \in Sessions, Leaves(s) PROVE Conservation'
    <2>1. Cardinality(leases') = Cardinality(leases) - 1
      BY <1>3, FS_RemoveElement DEF Leaves
    <2> QED BY <1>0, <1>3, <2>1 DEF Leaves
  <1> QED BY <1>1, <1>2, <1>3, StepEffect

LEMMA NoResurrectionStep ==
  ASSUME TypeOK, NoResurrection, [Next]_vars
  PROVE  NoResurrection'
  <1> USE DEF NoResurrection, TypeOK, InHistory
  <1>1. CASE Keeps
    BY <1>1 DEF Keeps
  <1>2. ASSUME NEW s \in Sessions, Enters(s) PROVE NoResurrection'
    BY <1>2 DEF Enters, Unknown
  <1>3. ASSUME NEW s \in Sessions, Leaves(s) PROVE NoResurrection'
    BY <1>3 DEF Leaves
  <1> QED BY <1>1, <1>2, <1>3, StepEffect

-----------------------------------------------------------------------------
(* Tasks and processes: the part of the invariant that speaks of one session *)

SessionInv(s) ==
  /\ proc[s] # "none" \/ mp4[s] # "none" => s \in claimed
  /\ mp4[s] \in {"claimed", "spawning"} => proc[s] = "none"
  /\ s \in watching \cup jobs \/ waiter[s] # "none" \/ expiry[s] # "none" => proc[s] # "none"
  /\ reason[s] # "" => s \in claimed \/ InHistory(s)
  /\ hlsLock = s => /\ proc[s] = "none" /\ mp4[s] = "none"
                    /\ s \in claimed /\ s \in dirs /\ Wanted(s)
  /\ \A c \in Cancellers :
       /\ canc[c][s] = "cleanup" => s \in owns[c]
       /\ s \in owns[c] => s \notin jobs /\ proc[s] # "none" /\ canc[c][s] # "idle"
       /\ canc[c][s] = "waitSpawn" => mp4[s] \notin {"none", "claimed"}
       /\ canc[c][s] = "stopping" => mp4[s] \notin {"claimed", "spawning"}
                                    /\ (mp4[s] # "none" \/ proc[s] # "none")
  /\ Live(s) /\ mp4[s] # "refused" => s \in leases
  /\ s \in jobs => s \in dirs
  /\ s \in dirs => s \in jobs \/ hlsLock = s \/ \E c \in Cancellers : s \in owns[c]
  /\ s \in claimed => s \in leases \/ InHistory(s)
  /\ mp4[s] # "none" => sig[s] = "mp4"
  /\ history[s].state = "completed" => proc[s] = "exit0"
  /\ sig[s] = "hls" /\ reason[s] # "" /\ InHistory(s) => history[s].state = "cancelled"

\* Nothing that SessionInv(t) reads changes, except that _hls_lock may pass from
\* one other session to another.
Untouched(t) ==
  /\ proc'[t] = proc[t] /\ mp4'[t] = mp4[t] /\ expiry'[t] = expiry[t] /\ waiter'[t] = waiter[t]
  /\ reason'[t] = reason[t] /\ history'[t] = history[t]
  /\ t \in claimed' <=> t \in claimed
  /\ t \in watching' <=> t \in watching
  /\ t \in jobs' <=> t \in jobs
  /\ t \in dirs' <=> t \in dirs
  /\ t \in leases' <=> t \in leases
  /\ \A c \in Cancellers : canc'[c][t] = canc[c][t] /\ (t \in owns'[c] <=> t \in owns[c])
  /\ sig'[t] = sig[t]
  /\ hlsLock' = t <=> hlsLock = t

LEMMA UntouchedKeeps ==
  ASSUME NEW t \in Sessions, SessionInv(t), Untouched(t)
  PROVE  SessionInv(t)'
  BY DEF SessionInv, Untouched, Live, Wanted, InHistory

\* finish() and cancel() leave their session without a slot, and others alone.
LEMMA FinishSession ==
  ASSUME TypeOK, NEW s \in Sessions, NEW state, NEW why, Finish(s, state, why)
  PROVE  /\ s \notin leases'
         /\ \/ history'[s].state = state
            \/ history'[s] = history[s] /\ s \notin leases
         /\ \A t \in Sessions \ {s} : (t \in leases' <=> t \in leases) /\ history'[t] = history[t]
  BY DEF TypeOK, Finish, Remember

LEMMA ReleaseSession ==
  ASSUME TypeOK, NEW s \in Sessions, NEW why, Release(s, why)
  PROVE  /\ s \notin leases'
         /\ \/ history'[s].state = "cancelled"
            \/ history'[s] = history[s] /\ reason'[s] = reason[s] /\ s \notin leases
         /\ \A t \in Sessions \ {s} : /\ (t \in leases' <=> t \in leases)
                                      /\ history'[t] = history[t] /\ reason'[t] = reason[t]
  <1>1. CASE s \in leases
    BY <1>1 DEF Release, Finish, Remember, TypeOK
  <1>2. CASE s \notin leases
    BY <1>2 DEF Release, Tombstone, Remember, TypeOK
  <1> QED BY <1>1, <1>2

LEMMA LeaseStepOwn ==
  ASSUME TypeOK, NEW s \in Sessions, NoResurrection, SessionInv(s), LeaseStep(s)
  PROVE  SessionInv(s)'
  <1> USE PlaybackAssumption DEF PlaybackAssumption, TypeOK, SessionInv, Live, Wanted, LockFree, InHistory
  <1>1. ASSUME NEW g \in Transports, Admit(s, g) PROVE SessionInv(s)'
    BY <1>1 DEF Admit, Reserve, Unknown, hlsVars, cancVars
  <1>2. CASE RejectAtCapacity(s)
    BY <1>2 DEF RejectAtCapacity, Unknown, hlsVars, cancVars
  <1>3. CASE ExpireReservation(s)
    <2>1. /\ s \notin leases'
          /\ history'[s].state = "cancelled" \/ (history'[s] = history[s] /\ s \notin leases)
      BY <1>3, FinishSession DEF ExpireReservation, hlsVars, cancVars
    <2> QED BY <1>3, <2>1 DEF ExpireReservation, hlsVars, cancVars
  <1>4. CASE WatchProcess(s)
    <2>1. /\ s \notin leases'
          /\ \/ history'[s].state = "completed" /\ proc[s] = "exit0" /\ reason[s] = ""
             \/ history'[s].state = "failed" /\ reason[s] = ""
             \/ history'[s].state = "cancelled"
             \/ history'[s] = history[s] /\ s \notin leases
      BY <1>4, FinishSession DEF WatchProcess, hlsVars, cancVars
    <2> QED BY <1>4, <2>1 DEF WatchProcess, hlsVars, cancVars
  <1>5. CASE ProcessExit(s)
    BY <1>5 DEF ProcessExit, leaseVars, hlsVars, cancVars
  <1> QED BY <1>1, <1>2, <1>3, <1>4, <1>5 DEF LeaseStep

LEMMA LeaseStepOthers ==
  ASSUME TypeOK, NEW s \in Sessions, NEW t \in Sessions, t # s, LeaseStep(s)
  PROVE  Untouched(t)
  <1> USE PlaybackAssumption DEF PlaybackAssumption, TypeOK, Untouched
  <1>1. ASSUME NEW g \in Transports, Admit(s, g) PROVE Untouched(t)
    BY <1>1 DEF Admit, Reserve, Unknown, InHistory, hlsVars, cancVars
  <1>2. CASE RejectAtCapacity(s)
    BY <1>2 DEF RejectAtCapacity, Unknown, InHistory, hlsVars, cancVars
  <1>3. CASE ExpireReservation(s)
    BY <1>3, FinishSession DEF ExpireReservation, hlsVars, cancVars
  <1>4. CASE WatchProcess(s)
    BY <1>4, FinishSession DEF WatchProcess, Live, hlsVars, cancVars
  <1>5. CASE ProcessExit(s)
    BY <1>5 DEF ProcessExit, leaseVars, hlsVars, cancVars
  <1> QED BY <1>1, <1>2, <1>3, <1>4, <1>5 DEF LeaseStep

LEMMA Mp4StepOwn ==
  ASSUME TypeOK, NEW s \in Sessions, NoResurrection, SessionInv(s), Mp4Step(s)
  PROVE  SessionInv(s)'
  <1> USE PlaybackAssumption DEF PlaybackAssumption, TypeOK, SessionInv, Live, Wanted, LockFree, InHistory
  <1>1. CASE StreamRequest(s)
    BY <1>1 DEF StreamRequest, Claim, Reserve, Unknown, hlsVars, cancVars
  <1>2. CASE GeneratorStart(s)
    BY <1>2 DEF GeneratorStart, leaseVars, hlsVars, cancVars
  <1>3. CASE Mp4Attached(s)
    BY <1>3 DEF Mp4Attached, Attach, InFlight, hlsVars, cancVars
  <1>4. CASE Mp4AttachRefused(s)
    BY <1>4 DEF Mp4AttachRefused, InFlight, leaseVars, hlsVars, cancVars
  <1>5. CASE Mp4RefusedStopped(s)
    <2>1. /\ s \notin leases'
          /\ history'[s].state = "cancelled" \/ (history'[s] = history[s] /\ s \notin leases)
      BY <1>5, FinishSession DEF Mp4RefusedStopped, hlsVars, cancVars
    <2> QED BY <1>5, <2>1 DEF Mp4RefusedStopped, hlsVars, cancVars
  <1>6. CASE Mp4SpawnFails(s)
    BY <1>6 DEF Mp4SpawnFails, InFlight, leaseVars, hlsVars, cancVars
  <1>7. CASE Mp4Idle(s)
    BY <1>7 DEF Mp4Idle, StopProcess, leaseVars, hlsVars, cancVars
  <1>8. CASE Mp4End(s)
    <2>1. /\ s \notin leases'
          /\ \/ history'[s].state = "completed" /\ proc[s] = "exit0"
             \/ history'[s].state \in {"cancelled", "failed"}
             \/ history'[s] = history[s] /\ s \notin leases
      BY <1>8, FinishSession DEF Mp4End, hlsVars, cancVars
    <2> QED BY <1>8, <2>1 DEF Mp4End, hlsVars, cancVars
  <1>9. CASE Mp4DisconnectEarly(s)
    BY <1>9, ReleaseSession DEF Mp4DisconnectEarly, hlsVars, cancVars
  <1>10. CASE Mp4Disconnect(s)
    BY <1>10 DEF Mp4Disconnect, StopProcess, leaseVars, hlsVars, cancVars
  <1>11. CASE Mp4Closed(s)
    BY <1>11, ReleaseSession DEF Mp4Closed, hlsVars, cancVars
  <1> QED BY <1>1, <1>2, <1>3, <1>4, <1>5, <1>6, <1>7, <1>8, <1>9, <1>10, <1>11 DEF Mp4Step

LEMMA Mp4StepOthers ==
  ASSUME TypeOK, NEW s \in Sessions, NEW t \in Sessions, t # s, Mp4Step(s)
  PROVE  Untouched(t)
  <1> USE PlaybackAssumption DEF PlaybackAssumption, TypeOK, Untouched
  <1>1. CASE StreamRequest(s)
    BY <1>1 DEF StreamRequest, Claim, Reserve, Unknown, InHistory, hlsVars, cancVars
  <1>2. CASE GeneratorStart(s)
    BY <1>2 DEF GeneratorStart, leaseVars, hlsVars, cancVars
  <1>3. CASE Mp4Attached(s)
    BY <1>3 DEF Mp4Attached, Attach, InFlight, Wanted, hlsVars, cancVars
  <1>4. CASE Mp4AttachRefused(s)
    BY <1>4 DEF Mp4AttachRefused, InFlight, Wanted, leaseVars, hlsVars, cancVars
  <1>5. CASE Mp4RefusedStopped(s)
    BY <1>5, FinishSession DEF Mp4RefusedStopped, Live, hlsVars, cancVars
  <1>6. CASE Mp4SpawnFails(s)
    BY <1>6 DEF Mp4SpawnFails, InFlight, leaseVars, hlsVars, cancVars
  <1>7. CASE Mp4Idle(s)
    BY <1>7 DEF Mp4Idle, StopProcess, leaseVars, hlsVars, cancVars
  <1>8. CASE Mp4End(s)
    BY <1>8, FinishSession DEF Mp4End, Live, hlsVars, cancVars
  <1>9. CASE Mp4DisconnectEarly(s)
    BY <1>9, ReleaseSession DEF Mp4DisconnectEarly, hlsVars, cancVars
  <1>10. CASE Mp4Disconnect(s)
    BY <1>10 DEF Mp4Disconnect, StopProcess, leaseVars, hlsVars, cancVars
  <1>11. CASE Mp4Closed(s)
    BY <1>11, ReleaseSession DEF Mp4Closed, Live, hlsVars, cancVars
  <1> QED BY <1>1, <1>2, <1>3, <1>4, <1>5, <1>6, <1>7, <1>8, <1>9, <1>10, <1>11 DEF Mp4Step

LEMMA HlsStepOwn ==
  ASSUME TypeOK, NEW s \in Sessions, NoResurrection, SessionInv(s), HlsStep(s)
  PROVE  SessionInv(s)'
  <1> USE PlaybackAssumption DEF PlaybackAssumption, TypeOK, SessionInv, Live, Wanted, LockFree, InHistory
  <1>1. CASE PlaylistStart(s)
    <2>1. s \in leases' /\ s \notin claimed /\ reason[s] = ""
      BY <1>1 DEF PlaylistStart, Claim, Reserve, Unknown, cancVars, NoResurrection
    <2> QED BY <1>1, <2>1 DEF PlaylistStart, Claim, cancVars
  <1>2. CASE HlsAttached(s)
    BY <1>2 DEF HlsAttached, Attach, cancVars
  <1>3. CASE HlsSpawnFails(s)
    BY <1>3, ReleaseSession DEF HlsSpawnFails, cancVars
  <1>4. CASE PlaylistPoll(s)
    BY <1>4 DEF PlaylistPoll, Touch, leaseVars, cancVars
  <1>5. CASE PlaylistAnswer(s)
    BY <1>5 DEF PlaylistAnswer, Touch, leaseVars, cancVars
  <1>6. CASE StartTimeout(s)
    BY <1>6 DEF StartTimeout, StopProcess, leaseVars, cancVars
  <1>7. CASE StartTimedOut(s)
    BY <1>7, ReleaseSession DEF StartTimedOut, cancVars
  <1>8. CASE HlsIdle(s)
    BY <1>8 DEF HlsIdle, StopProcess, leaseVars, cancVars
  <1>9. CASE HlsIdleStopped(s)
    BY <1>9, ReleaseSession DEF HlsIdleStopped, cancVars
  <1>10. CASE HlsExited(s)
    BY <1>10 DEF HlsExited, leaseVars, cancVars
  <1>11. CASE HlsCollect(s)
    BY <1>11 DEF HlsCollect, leaseVars, cancVars
  <1>12. CASE HlsTtl(s)
    BY <1>12 DEF HlsTtl, leaseVars, cancVars
  <1>13. CASE SegmentRequest(s)
    BY <1>13 DEF SegmentRequest, Touch, leaseVars, cancVars
  <1>14. CASE HlsTtlAgain(s)
    BY <1>14 DEF HlsTtlAgain, leaseVars, cancVars
  <1> QED
    BY <1>1, <1>2, <1>3, <1>4, <1>5, <1>6, <1>7, <1>8, <1>9, <1>10, <1>11, <1>12, <1>13, <1>14
    DEF HlsStep

LEMMA HlsStepOthers ==
  ASSUME TypeOK, NEW s \in Sessions, NEW t \in Sessions, t # s, HlsStep(s)
  PROVE  Untouched(t)
  <1> USE PlaybackAssumption DEF PlaybackAssumption, TypeOK, Untouched
  <1>1. CASE PlaylistStart(s)
    BY <1>1 DEF PlaylistStart, Claim, Reserve, Unknown, LockFree, InHistory, cancVars
  <1>2. CASE HlsAttached(s)
    BY <1>2 DEF HlsAttached, Attach, Wanted, cancVars
  <1>3. CASE HlsSpawnFails(s)
    BY <1>3, ReleaseSession DEF HlsSpawnFails, cancVars
  <1>4. CASE PlaylistPoll(s)
    BY <1>4 DEF PlaylistPoll, Touch, LockFree, leaseVars, cancVars
  <1>5. CASE PlaylistAnswer(s)
    BY <1>5 DEF PlaylistAnswer, Touch, leaseVars, cancVars
  <1>6. CASE StartTimeout(s)
    BY <1>6 DEF StartTimeout, StopProcess, leaseVars, cancVars
  <1>7. CASE StartTimedOut(s)
    BY <1>7, ReleaseSession DEF StartTimedOut, Live, cancVars
  <1>8. CASE HlsIdle(s)
    BY <1>8 DEF HlsIdle, StopProcess, Live, leaseVars, cancVars
  <1>9. CASE HlsIdleStopped(s)
    BY <1>9, ReleaseSession DEF HlsIdleStopped, Live, cancVars
  <1>10. CASE HlsExited(s)
    BY <1>10 DEF HlsExited, Live, leaseVars, cancVars
  <1>11. CASE HlsCollect(s)
    BY <1>11 DEF HlsCollect, LockFree, leaseVars, cancVars
  <1>12. CASE HlsTtl(s)
    BY <1>12 DEF HlsTtl, LockFree, leaseVars, cancVars
  <1>13. CASE SegmentRequest(s)
    BY <1>13 DEF SegmentRequest, Touch, LockFree, leaseVars, cancVars
  <1>14. CASE HlsTtlAgain(s)
    BY <1>14 DEF HlsTtlAgain, LockFree, leaseVars, cancVars
  <1> QED
    BY <1>1, <1>2, <1>3, <1>4, <1>5, <1>6, <1>7, <1>8, <1>9, <1>10, <1>11, <1>12, <1>13, <1>14
    DEF HlsStep

\* The job that a canceller pops becomes its own.
LEMMA PopJobSession ==
  ASSUME TypeOK, NEW c \in Cancellers, NEW s \in Sessions, PopJob(c, s)
  PROVE  /\ s \notin jobs'
         /\ s \in owns'[c] <=> s \in owns[c] \/ s \in jobs
         /\ \A d \in Cancellers \ {c} : owns'[d] = owns[d]
  BY DEF TypeOK, PopJob

LEMMA CancelStepOwn ==
  ASSUME TypeOK, NEW c \in Cancellers, NEW s \in Sessions, NoResurrection, SessionInv(s), CancelStep(c, s)
  PROVE  SessionInv(s)'
  <1> USE PlaybackAssumption DEF PlaybackAssumption, TypeOK, SessionInv, Live, Wanted, LockFree, InHistory
  <1>1. CASE CancelAtOnce(c, s)
    <2>1. /\ PopJob(c, s) /\ Release(s, CancelReason(c)) /\ hlsLock = NoSession
          /\ canc' = [canc EXCEPT ![c][s] = IF s \in jobs THEN "cleanup" ELSE "idle"]
          /\ canc[c][s] = "idle"
          /\ UNCHANGED <<sig, claimed, proc, watching, mp4, hlsLock, dirs, expiry, waiter>>
          /\ s \in leases => proc[s] = "none" /\ ~InFlight(s)
      BY <1>1 DEF CancelAtOnce, Go, AfterCancel, MayCancel
    <2>2. /\ s \notin leases'
          /\ \/ history'[s].state = "cancelled"
             \/ history'[s] = history[s] /\ reason'[s] = reason[s] /\ s \notin leases
      BY <2>1, ReleaseSession
    <2>3. /\ s \notin owns[c] /\ s \notin jobs' /\ (s \in owns'[c] <=> s \in jobs)
          /\ \A d \in Cancellers \ {c} : owns'[d] = owns[d]
      BY <2>1, PopJobSession
    <2>4. s \in dirs' => s \in jobs' \/ hlsLock' = s \/ \E d \in Cancellers : s \in owns'[d]
      BY <2>1, <2>3
    <2>5. \A d \in Cancellers :
            /\ canc'[d][s] = "cleanup" => s \in owns'[d]
            /\ s \in owns'[d] => s \notin jobs' /\ proc'[s] # "none" /\ canc'[d][s] # "idle"
            /\ canc'[d][s] = "waitSpawn" => mp4'[s] \notin {"none", "claimed"}
            /\ canc'[d][s] = "stopping" => mp4'[s] \notin {"claimed", "spawning"}
                                         /\ (mp4'[s] # "none" \/ proc'[s] # "none")
      BY <2>1, <2>3
    <2> QED BY <2>1, <2>2, <2>3, <2>4, <2>5
  <1>2. CASE CancelInFlight(c, s)
    BY <1>2 DEF CancelInFlight, InFlight, PopJob, Go, MayCancel
  <1>3. CASE CancelRunning(c, s)
    <2>1. /\ PopJob(c, s) /\ StopProcess(s) /\ hlsLock = NoSession /\ canc[c][s] = "idle"
          /\ canc' = [canc EXCEPT ![c][s] = "stopping"]
          /\ UNCHANGED <<leases, history, sig, claimed, watching, mp4, hlsLock, dirs, expiry, waiter>>
          /\ s \in leases /\ proc[s] # "none"
      BY <1>3 DEF CancelRunning, Go, MayCancel
    <2>2. /\ proc'[s] # "none" /\ (proc'[s] = "exit0" <=> proc[s] = "exit0")
          /\ proc'[s] \in {"running", "stopping"} <=> proc[s] \in {"running", "stopping"}
      BY <2>1 DEF StopProcess
    <2>3. /\ s \notin owns[c] /\ s \notin jobs' /\ (s \in owns'[c] <=> s \in jobs)
          /\ \A d \in Cancellers \ {c} : owns'[d] = owns[d]
      BY <2>1, PopJobSession
    <2>4. s \in dirs' => s \in jobs' \/ hlsLock' = s \/ \E d \in Cancellers : s \in owns'[d]
      BY <2>1, <2>3
    <2>5. \A d \in Cancellers :
            /\ canc'[d][s] = "cleanup" => s \in owns'[d]
            /\ s \in owns'[d] => s \notin jobs' /\ proc'[s] # "none" /\ canc'[d][s] # "idle"
            /\ canc'[d][s] = "waitSpawn" => mp4'[s] \notin {"none", "claimed"}
            /\ canc'[d][s] = "stopping" => mp4'[s] \notin {"claimed", "spawning"}
                                         /\ (mp4'[s] # "none" \/ proc'[s] # "none")
      BY <2>1, <2>2, <2>3
    <2>6. ~InHistory(s)
      BY <2>1 DEF NoResurrection
    <2> QED BY <2>1, <2>2, <2>3, <2>4, <2>5, <2>6
  <1>4. CASE CancelSpawned(c, s)
    BY <1>4 DEF CancelSpawned, StopProcess, InFlight, Go, leaseVars, hlsVars
  <1>5. CASE CancelWaitTimeout(c, s)
    BY <1>5 DEF CancelWaitTimeout, InFlight, Go, AfterCancel, leaseVars, hlsVars
  <1>6. CASE CancelStopped(c, s)
    <2>1. /\ s \notin leases'
          /\ history'[s].state = "cancelled" \/ (history'[s] = history[s] /\ s \notin leases)
      BY <1>6, FinishSession DEF CancelStopped, Go, AfterCancel, hlsVars
    <2> QED BY <1>6, <2>1 DEF CancelStopped, Go, AfterCancel, hlsVars
  <1>7. CASE CancelCleanup(c, s)
    BY <1>7 DEF CancelCleanup, Go, leaseVars
  <1> QED BY <1>1, <1>2, <1>3, <1>4, <1>5, <1>6, <1>7 DEF CancelStep

LEMMA CancelStepOthers ==
  ASSUME TypeOK, NEW c \in Cancellers, NEW s \in Sessions, NEW t \in Sessions, t # s, CancelStep(c, s)
  PROVE  Untouched(t)
  <1> USE PlaybackAssumption DEF PlaybackAssumption, TypeOK, Untouched
  <1>1. CASE CancelAtOnce(c, s)
    BY <1>1, ReleaseSession DEF CancelAtOnce, InFlight, PopJob, Go, AfterCancel, MayCancel,
       LockFree
  <1>2. CASE CancelInFlight(c, s)
    BY <1>2 DEF CancelInFlight, InFlight, PopJob, Go, MayCancel, LockFree
  <1>3. CASE CancelRunning(c, s)
    BY <1>3 DEF CancelRunning, StopProcess, PopJob, Go, MayCancel, LockFree
  <1>4. CASE CancelSpawned(c, s)
    BY <1>4 DEF CancelSpawned, StopProcess, InFlight, Go, leaseVars, hlsVars
  <1>5. CASE CancelWaitTimeout(c, s)
    BY <1>5 DEF CancelWaitTimeout, InFlight, Go, AfterCancel, leaseVars, hlsVars
  <1>6. CASE CancelStopped(c, s)
    BY <1>6, FinishSession DEF CancelStopped, Go, AfterCancel, Live, hlsVars
  <1>7. CASE CancelCleanup(c, s)
    BY <1>7 DEF CancelCleanup, Go, Live, leaseVars
  <1> QED BY <1>1, <1>2, <1>3, <1>4, <1>5, <1>6, <1>7 DEF CancelStep

-----------------------------------------------------------------------------
(* The inductive invariant *)

\* What ties the tasks of all sessions to their processes, leases and files.
TaskInv ==
  /\ TasksFollowClaim /\ SpawnExclusive /\ CancellersOwn /\ DirectoryOwned /\ ClaimRemembered
  /\ TranscoderHoldsSlot /\ PlaylistBacked /\ SpawnUndisturbed /\ CompletedIsComplete
  /\ HlsCancelReported

LEMMA TaskInvBySession ==
  ASSUME TypeOK
  PROVE  TaskInv <=> \A s \in Sessions : SessionInv(s)
  <1> USE DEF SessionInv, TypeOK
  <1>1. ASSUME TaskInv, NEW s \in Sessions PROVE SessionInv(s)
    BY <1>1, PlaybackAssumption
    DEF PlaybackAssumption, TaskInv, TasksFollowClaim, SpawnExclusive, CancellersOwn,
        DirectoryOwned, ClaimRemembered, TranscoderHoldsSlot, PlaylistBacked, SpawnUndisturbed,
        CompletedIsComplete, HlsCancelReported, LockFree
  <1>2. ASSUME \A s \in Sessions : SessionInv(s) PROVE TaskInv
    <2>1. TasksFollowClaim /\ CancellersOwn
      BY <1>2 DEF TasksFollowClaim, CancellersOwn
    <2>2. SpawnExclusive /\ SpawnUndisturbed
      BY <1>2 DEF SpawnExclusive, SpawnUndisturbed, LockFree
    <2>3. TranscoderHoldsSlot /\ PlaylistBacked /\ CompletedIsComplete /\ HlsCancelReported
      BY <1>2 DEF TranscoderHoldsSlot, PlaylistBacked, CompletedIsComplete, HlsCancelReported
    <2>4. DirectoryOwned /\ ClaimRemembered
      BY <1>2 DEF DirectoryOwned, ClaimRemembered
    <2> QED BY <2>1, <2>2, <2>3, <2>4 DEF TaskInv
  <1> QED BY <1>1, <1>2

LEMMA SessionStep ==
  ASSUME TypeOK, NoResurrection, \A s \in Sessions : SessionInv(s), [Next]_vars
  PROVE  \A s \in Sessions : SessionInv(s)'
  <1>1. ASSUME NEW s \in Sessions, LeaseStep(s) \/ Mp4Step(s) \/ HlsStep(s),
               NEW t \in Sessions
        PROVE  SessionInv(t)'
    <2>1. CASE t = s
      BY <1>1, <2>1, LeaseStepOwn, Mp4StepOwn, HlsStepOwn
    <2>2. CASE t # s
      BY <1>1, <2>2, LeaseStepOthers, Mp4StepOthers, HlsStepOthers, UntouchedKeeps
    <2> QED BY <2>1, <2>2
  <1>2. ASSUME NEW c \in Cancellers, NEW s \in Sessions, CancelStep(c, s), NEW t \in Sessions
        PROVE  SessionInv(t)'
    <2>1. CASE t = s
      BY <1>2, <2>1, CancelStepOwn
    <2>2. CASE t # s
      BY <1>2, <2>2, CancelStepOthers, UntouchedKeeps
    <2> QED BY <2>1, <2>2
  <1>3. ASSUME UNCHANGED <<leaseVars, proc, watching, mp4, hlsVars, cancVars>>,
               NEW t \in Sessions
        PROVE  SessionInv(t)'
    <2>1. Untouched(t)
      BY <1>3 DEF Untouched, leaseVars, hlsVars, cancVars
    <2> QED BY <2>1, UntouchedKeeps
  <1>4. CASE \E n \in Limits : SetLimit(n)
    BY <1>3, <1>4 DEF SetLimit
  <1>5. CASE UNCHANGED vars
    BY <1>3, <1>5 DEF vars
  <1> QED BY <1>1, <1>2, <1>4, <1>5 DEF Next

LEMMA InitIInv == Init => IInv
  <1> SUFFICES ASSUME Init PROVE IInv
    OBVIOUS
  <1>1. TypeOK
    BY InitTypeOK
  <1>2. IsFiniteSet(leases) /\ Cardinality(leases) = 0
    BY FS_EmptySet DEF Init
  <1>3. Conservation
    <2>1. \A name \in CounterNames : counters[name] = 0
      BY DEF Init
    <2> QED BY <1>2, <2>1 DEF Conservation, CounterNames, FinalStates
  <1>4. ASSUME NEW s \in Sessions PROVE SessionInv(s)
    BY PlaybackAssumption
    DEF PlaybackAssumption, Init, SessionInv, Live, InHistory, NotRemembered
  <1>5. TaskInv
    BY <1>1, <1>4, TaskInvBySession
  <1> QED BY <1>1, <1>2, <1>3, <1>5 DEF IInv, TaskInv, NoResurrection, Init

LEMMA NextIInv == IInv /\ [Next]_vars => IInv'
  <1> SUFFICES ASSUME IInv, [Next]_vars PROVE IInv'
    OBVIOUS
  <1> USE DEF IInv
  <1>1. TypeOK'
    BY NextTypeOK
  <1>2. IsFiniteSet(leases')
    BY FiniteStep
  <1>3. Conservation' /\ NoResurrection'
    BY ConservationStep, NoResurrectionStep
  <1>4. \A s \in Sessions : SessionInv(s)
    BY TaskInvBySession DEF TaskInv
  <1>5. \A s \in Sessions : SessionInv(s)'
    BY <1>4, SessionStep
  <1>6. TaskInv'
    <2>1. (TypeOK => (TaskInv <=> \A s \in Sessions : SessionInv(s)))'
      BY TaskInvBySession, PTL
    <2> QED BY <1>1, <1>5, <2>1
  <1> QED BY <1>1, <1>2, <1>3, <1>6 DEF TaskInv

\* The invariant of playback.py, streaming.py and their endpoints, for every
\* number of sessions, every limit and every schedule of the event loop.
THEOREM PlaybackInvariant == Spec => []IInv
  BY InitIInv, NextIInv, PTL DEF Spec

\* Every state has its type.
THEOREM PlaybackTypeOK == Spec => []TypeOK
  <1>1. IInv => TypeOK
    BY DEF IInv
  <1> QED BY <1>1, PlaybackInvariant, PTL

\* Every admission is counted out exactly once, whoever reaches finish() first.
THEOREM PlaybackConservation == Spec => []Conservation
  <1>1. IInv => Conservation
    BY DEF IInv
  <1> QED BY <1>1, PlaybackInvariant, PTL

\* A remembered session never occupies a slot.
THEOREM PlaybackNoResurrection == Spec => []NoResurrection
  <1>1. IInv => NoResurrection
    BY DEF IInv
  <1> QED BY <1>1, PlaybackInvariant, PTL

\* An attached transcoder occupies a slot until it has exited.
THEOREM PlaybackTranscoderHoldsSlot == Spec => []TranscoderHoldsSlot
  <1>1. IInv => TranscoderHoldsSlot
    BY DEF IInv
  <1> QED BY <1>1, PlaybackInvariant, PTL

\* The directory of a registered HLS job exists, whichever of the expiry task,
\* the viewers and the budget task remove jobs.
THEOREM PlaybackPlaylistBacked == Spec => []PlaylistBacked
  <1>1. IInv => PlaylistBacked
    BY DEF IInv
  <1> QED BY <1>1, PlaybackInvariant, PTL

\* At rest a session has left no output directory, whichever of the expiry task, a
\* viewer and the budget task got to remove it: who pops a job removes its files.
THEOREM PlaybackNoLeftoverDirectory == Spec => []NoLeftoverDirectory
  <1>1. IInv => NoLeftoverDirectory
    BY DEF IInv, NoLeftoverDirectory, AtRest, DirectoryOwned, CancellersOwn
  <1> QED BY <1>1, PlaybackInvariant, PTL

\* A cancelled HLS session is reported as cancelled, by whichever of its cancellers,
\* its timers and the watcher of its process ends the lease.
THEOREM PlaybackHlsCancelReported == Spec => []HlsCancelReported
  <1>1. IInv => HlsCancelReported
    BY DEF IInv
  <1> QED BY <1>1, PlaybackInvariant, PTL

\* No canceller disturbs a spawn under _hls_lock.
THEOREM PlaybackSpawnUndisturbed == Spec => []SpawnUndisturbed
  <1>1. IInv => SpawnUndisturbed
    BY DEF IInv
  <1> QED BY <1>1, PlaybackInvariant, PTL

\* A session reported as completed ran its transcoder to exit status 0.
THEOREM PlaybackCompletedIsComplete == Spec => []CompletedIsComplete
  <1>1. IInv => CompletedIsComplete
    BY DEF IInv
  <1> QED BY <1>1, PlaybackInvariant, PTL

\* No step takes a slot beyond the limit in force, whatever the limit was when the
\* running sessions were admitted.
THEOREM PlaybackAdmissionWithinLimit == Spec => AdmissionWithinLimit
  <1> DEFINE Within == \A s \in Sessions : s \notin leases /\ s \in leases' =>
                          limit = 0 \/ Cardinality(leases') <= limit
  <1>1. ASSUME IInv, [Next]_vars PROVE Within
    <2>1. TypeOK /\ IsFiniteSet(leases) /\ limit \in Nat
      BY <1>1 DEF IInv, TypeOK
    <2>2. CASE Keeps \/ \E s \in Sessions : Leaves(s)
      BY <2>2 DEF Keeps, Leaves
    <2>3. ASSUME NEW s \in Sessions, Enters(s) PROVE Within
      <3>1. Cardinality(leases') = Cardinality(leases) + 1 /\ Cardinality(leases) \in Nat
        BY <2>1, <2>3, FS_AddElement, FS_CardinalityType DEF Enters, Unknown
      <3> QED BY <2>1, <2>3, <3>1 DEF Enters, HasRoom
    <2> QED BY <1>1, <2>1, <2>2, <2>3, StepEffect
  <1>2. ASSUME IInv, [Next]_vars PROVE [Within]_vars
    BY <1>1, <1>2
  <1> QED BY <1>2, PlaybackInvariant, PTL DEF Spec, AdmissionWithinLimit

\* A session's slot is not freed while the creation of its process is in flight,
\* neither by its cancellers nor by a timer.
THEOREM PlaybackSpawnKeepsSlot == Spec => SpawnKeepsSlot
  <1> DEFINE Kept(s) == InFlight(s) /\ s \in leases => s \in leases' \/ mp4'[s] # "spawning"
  <1>1. ASSUME IInv, [Next]_vars, NEW s \in Sessions, InFlight(s), s \in leases, mp4'[s] = "spawning"
        PROVE  s \in leases'
    <2>1. /\ mp4[s] = "spawning" /\ proc[s] = "none" /\ s \in claimed /\ s \notin watching
          /\ waiter[s] = "none" /\ expiry[s] = "none" /\ hlsLock # s
          /\ \A c \in Cancellers : canc[c][s] # "stopping"
      BY <1>1, PlaybackAssumption
      DEF PlaybackAssumption, IInv, TypeOK, TasksFollowClaim, SpawnExclusive, CancellersOwn,
          InFlight, LockFree
    <2>2. TypeOK
      BY <1>1 DEF IInv
    <2>3. ASSUME NEW t \in Sessions, t # s, LeaseStep(t) \/ Mp4Step(t) \/ HlsStep(t)
          PROVE  s \in leases'
      BY <1>1, <2>2, <2>3, LeaseStepOthers, Mp4StepOthers, HlsStepOthers DEF Untouched
    <2>4. ASSUME NEW c \in Cancellers, NEW t \in Sessions, t # s, CancelStep(c, t)
          PROVE  s \in leases'
      BY <1>1, <2>2, <2>4, CancelStepOthers DEF Untouched
    <2>5. CASE LeaseStep(s)
      BY <1>1, <2>1, <2>5
      DEF LeaseStep, Admit, Reserve, RejectAtCapacity, ExpireReservation, WatchProcess,
          ProcessExit, leaseVars
    <2>6. CASE Mp4Step(s)
      BY <1>1, <2>1, <2>2, <2>6
      DEF Mp4Step, TypeOK, StreamRequest, GeneratorStart, Mp4Attached, Mp4AttachRefused,
          Mp4RefusedStopped, Mp4SpawnFails, Mp4Idle, Mp4End, Mp4DisconnectEarly, Mp4Disconnect,
          Mp4Closed
    <2>7. CASE HlsStep(s)
      BY <1>1, <2>1, <2>7
      DEF HlsStep, PlaylistStart, Claim, Reserve, HlsAttached, Attach, HlsSpawnFails,
          PlaylistPoll, PlaylistAnswer, StartTimeout, StartTimedOut, HlsIdle, HlsIdleStopped,
          HlsExited, HlsCollect, HlsTtl, HlsTtlAgain, SegmentRequest, leaseVars
    <2>8. ASSUME NEW c \in Cancellers, CancelStep(c, s) PROVE s \in leases'
      BY <1>1, <2>1, <2>8
      DEF CancelStep, CancelAtOnce, CancelInFlight, CancelRunning, CancelSpawned,
          CancelWaitTimeout, CancelStopped, CancelCleanup, leaseVars
    <2>9. CASE UNCHANGED leases
      BY <1>1, <2>9
    <2> QED
      BY <1>1, <2>3, <2>4, <2>5, <2>6, <2>7, <2>8, <2>9 DEF Next, SetLimit, vars, leaseVars
  <1>2. ASSUME IInv, [Next]_vars PROVE [\A s \in Sessions : Kept(s)]_vars
    BY <1>1, <1>2
  <1> QED BY <1>2, PlaybackInvariant, PTL DEF Spec, SpawnKeepsSlot

-----------------------------------------------------------------------------
(* Playback implements the contract of a session id *)

LeaseMap == [s \in Sessions |-> LeaseOf(s)]

\* Only the administrator changes the limit, and nothing else in the same step.
LEMMA LimitStep ==
  ASSUME [Next]_vars
  PROVE  limit' = limit \/ (limit' \in Limits /\ UNCHANGED LeaseMap)
  <1> USE DEF vars, leaseVars, hlsVars, cancVars
  <1>1. CASE \E n \in Limits : SetLimit(n)
    BY <1>1 DEF SetLimit, LeaseMap, LeaseOf, InHistory
  <1>2. ASSUME NEW s \in Sessions, LeaseStep(s) \/ Mp4Step(s) PROVE limit' = limit
    BY <1>2
    DEF LeaseStep, Mp4Step, Admit, RejectAtCapacity, ExpireReservation, WatchProcess, ProcessExit,
        StreamRequest, GeneratorStart, Mp4Attached, Mp4AttachRefused, Mp4RefusedStopped,
        Mp4SpawnFails, Mp4Idle, Mp4End, Mp4DisconnectEarly, Mp4Disconnect, Mp4Closed
  <1>3. ASSUME NEW s \in Sessions, HlsStep(s) PROVE limit' = limit
    BY <1>3
    DEF HlsStep, PlaylistStart, HlsAttached, HlsSpawnFails, PlaylistPoll, PlaylistAnswer,
        StartTimeout, StartTimedOut, HlsIdle, HlsIdleStopped, HlsExited, HlsCollect, HlsTtl,
        HlsTtlAgain, SegmentRequest
  <1>4. ASSUME NEW c \in Cancellers, NEW s \in Sessions, CancelStep(c, s) PROVE limit' = limit
    BY <1>4
    DEF CancelStep, CancelAtOnce, CancelInFlight, CancelRunning, CancelSpawned,
        CancelWaitTimeout, CancelStopped, CancelCleanup
  <1> QED BY <1>1, <1>2, <1>3, <1>4 DEF Next

\* What the map says after a step that changes the state of t at most.
LEMMA LeaseMapAfter ==
  ASSUME NEW t \in Sessions, \A s \in Sessions \ {t} : LeaseOf(s)' = LeaseOf(s)
  PROVE  LeaseMap' = [LeaseMap EXCEPT ![t] = LeaseOf(t)']
  BY DEF LeaseMap

\* The instance has its own name for the same definition.
LEMMA ContractCardinality == ASSUME NEW S PROVE Contract!Cardinality(S) = Cardinality(S)
  BY DEF Contract!Cardinality, Cardinality

LEMMA EntersAdmits ==
  ASSUME TypeOK, NEW t \in Sessions, Enters(t), limit' = limit
  PROVE  Contract!Admit(t)
  <1>1. LeaseOf(t) = "unknown" /\ LeaseOf(t)' = "held"
    BY DEF Enters, Unknown, LeaseOf, InHistory
  <1>2. \A s \in Sessions \ {t} : LeaseOf(s)' = LeaseOf(s)
    BY DEF Enters, LeaseOf, InHistory
  <1>3. LeaseMap' = [LeaseMap EXCEPT ![t] = "held"] /\ LeaseMap[t] = "unknown"
    BY <1>1, <1>2, LeaseMapAfter DEF LeaseMap
  <1>4. Contract!Held = leases
    BY DEF Contract!Held, LeaseOf, TypeOK
  <1>5. Contract!HasRoom
    BY <1>4, ContractCardinality DEF Enters, HasRoom, Contract!HasRoom
  <1> QED BY <1>3, <1>5 DEF Contract!Admit, LeaseMap

\* An outcome that is remembered for t ends t, unless it was over.
LEMMA EndingEnds ==
  ASSUME TypeOK, NEW t \in Sessions, NEW o \in Endings, t \notin leases', limit' = limit,
         leases' \subseteq leases, leases \ {t} \subseteq leases',
         history' = [history EXCEPT ![t] = o]
  PROVE  Contract!End(t) \/ UNCHANGED LeaseMap
  <1>1. InHistory(t)' /\ \A s \in Sessions \ {t} : InHistory(s)' = InHistory(s)
    BY DEF TypeOK, InHistory, Endings, FinalStates
  <1>2. LeaseOf(t)' = "over"
    BY <1>1 DEF LeaseOf
  <1>3. \A s \in Sessions \ {t} : LeaseOf(s)' = LeaseOf(s)
    BY <1>1 DEF LeaseOf
  <1>4. LeaseMap' = [LeaseMap EXCEPT ![t] = "over"] /\ LeaseMap[t] = LeaseOf(t)
    BY <1>2, <1>3, LeaseMapAfter DEF LeaseMap
  <1>5. CASE LeaseOf(t) = "over"
    BY <1>4, <1>5 DEF LeaseMap
  <1>6. CASE LeaseOf(t) # "over"
    BY <1>4, <1>6 DEF Contract!End, LeaseMap
  <1> QED BY <1>5, <1>6

LEMMA KeepsImplements ==
  ASSUME TypeOK, Keeps, limit' = limit
  PROVE  Contract!Next \/ UNCHANGED LeaseMap
  <1>1. CASE history' = history
    BY <1>1 DEF Keeps, LeaseMap, LeaseOf, InHistory
  <1>2. ASSUME NEW t \in Sessions \ leases, NEW o \in Endings, history' = [history EXCEPT ![t] = o]
        PROVE  Contract!Next \/ UNCHANGED LeaseMap
    BY <1>2, EndingEnds DEF Keeps, Contract!Next
  <1> QED BY <1>1, <1>2 DEF Keeps

\* Every step of Playback is a step of the contract, or none.
LEMMA NextImplements ==
  ASSUME TypeOK, [Next]_vars
  PROVE  Contract!Next \/ UNCHANGED <<LeaseMap, limit>>
  <1>1. CASE limit' \in Limits /\ UNCHANGED LeaseMap
    BY <1>1 DEF Contract!Next, Contract!SetLimit, LeaseMap
  <1>2. CASE limit' = limit
    <2>1. ASSUME NEW t \in Sessions, Enters(t) PROVE Contract!Next
      BY <1>2, <2>1, EntersAdmits DEF Contract!Next
    <2>2. ASSUME NEW t \in Sessions, Leaves(t) PROVE Contract!Next \/ UNCHANGED LeaseMap
      <3>1. PICK o \in Endings : history' = [history EXCEPT ![t] = o]
        BY <2>2 DEF Leaves
      <3> QED BY <1>2, <2>2, <3>1, EndingEnds DEF Leaves, Contract!Next
    <2> QED BY <1>2, <2>1, <2>2, StepEffect, KeepsImplements
  <1> QED BY <1>1, <1>2, LimitStep

\* The slots, the tombstones and the remembered outcomes, with every interleaving
\* of admissions, transports, timers and cancellers, keep the promise that the
\* page relies on: an id is admitted at most once, within the limit, and stays
\* over once it is over.
THEOREM PlaybackImplementsLease == Spec => ImplementsLease
  <1>1. Init => Contract!Init
    <2>1. ASSUME Init, NEW s \in Sessions PROVE LeaseOf(s) = "unknown"
      <3>1. leases = {} /\ history[s].state = "none"
        BY <2>1 DEF Init, NotRemembered
      <3> QED BY <3>1 DEF LeaseOf, InHistory
    <2> QED BY <2>1 DEF Contract!Init, Init
  <1>2. ASSUME TypeOK, [Next]_vars PROVE [Contract!Next]_<<LeaseMap, limit>>
    BY <1>2, NextImplements
  <1> QED BY <1>1, <1>2, PlaybackTypeOK, PTL DEF Spec, ImplementsLease, Contract!Spec, LeaseMap

=============================================================================
