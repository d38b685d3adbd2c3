--------------------------- MODULE IndexingProofs ---------------------------
(***************************************************************************)
(* Proofs about Indexing: its inductive invariant, and with it, for any    *)
(* partitions, requests, number of rebuilds and faults, the safety         *)
(* properties that the runs check on a few partitions and requests.        *)
(***************************************************************************)
EXTENDS Indexing, FiniteSetTheorems, TLAPS

-----------------------------------------------------------------------------
(* Type correctness *)

LEMMA InitTypeOK == Init => TypeOK
  <1> SUFFICES ASSUME Init PROVE TypeOK
    OBVIOUS
  <1>1. status \in [Partitions -> Statuses]
    BY DEF Init, Statuses
  <1>2. pc \in [Threads -> Pcs] /\ rebuild \in RebuildStates
    BY DEF Init, Pcs, RebuildStates
  <1> QED BY <1>1, <1>2 DEF Init, TypeOK

LEMMA GotoType ==
  ASSUME TypeOK, NEW t \in Threads, NEW w \in Pcs, Goto(t, w)
  PROVE  pc' \in [Threads -> Pcs]
  BY DEF TypeOK, Goto

LEMMA RequestIsThread == Requests \subseteq Threads /\ Autoscan \in Threads
  BY DEF Threads

LEMMA SetStatusType ==
  ASSUME TypeOK, NEW p, NEW s \in Statuses, SetStatus(p, s)
  PROVE  status' \in [Partitions -> Statuses] /\ unrecorded' \subseteq Partitions
  BY DEF TypeOK, SetStatus

LEMMA EndJobType ==
  ASSUME TypeOK, EndJob
  PROVE  active' \in Nat
  BY DEF TypeOK, EndJob

LEMMA RequestStepTypeOK ==
  ASSUME TypeOK, NEW r \in Requests, RequestStep(r)
  PROVE  TypeOK'
  <1> USE RequestIsThread DEF TypeOK, rowVars, guardVars, threadVars
  <1>1. CASE PrepareBegin(r)
    BY <1>1 DEF PrepareBegin, BeginJob, Goto, Pcs
  <1>2. ASSUME NEW P \in SUBSET Partitions, PrepareWrite(r, P)
        PROVE  TypeOK'
    <2>1. status' \in [Partitions -> Statuses] /\ unrecorded' \subseteq Partitions
      BY <1>2 DEF PrepareWrite, Statuses
    <2>2. jobs' \in [Requests -> SUBSET Partitions]
      BY <1>2 DEF PrepareWrite
    <2>3. pc' \in [Threads -> Pcs]
      BY <1>2 DEF PrepareWrite, Goto, Pcs
    <2>4. active' \in Nat
      BY <1>2, EndJobType DEF PrepareWrite
    <2> QED BY <1>2, <2>1, <2>2, <2>3, <2>4 DEF PrepareWrite
  <1>3. ASSUME NEW p \in Partitions, Queue(r, p)
        PROVE  TypeOK'
    BY <1>3 DEF Queue, Goto, Pcs
  <1>4. CASE Admit(r)
    BY <1>4 DEF Admit, Goto, Pcs, SlotPcs
  <1> QED BY <1>1, <1>2, <1>3, <1>4 DEF RequestStep

LEMMA ScanStepTypeOK ==
  ASSUME TypeOK, JobsAssigned, NEW t \in Threads, ScanStep(t)
  PROVE  TypeOK'
  <1> USE RequestIsThread DEF TypeOK, rowVars, guardVars, threadVars
  <1>0. /\ {"ready", "missing", "error", "scanning", "background"} \subseteq Statuses
        /\ JobPcs \cup {"leave", "jobs", "done", "idle"} \subseteq Pcs
    BY DEF Statuses, Pcs, SlotPcs, LockPcs, JobPcs
  <1>1. CASE Begin(t)
    BY <1>0, <1>1 DEF Begin, BeginJob, Goto, JobPcs
  <1>2. CASE Busy(t)
    BY <1>0, <1>2 DEF Busy, Goto
  <1>3. CASE Reserve(t)
    BY <1>0, <1>3, SetStatusType, GotoType DEF Reserve, JobPcs
  <1>4. CASE Probe(t)
    BY <1>0, <1>4, GotoType DEF Probe, JobPcs
  <1>5. CASE Write(t)
    <2>1. part[t] \in Partitions
      BY <1>5 DEF JobsAssigned, At, SlotPcs, LockPcs, JobPcs, Write
    <2> QED BY <1>0, <1>5, <2>1, GotoType DEF Write, JobPcs
  <1>6. CASE Finalize(t)
    <2>1. part[t] \in Partitions
      BY <1>6 DEF JobsAssigned, At, SlotPcs, LockPcs, JobPcs, Finalize
    <2>2. status' \in [Partitions -> Statuses] /\ unrecorded' \subseteq Partitions
      BY <1>0, <1>6, SetStatusType DEF Finalize
    <2>3. fresh' \subseteq Partitions
      BY <1>6, <2>1 DEF Finalize
    <2> QED BY <1>0, <1>6, <2>2, <2>3, GotoType DEF Finalize, JobPcs
  <1>7. CASE Purge(t)
    BY <1>0, <1>7, GotoType DEF Purge, JobPcs
  <1>8. CASE Missing(t)
    <2>1. part[t] \in Partitions
      BY <1>8 DEF JobsAssigned, At, SlotPcs, LockPcs, JobPcs, Missing
    <2>2. /\ status' \in [Partitions -> Statuses]
          /\ fresh' \subseteq Partitions /\ unrecorded' \subseteq Partitions
      BY <1>0, <1>8, <2>1 DEF Missing
    <2> QED BY <1>0, <1>8, <2>2, GotoType DEF Missing, JobPcs
  <1>9. CASE Fail(t)
    BY <1>0, <1>9, SetStatusType, GotoType DEF Fail, JobPcs
  <1>10. CASE End(t)
    BY <1>0, <1>10, EndJobType, GotoType DEF End
  <1>11. CASE Leave(t)
    BY <1>0, <1>11 DEF Leave, Goto
  <1>12. CASE FailUnrecorded(t)
    <2>1. part[t] \in Partitions
      BY <1>12 DEF JobsAssigned, At, SlotPcs, LockPcs, JobPcs, FailUnrecorded, Failing
    <2> QED BY <1>0, <1>12, <2>1, GotoType DEF FailUnrecorded, JobPcs
  <1> QED
    BY <1>1, <1>2, <1>3, <1>4, <1>5, <1>6, <1>7, <1>8, <1>9, <1>10, <1>11, <1>12 DEF ScanStep

LEMMA AutoStepTypeOK ==
  ASSUME TypeOK, AutoStep
  PROVE  TypeOK'
  <1> USE RequestIsThread DEF TypeOK, rowVars, guardVars, threadVars
  <1>0. /\ {"unknown", "missing"} \subseteq Statuses
        /\ {"idle", "due", "picked", "admitted", "leave", "ending"} \subseteq Pcs
    BY DEF Statuses, Pcs, SlotPcs, LockPcs, JobPcs
  <1>1. CASE AutoRead
    BY <1>0, <1>1 DEF AutoRead, Goto
  <1>2. CASE AutoSkip
    BY <1>0, <1>2, GotoType DEF AutoSkip
  <1>3. CASE AdmitAuto
    BY <1>0, <1>3, GotoType DEF AdmitAuto
  <1>4. CASE ReserveRefused
    BY <1>0, <1>4, EndJobType, GotoType DEF ReserveRefused
  <1>5. CASE MissingToday
    BY <1>0, <1>5, SetStatusType, GotoType DEF MissingToday
  <1>6. ASSUME NEW p \in Partitions, AutoPick(p)
        PROVE  TypeOK'
    BY <1>0, <1>6 DEF AutoPick, Goto
  <1> QED BY <1>1, <1>2, <1>3, <1>4, <1>5, <1>6 DEF AutoStep

LEMMA RebuildStepTypeOK ==
  ASSUME TypeOK, RebuildStep
  PROVE  TypeOK'
  <1> USE DEF TypeOK, rowVars, guardVars, threadVars
  <1>1. CASE RebuildBegin
    BY <1>1 DEF RebuildBegin, RebuildStates
  <1>2. CASE RebuildEnter
    BY <1>2 DEF RebuildEnter, RebuildStates
  <1>3. CASE RebuildClear
    BY <1>3 DEF RebuildClear, RebuildStates, Statuses
  <1>4. CASE RebuildEnd
    BY <1>4 DEF RebuildEnd, RebuildStates
  <1>5. CASE RebuildFails
    BY <1>5 DEF RebuildFails, RebuildStates
  <1> QED BY <1>1, <1>2, <1>3, <1>4, <1>5 DEF RebuildStep

LEMMA RestartTypeOK ==
  ASSUME TypeOK, Restart
  PROVE  TypeOK'
  <1>1. status' \in [Partitions -> Statuses]
    BY DEF Restart, Recovered, TypeOK, Statuses
  <1> QED BY <1>1 DEF Restart, TypeOK, RebuildStates, Pcs

LEMMA NextTypeOK ==
  ASSUME TypeOK, JobsAssigned, [Next]_vars
  PROVE  TypeOK'
  <1>1. CASE UNCHANGED vars
    BY <1>1 DEF TypeOK, vars, rowVars, guardVars, threadVars
  <1>2. ASSUME NEW p \in Partitions, Expire(p)
        PROVE  TypeOK'
    BY <1>2 DEF TypeOK, Expire, rowVars, guardVars, threadVars
  <1> QED
    BY <1>1, <1>2, RequestStepTypeOK, ScanStepTypeOK, AutoStepTypeOK, RebuildStepTypeOK,
       RestartTypeOK DEF Next

-----------------------------------------------------------------------------
(* What one thread does to the count of jobs and to the slot *)

LEMMA ThreadsFinite == IsFiniteSet(Threads) /\ IsFiniteSet(Working) /\ IsFiniteSet(Working')
  <1>1. IsFiniteSet(Threads)
    BY IndexingAssumption, FS_AddElement DEF IndexingAssumption, Threads
  <1>2. Working \subseteq Threads /\ Working' \subseteq Threads
    BY DEF Working
  <1> QED BY <1>1, <1>2, FS_Subset

LEMMA Enters ==
  ASSUME TypeOK, JobsCounted, NEW t \in Threads, NEW w \in JobPcs,
         ~At(t, JobPcs), Goto(t, w), BeginJob
  PROVE  JobsCounted'
  <1>1. Working' = Working \cup {t} /\ t \notin Working
    BY DEF TypeOK, Working, At, Goto
  <1>2. Cardinality(Working') = Cardinality(Working) + 1
    BY <1>1, ThreadsFinite, FS_AddElement
  <1> QED BY <1>2 DEF JobsCounted, BeginJob

LEMMA Exits ==
  ASSUME TypeOK, JobsCounted, NEW t \in Threads, NEW w, w \notin JobPcs,
         At(t, JobPcs), Goto(t, w), EndJob
  PROVE  JobsCounted'
  <1>1. Working' = Working \ {t} /\ t \in Working
    BY DEF TypeOK, Working, At, Goto
  <1>2. Cardinality(Working') = Cardinality(Working) - 1
    BY <1>1, ThreadsFinite, FS_RemoveElement
  <1>3. Cardinality(Working') \in Nat /\ Cardinality(Working) \in Nat
    BY ThreadsFinite, FS_CardinalityType
  <1> QED BY <1>2, <1>3 DEF JobsCounted, EndJob

LEMMA Stays ==
  ASSUME TypeOK, JobsCounted, NEW t \in Threads, NEW w, At(t, JobPcs) <=> w \in JobPcs,
         Goto(t, w), UNCHANGED active
  PROVE  JobsCounted'
  <1>1. Working' = Working
    BY DEF TypeOK, Working, At, Goto
  <1> QED BY <1>1 DEF JobsCounted

LEMMA SlotKept ==
  ASSUME TypeOK, SlotHeld, NEW t \in Threads, NEW w, w \in SlotPcs => At(t, SlotPcs),
         Goto(t, w), UNCHANGED running
  PROVE  SlotHeld'
  BY DEF TypeOK, SlotHeld, At, Goto

LEMMA SlotTaken ==
  ASSUME TypeOK, SlotHeld, NEW t \in Threads, NEW w \in SlotPcs,
         ~running, Goto(t, w), running' = TRUE
  PROVE  SlotHeld'
  BY DEF TypeOK, SlotHeld, At, Goto

LEMMA SlotFreed ==
  ASSUME TypeOK, SlotHeld, NEW t \in Threads, NEW w, w \notin SlotPcs, At(t, SlotPcs), Goto(t, w)
  PROVE  SlotHeld'
  BY DEF TypeOK, SlotHeld, At, Goto

\* An action that takes no thread into a job leaves a rebuild alone.
LEMMA AloneKept ==
  ASSUME TypeOK, RebuildAlone, NEW t \in Threads, NEW w, w \in JobPcs => At(t, JobPcs),
         Goto(t, w), UNCHANGED rebuild
  PROVE  RebuildAlone'
  <1>1. Working' \subseteq Working
    BY DEF TypeOK, Working, At, Goto
  <1> QED BY <1>1 DEF RebuildAlone

-----------------------------------------------------------------------------
(* The guard and the slot *)

\* The jobs are counted, the slot has one holder, a rebuild is alone.
Guarded == JobsCounted /\ SlotHeld /\ RebuildInWindow /\ RebuildAlone

LEMMA RequestStepGuarded ==
  ASSUME TypeOK, Guarded, NEW r \in Requests, RequestStep(r)
  PROVE  Guarded'
  <1> USE RequestIsThread DEF Guarded, rowVars, guardVars, threadVars
  <1> USE DEF SlotPcs, LockPcs, JobPcs, At
  <1>1. CASE PrepareBegin(r)
    <2>1. JobsCounted'
      BY <1>1, Enters DEF PrepareBegin
    <2>2. SlotHeld'
      BY <1>1, SlotKept DEF PrepareBegin
    <2>3. RebuildInWindow' /\ RebuildAlone'
      BY <1>1 DEF PrepareBegin, RebuildInWindow, RebuildAlone
    <2> QED BY <2>1, <2>2, <2>3
  <1>2. ASSUME NEW P \in SUBSET Partitions, PrepareWrite(r, P)
        PROVE  Guarded'
    <2> DEFINE w == IF \E p \in P : Due(p) THEN "jobs" ELSE "done"
    <2>1. Goto(r, w) /\ w \in {"jobs", "done"} /\ pc[r] = "prepare" /\ EndJob /\ UNCHANGED <<running, rebuild, maintenance>>
      BY <1>2 DEF PrepareWrite
    <2> HIDE DEF w
    <2>2. JobsCounted'
      BY <2>1, Exits
    <2>3. SlotHeld'
      BY <2>1, SlotKept
    <2>4. RebuildAlone'
      BY <2>1, AloneKept
    <2> QED BY <2>1, <2>2, <2>3, <2>4 DEF RebuildInWindow
  <1>3. ASSUME NEW p \in Partitions, Queue(r, p)
        PROVE  Guarded'
    BY <1>3, Stays, SlotKept, AloneKept DEF Queue, RebuildInWindow
  <1>4. CASE Admit(r)
    BY <1>4, Stays, SlotTaken, AloneKept DEF Admit, RebuildInWindow
  <1> QED BY <1>1, <1>2, <1>3, <1>4 DEF RequestStep

LEMMA ScanStepGuarded ==
  ASSUME TypeOK, Guarded, NEW t \in Threads, ScanStep(t)
  PROVE  Guarded'
  <1> USE DEF Guarded, rowVars, guardVars, threadVars
  <1> USE DEF SlotPcs, LockPcs, JobPcs, At
  <1>1. CASE Begin(t)
    <2>1. JobsCounted'
      BY <1>1, Enters DEF Begin
    <2>2. SlotHeld'
      BY <1>1, SlotKept DEF Begin
    <2>3. RebuildInWindow' /\ RebuildAlone'
      BY <1>1 DEF Begin, MayBegin, RebuildInWindow, RebuildAlone
    <2> QED BY <2>1, <2>2, <2>3
  <1>2. CASE Busy(t)
    BY <1>2, Stays, SlotKept, AloneKept DEF Busy, RebuildInWindow
  <1>3. CASE Reserve(t)
    BY <1>3, Stays, SlotKept, AloneKept DEF Reserve, RebuildInWindow
  <1>4. CASE Probe(t)
    BY <1>4, Stays, SlotKept, AloneKept DEF Probe, RebuildInWindow
  <1>5. CASE Write(t)
    BY <1>5, Stays, SlotKept, AloneKept DEF Write, RebuildInWindow
  <1>6. CASE Finalize(t)
    BY <1>6, Stays, SlotKept, AloneKept DEF Finalize, RebuildInWindow
  <1>7. CASE Purge(t)
    BY <1>7, Stays, SlotKept, AloneKept DEF Purge, RebuildInWindow
  <1>8. CASE Missing(t)
    BY <1>8, Stays, SlotKept, AloneKept DEF Missing, RebuildInWindow
  <1>9. CASE Fail(t)
    BY <1>9, Stays, SlotKept, AloneKept DEF Fail, Failing, RebuildInWindow
  <1>10. CASE End(t)
    BY <1>10, Exits, SlotKept, AloneKept DEF End, RebuildInWindow
  <1>11. CASE Leave(t)
    <2> DEFINE w == IF t = Autoscan THEN "idle" ELSE IF jobs[t] = {} THEN "done" ELSE "jobs"
    <2>1. Goto(t, w) /\ w \in {"idle", "done", "jobs"} /\ pc[t] = "leave"
          /\ UNCHANGED <<active, maintenance, rebuild>>
      BY <1>11 DEF Leave
    <2> HIDE DEF w
    <2> QED BY <2>1, Stays, SlotFreed, AloneKept DEF RebuildInWindow
  <1>12. CASE FailUnrecorded(t)
    BY <1>12, Stays, SlotKept, AloneKept DEF FailUnrecorded, Failing, RebuildInWindow
  <1> QED
    BY <1>1, <1>2, <1>3, <1>4, <1>5, <1>6, <1>7, <1>8, <1>9, <1>10, <1>11, <1>12 DEF ScanStep

LEMMA AutoStepGuarded ==
  ASSUME TypeOK, Guarded, AutoStep
  PROVE  Guarded'
  <1> USE RequestIsThread DEF Guarded, rowVars, guardVars, threadVars
  <1> USE DEF SlotPcs, LockPcs, JobPcs, At
  <1>1. CASE AutoRead
    BY <1>1, Stays, SlotKept, AloneKept DEF AutoRead, RebuildInWindow
  <1>2. CASE AutoSkip
    BY <1>2, Stays, SlotKept, AloneKept DEF AutoSkip, RebuildInWindow
  <1>3. CASE AdmitAuto
    BY <1>3, Stays, SlotTaken, SlotKept, AloneKept DEF AdmitAuto, RebuildInWindow
  <1>4. CASE ReserveRefused
    BY <1>4, Exits, SlotKept, AloneKept DEF ReserveRefused, RebuildInWindow
  <1>5. CASE MissingToday
    BY <1>5, Stays, SlotKept, AloneKept DEF MissingToday, RebuildInWindow
  <1>6. ASSUME NEW p \in Partitions, AutoPick(p)
        PROVE  Guarded'
    BY <1>6, Stays, SlotKept, AloneKept DEF AutoPick, RebuildInWindow
  <1> QED BY <1>1, <1>2, <1>3, <1>4, <1>5, <1>6 DEF AutoStep

LEMMA RebuildStepGuarded ==
  ASSUME TypeOK, Guarded, RebuildStep
  PROVE  Guarded'
  <1>0. UNCHANGED <<running, active, pc>>
    BY DEF RebuildStep, RebuildBegin, RebuildEnter, RebuildClear, RebuildEnd, RebuildFails,
           guardVars, threadVars, rowVars
  <1>1. Working' = Working
    BY <1>0 DEF Working, At
  <1>2. JobsCounted' /\ SlotHeld'
    BY <1>0, <1>1 DEF Guarded, JobsCounted, SlotHeld, At
  <1>3. RebuildInWindow'
    BY DEF Guarded, RebuildInWindow, RebuildStep, RebuildBegin, RebuildEnter, RebuildClear,
           RebuildEnd, RebuildFails, guardVars
  <1>4. CASE RebuildEnter
    <2>1. Cardinality(Working) = 0
      BY <1>4 DEF RebuildEnter, Guarded, JobsCounted
    <2>2. Working = {}
      BY <2>1, ThreadsFinite, FS_EmptySet
    <2> QED BY <1>1, <1>2, <1>3, <2>2 DEF Guarded, RebuildAlone
  <1>5. CASE ~RebuildEnter
    <2>1. rebuild' \in {"clearing", "cleared"} => rebuild \in {"clearing", "cleared"}
      BY <1>5 DEF RebuildStep, RebuildBegin, RebuildClear, RebuildEnd, RebuildFails
    <2> QED BY <1>1, <1>2, <1>3, <2>1 DEF Guarded, RebuildAlone
  <1> QED BY <1>4, <1>5

LEMMA RestartGuarded ==
  ASSUME TypeOK, Restart
  PROVE  Guarded'
  <1>1. Working' = {}
    BY DEF Restart, Working, At, JobPcs
  <1>2. JobsCounted' /\ RebuildAlone'
    BY <1>1, FS_EmptySet DEF JobsCounted, RebuildAlone, Restart
  <1>3. SlotHeld' /\ RebuildInWindow'
    BY DEF SlotHeld, RebuildInWindow, Restart, At, SlotPcs, LockPcs, JobPcs
  <1> QED BY <1>2, <1>3 DEF Guarded

LEMMA InitGuarded == Init => Guarded
  <1> SUFFICES ASSUME Init PROVE Guarded
    OBVIOUS
  <1>1. Working = {}
    BY DEF Init, Working, At, JobPcs
  <1>2. JobsCounted /\ RebuildAlone
    BY <1>1, FS_EmptySet DEF JobsCounted, RebuildAlone, Init
  <1>3. SlotHeld /\ RebuildInWindow
    BY DEF SlotHeld, RebuildInWindow, Init, At, SlotPcs, LockPcs, JobPcs
  <1> QED BY <1>2, <1>3 DEF Guarded

LEMMA NextGuarded ==
  ASSUME TypeOK, Guarded, [Next]_vars
  PROVE  Guarded'
  <1>1. ASSUME UNCHANGED <<guardVars, running, rebuild, pc>>
        PROVE  Guarded'
    <2>1. Working' = Working
      BY <1>1 DEF Working, At
    <2> QED
      BY <1>1, <2>1 DEF Guarded, JobsCounted, SlotHeld, RebuildInWindow, RebuildAlone, At, guardVars
  <1>2. CASE UNCHANGED vars
    BY <1>1, <1>2 DEF vars, threadVars
  <1>3. ASSUME NEW p \in Partitions, Expire(p)
        PROVE  Guarded'
    BY <1>1, <1>3 DEF Expire, threadVars
  <1> QED
    BY <1>2, <1>3, RequestStepGuarded, ScanStepGuarded, AutoStepGuarded, RebuildStepGuarded,
       RestartGuarded DEF Next

-----------------------------------------------------------------------------
(* Generations, and what a thread works on *)

LEMMA RequestStepPast ==
  ASSUME TypeOK, RebuildInWindow, GenerationsPast, JobsAssigned, NEW r \in Requests, RequestStep(r)
  PROVE  GenerationsPast' /\ JobsAssigned'
  <1> USE RequestIsThread DEF TypeOK, GenerationsPast, JobsAssigned, rowVars, guardVars, threadVars
  <1> USE DEF SlotPcs, LockPcs, JobPcs, At, Goto
  <1>1. CASE PrepareBegin(r)
    BY <1>1 DEF PrepareBegin, RebuildInWindow
  <1>2. ASSUME NEW P \in SUBSET Partitions, PrepareWrite(r, P)
        PROVE  GenerationsPast' /\ JobsAssigned'
    <2> DEFINE w == IF \E p \in P : Due(p) THEN "jobs" ELSE "done"
    <2>1. pc' = [pc EXCEPT ![r] = w] /\ w \in {"jobs", "done"}
          /\ UNCHANGED <<generation, rebuild, part, gen>>
      BY <1>2 DEF PrepareWrite
    <2>2. jobs' = [jobs EXCEPT ![r] = {p \in P : Due(p)}] /\ (w = "done" => {p \in P : Due(p)} = {})
      BY <1>2 DEF PrepareWrite
    <2> HIDE DEF w
    <2> QED BY <2>1, <2>2
  <1>3. ASSUME NEW p \in Partitions, Queue(r, p)
        PROVE  GenerationsPast' /\ JobsAssigned'
    BY <1>3 DEF Queue
  <1>4. CASE Admit(r)
    BY <1>4 DEF Admit
  <1> QED BY <1>1, <1>2, <1>3, <1>4 DEF RequestStep

LEMMA ScanStepPast ==
  ASSUME TypeOK, GenerationsPast, JobsAssigned, NEW t \in Threads, ScanStep(t)
  PROVE  GenerationsPast' /\ JobsAssigned'
  <1> USE DEF GenerationsPast, JobsAssigned, TypeOK, rowVars, guardVars, threadVars
  <1> USE IndexingAssumption, RequestIsThread DEF IndexingAssumption
  <1> USE DEF SlotPcs, LockPcs, JobPcs, At, Goto
  <1>1. CASE Leave(t)
    BY <1>1 DEF Leave
  <1>2. CASE ~Leave(t)
    <2>1. UNCHANGED <<generation, rebuild, part, gen, jobs>> /\ At(t, SlotPcs)
      BY <1>2
      DEF ScanStep, Begin, Busy, Reserve, Probe, Write, Finalize, Purge, Missing, Failing, Fail,
          FailUnrecorded, End
    <2>2. \E w \in SlotPcs : pc' = [pc EXCEPT ![t] = w]
      BY <1>2
      DEF ScanStep, Begin, Busy, Reserve, Probe, Write, Finalize, Purge, Missing, Failing, Fail,
          FailUnrecorded, End
    <2> QED BY <2>1, <2>2
  <1> QED BY <1>1, <1>2

LEMMA AutoStepPast ==
  ASSUME TypeOK, GenerationsPast, JobsAssigned, AutoStep
  PROVE  GenerationsPast' /\ JobsAssigned'
  <1> USE IndexingAssumption, RequestIsThread DEF IndexingAssumption
  <1> USE DEF TypeOK, GenerationsPast, JobsAssigned, rowVars, guardVars, threadVars
  <1> USE DEF SlotPcs, LockPcs, JobPcs, At, Goto
  <1>1. CASE AutoRead
    BY <1>1 DEF AutoRead
  <1>2. CASE AutoSkip
    BY <1>2 DEF AutoSkip
  <1>3. CASE AdmitAuto
    BY <1>3 DEF AdmitAuto
  <1>4. CASE ReserveRefused
    BY <1>4 DEF ReserveRefused
  <1>5. CASE MissingToday
    BY <1>5 DEF MissingToday
  <1>6. ASSUME NEW p \in Partitions, AutoPick(p)
        PROVE  GenerationsPast' /\ JobsAssigned'
    BY <1>6 DEF AutoPick
  <1> QED BY <1>1, <1>2, <1>3, <1>4, <1>5, <1>6 DEF AutoStep

LEMMA RebuildStepPast ==
  ASSUME TypeOK, GenerationsPast, JobsAssigned, RebuildStep
  PROVE  GenerationsPast' /\ JobsAssigned'
  <1>1. JobsAssigned'
    BY DEF JobsAssigned, At, RebuildStep, RebuildBegin, RebuildEnter, RebuildClear, RebuildEnd,
           RebuildFails, threadVars
  <1>2. CASE RebuildBegin
    <2>1. /\ generation' = generation + 1 /\ gen' = gen /\ generation \in Nat
          /\ \A t \in Threads : gen[t] \in Nat /\ gen[t] <= generation
      BY <1>2 DEF RebuildBegin, TypeOK, GenerationsPast, threadVars
    <2>2. GenerationsPast'
      BY <2>1, RequestIsThread DEF GenerationsPast
    <2> QED BY <1>1, <2>2
  <1>3. CASE ~RebuildBegin
    <2>1. UNCHANGED <<generation, gen>> /\ (rebuild' # "idle" => rebuild # "idle")
      BY <1>3 DEF RebuildStep, RebuildEnter, RebuildClear, RebuildEnd, RebuildFails,
                  guardVars, threadVars
    <2> QED BY <1>1, <2>1 DEF GenerationsPast
  <1> QED BY <1>2, <1>3

LEMMA RestartPast ==
  ASSUME Restart
  PROVE  GenerationsPast' /\ JobsAssigned'
  BY RequestIsThread
  DEF Restart, GenerationsPast, JobsAssigned, At, SlotPcs, LockPcs, JobPcs

LEMMA InitPast == Init => GenerationsPast /\ JobsAssigned
  BY RequestIsThread
  DEF Init, GenerationsPast, JobsAssigned, At, SlotPcs, LockPcs, JobPcs

LEMMA NextPast ==
  ASSUME TypeOK, RebuildInWindow, GenerationsPast, JobsAssigned, [Next]_vars
  PROVE  GenerationsPast' /\ JobsAssigned'
  <1>1. ASSUME UNCHANGED <<guardVars, rebuild, threadVars>>
        PROVE  GenerationsPast' /\ JobsAssigned'
    BY <1>1 DEF GenerationsPast, JobsAssigned, At, guardVars, threadVars
  <1>2. CASE UNCHANGED vars
    BY <1>1, <1>2 DEF vars
  <1>3. ASSUME NEW p \in Partitions, Expire(p)
        PROVE  GenerationsPast' /\ JobsAssigned'
    BY <1>1, <1>3 DEF Expire
  <1> QED
    BY <1>2, <1>3, RequestStepPast, ScanStepPast, AutoStepPast, RebuildStepPast, RestartPast
    DEF Next

-----------------------------------------------------------------------------
(* The rows that requested scans report to *)

\* Only a rebuild removes rows.
LEMMA RowsKept ==
  ASSUME TypeOK, NEW p \in Partitions, status[p] # "none",
         \/ \E r \in Requests : RequestStep(r)
         \/ \E t \in Threads : ScanStep(t)
         \/ AutoStep
  PROVE  status'[p] # "none"
  <1> USE DEF TypeOK, SetStatus, rowVars
  <1>1. ASSUME NEW r \in Requests, RequestStep(r)
        PROVE  status'[p] # "none"
    BY <1>1 DEF RequestStep, PrepareBegin, PrepareWrite, Queue, Admit
  <1>2. ASSUME NEW t \in Threads, ScanStep(t)
        PROVE  status'[p] # "none"
    BY <1>2 DEF ScanStep, Begin, Busy, Reserve, Probe, Write, Finalize, Purge, Missing, Fail,
                FailUnrecorded,
                End, Leave
  <1>3. CASE AutoStep
    BY <1>3 DEF AutoStep, AutoRead, AutoSkip, AdmitAuto, ReserveRefused, MissingToday, AutoPick
  <1> QED BY <1>1, <1>2, <1>3

LEMMA RequestStepRows ==
  ASSUME TypeOK, JobsAssigned, ScanHasRow, PendingHasRow, NEW r \in Requests, RequestStep(r)
  PROVE  ScanHasRow' /\ PendingHasRow'
  <1>0. \A p \in Partitions : status[p] # "none" => status'[p] # "none"
    BY RowsKept
  <1> USE RequestIsThread DEF TypeOK, rowVars, guardVars, threadVars
  <1> USE DEF JobsAssigned, SlotPcs, LockPcs, JobPcs, At, Goto
  <1>1. CASE PrepareBegin(r)
    BY <1>0, <1>1 DEF PrepareBegin, ScanHasRow, PendingHasRow, Pending
  <1>2. ASSUME NEW P \in SUBSET Partitions, PrepareWrite(r, P)
        PROVE  ScanHasRow' /\ PendingHasRow'
    <2> DEFINE w == IF \E p \in P : Due(p) THEN "jobs" ELSE "done"
    <2>1. pc' = [pc EXCEPT ![r] = w] /\ w \in {"jobs", "done"} /\ UNCHANGED <<generation, part, gen>>
      BY <1>2 DEF PrepareWrite
    <2>2. /\ jobs' = [jobs EXCEPT ![r] = {p \in P : Due(p)}]
          /\ \A p \in P : Due(p) => status'[p] = "queued"
      BY <1>2 DEF PrepareWrite
    <2> HIDE DEF w
    <2>3. ScanHasRow'
      BY <1>0, <2>1 DEF ScanHasRow
    <2>4. PendingHasRow'
      BY <1>0, <2>1, <2>2 DEF PendingHasRow, Pending
    <2> QED BY <2>3, <2>4
  <1>3. ASSUME NEW p \in Partitions, Queue(r, p)
        PROVE  ScanHasRow' /\ PendingHasRow'
    BY <1>0, <1>3 DEF Queue, ScanHasRow, PendingHasRow, Pending
  <1>4. CASE Admit(r)
    BY <1>0, <1>4 DEF Admit, ScanHasRow, PendingHasRow, Pending
  <1> QED BY <1>1, <1>2, <1>3, <1>4 DEF RequestStep

LEMMA ScanStepRows ==
  ASSUME TypeOK, JobsAssigned, ScanHasRow, PendingHasRow, NEW t \in Threads, ScanStep(t)
  PROVE  ScanHasRow' /\ PendingHasRow'
  <1>0. \A p \in Partitions : status[p] # "none" => status'[p] # "none"
    BY RowsKept
  <1> USE RequestIsThread DEF TypeOK, rowVars, guardVars, threadVars
  <1> USE DEF JobsAssigned, SlotPcs, LockPcs, JobPcs, At, Goto
  <1>1. CASE Begin(t)
    <2>1. t \in Requests => Pending(t, part[t]) /\ part[t] \in Partitions
      BY <1>1 DEF Begin, MayBegin, Pending
    <2>2. ScanHasRow'
      BY <1>0, <1>1, <2>1 DEF Begin, ScanHasRow, PendingHasRow
    <2>3. PendingHasRow'
      BY <1>0, <1>1 DEF Begin, PendingHasRow, Pending
    <2> QED BY <2>2, <2>3
  <1>2. CASE Leave(t)
    <2> DEFINE w == IF t = Autoscan THEN "idle" ELSE IF jobs[t] = {} THEN "done" ELSE "jobs"
    <2>1. pc' = [pc EXCEPT ![t] = w] /\ w \in {"idle", "done", "jobs"} /\ UNCHANGED <<generation, gen, jobs>>
          /\ part' = [part EXCEPT ![t] = NoPartition] /\ pc[t] = "leave"
      BY <1>2 DEF Leave
    <2> HIDE DEF w
    <2>2. ScanHasRow'
      BY <1>0, <2>1 DEF ScanHasRow
    <2>3. PendingHasRow'
      BY <1>0, <2>1 DEF PendingHasRow, Pending
    <2> QED BY <2>2, <2>3
  <1>3. CASE ~Begin(t) /\ ~Leave(t)
    <2>1. UNCHANGED <<generation, part, gen, jobs>>
      BY <1>3
      DEF ScanStep, Busy, Reserve, Probe, Write, Finalize, Purge, Missing, Failing, Fail,
          FailUnrecorded, End
    <2>2. \E w \in SlotPcs \ {"admitted", "begun"} :
            pc' = [pc EXCEPT ![t] = w] /\ (w \in LockPcs => At(t, LockPcs))
      BY <1>3
      DEF ScanStep, Busy, Reserve, Probe, Write, Finalize, Purge, Missing, Failing, Fail,
          FailUnrecorded, End
    <2>3. ScanHasRow'
      BY <1>0, <2>1, <2>2 DEF ScanHasRow
    <2>4. PendingHasRow'
      BY <1>0, <2>1, <2>2 DEF PendingHasRow, Pending
    <2> QED BY <2>3, <2>4
  <1> QED BY <1>1, <1>2, <1>3

LEMMA AutoStepRows ==
  ASSUME TypeOK, JobsAssigned, ScanHasRow, PendingHasRow, AutoStep
  PROVE  ScanHasRow' /\ PendingHasRow'
  <1>0. \A p \in Partitions : status[p] # "none" => status'[p] # "none"
    BY RowsKept
  <1>1. /\ UNCHANGED <<generation, jobs>>
        /\ \A r \in Requests : pc'[r] = pc[r] /\ part'[r] = part[r] /\ gen'[r] = gen[r]
    BY IndexingAssumption, RequestIsThread
    DEF IndexingAssumption, AutoStep, AutoRead, AutoSkip, AdmitAuto, ReserveRefused, MissingToday,
        AutoPick, Goto, TypeOK, guardVars, threadVars
  <1>2. ScanHasRow'
    BY <1>0, <1>1, RequestIsThread DEF ScanHasRow, At, JobsAssigned, SlotPcs
  <1>3. PendingHasRow'
    BY <1>0, <1>1 DEF PendingHasRow, Pending, At
  <1> QED BY <1>2, <1>3

LEMMA RebuildStepRows ==
  ASSUME TypeOK, RebuildAlone, GenerationsPast, ScanHasRow, PendingHasRow, RebuildStep
  PROVE  ScanHasRow' /\ PendingHasRow'
  <1>0. UNCHANGED <<pc, part, gen, jobs>> /\ generation' \in {generation, generation + 1}
    BY DEF RebuildStep, RebuildBegin, RebuildEnter, RebuildClear, RebuildEnd, RebuildFails,
           guardVars, threadVars
  <1>1. \A r \in Requests : gen[r] \in Nat /\ generation \in Nat /\ gen[r] <= generation
    BY RequestIsThread DEF GenerationsPast, TypeOK
  <1>2. CASE RebuildClear
    <2>1. Working = {} /\ generation' = generation /\ \A r \in Requests : gen[r] < generation
      BY <1>2 DEF RebuildClear, RebuildAlone, GenerationsPast, guardVars
    <2>2. ScanHasRow'
      BY <1>0, <2>1, RequestIsThread DEF ScanHasRow, Working, At, LockPcs
    <2>3. PendingHasRow'
      BY <1>0, <1>1, <2>1 DEF PendingHasRow, Pending
    <2> QED BY <2>2, <2>3
  <1>3. CASE ~RebuildClear
    <2>1. UNCHANGED status
      BY <1>3 DEF RebuildStep, RebuildBegin, RebuildEnter, RebuildEnd, RebuildFails, rowVars
    <2>2. ScanHasRow'
      BY <1>0, <2>1 DEF ScanHasRow, At
    <2>3. ASSUME NEW r \in Requests, NEW p \in Partitions, Pending(r, p)'
          PROVE  Pending(r, p)
      <3>1. gen[r] = generation
        BY <1>0, <1>1, <2>3 DEF Pending
      <3> QED BY <1>0, <2>3, <3>1 DEF Pending, At
    <2>4. PendingHasRow'
      BY <2>1, <2>3 DEF PendingHasRow
    <2> QED BY <2>2, <2>4
  <1> QED BY <1>2, <1>3

LEMMA RestartRows ==
  ASSUME Restart
  PROVE  ScanHasRow' /\ PendingHasRow'
  BY RequestIsThread
  DEF Restart, ScanHasRow, PendingHasRow, Pending, At, LockPcs, JobPcs

LEMMA InitRows == Init => ScanHasRow /\ PendingHasRow
  BY RequestIsThread
  DEF Init, ScanHasRow, PendingHasRow, Pending, At, LockPcs, JobPcs

LEMMA NextRows ==
  ASSUME TypeOK, RebuildAlone, GenerationsPast, JobsAssigned, ScanHasRow, PendingHasRow,
         [Next]_vars
  PROVE  ScanHasRow' /\ PendingHasRow'
  <1>1. ASSUME UNCHANGED <<status, guardVars, threadVars>>
        PROVE  ScanHasRow' /\ PendingHasRow'
    BY <1>1 DEF ScanHasRow, PendingHasRow, Pending, At, guardVars, threadVars
  <1>2. CASE UNCHANGED vars
    BY <1>1, <1>2 DEF vars, rowVars
  <1>3. ASSUME NEW p \in Partitions, Expire(p)
        PROVE  ScanHasRow' /\ PendingHasRow'
    BY <1>1, <1>3 DEF Expire
  <1> QED
    BY <1>2, <1>3, RequestStepRows, ScanStepRows, AutoStepRows, RebuildStepRows, RestartRows
    DEF Next

-----------------------------------------------------------------------------
(* The statuses of work that is under way *)

\* Between the transactions that open and close a scan.
ReservedPcs == {"reserved", "prepared", "purged", "indexed"}

\* A thread that a step does not take out of its scan still stands for it, and a
\* failure that is only logged stays so while the row keeps its status.
LEMMA ReservedKept ==
  ASSUME TypeOK, ScanningReserved, NEW t \in Threads, NEW w,
         pc' = [pc EXCEPT ![t] = w], w \in ReservedPcs \/ ~At(t, ReservedPcs),
         \A u \in Threads : At(u, ReservedPcs) => part'[u] = part[u],
         \A p \in Partitions : status'[p] \in {"scanning", "background"} =>
                                 status'[p] = status[p] /\ (p \in unrecorded => p \in unrecorded')
  PROVE  ScanningReserved'
  BY DEF TypeOK, ScanningReserved, At, ReservedPcs

\* A scan that ends takes its status off the partition, or its failure is logged.
LEMMA ReservedEnded ==
  ASSUME TypeOK, ScanningReserved, NEW t \in Threads, NEW w, pc' = [pc EXCEPT ![t] = w],
         UNCHANGED part,
         \A p \in Partitions : status'[p] \in {"scanning", "background"} =>
                                 /\ status'[p] = status[p]
                                 /\ p # part[t] \/ p \in unrecorded'
                                 /\ p \in unrecorded => p \in unrecorded'
  PROVE  ScanningReserved'
  BY DEF TypeOK, ScanningReserved, At

LEMMA RequestStepReserved ==
  ASSUME TypeOK, ScanningReserved, NEW r \in Requests, RequestStep(r)
  PROVE  ScanningReserved'
  <1> USE RequestIsThread DEF At, ReservedPcs, Goto, TypeOK, rowVars, threadVars
  <1>1. CASE PrepareBegin(r)
    BY <1>1, ReservedKept DEF PrepareBegin
  <1>2. ASSUME NEW P \in SUBSET Partitions, PrepareWrite(r, P)
        PROVE  ScanningReserved'
    BY <1>2, ReservedKept DEF PrepareWrite
  <1>3. ASSUME NEW p \in Partitions, Queue(r, p)
        PROVE  ScanningReserved'
    BY <1>3, ReservedKept DEF Queue
  <1>4. CASE Admit(r)
    BY <1>4, ReservedKept DEF Admit
  <1> QED BY <1>1, <1>2, <1>3, <1>4 DEF RequestStep

LEMMA ScanStepReserved ==
  ASSUME TypeOK, JobsAssigned, ScanningReserved, NEW t \in Threads, ScanStep(t)
  PROVE  ScanningReserved'
  <1> USE DEF At, ReservedPcs, Goto, SetStatus, TypeOK, rowVars, threadVars
  <1>1. CASE Reserve(t)
    <2>1. part[t] \in Partitions
      BY <1>1 DEF Reserve, JobsAssigned, SlotPcs, LockPcs, JobPcs
    <2>2. /\ pc' = [pc EXCEPT ![t] = "reserved"] /\ part' = part /\ pc[t] = "begun"
          /\ \A p \in Partitions : p # part[t] =>
               status'[p] = status[p] /\ (p \in unrecorded => p \in unrecorded')
      BY <1>1, <2>1 DEF Reserve
    <2> QED BY <2>1, <2>2 DEF ScanningReserved
  <1>2. CASE Finalize(t)
    <2>1. \A p \in Partitions : status'[p] \in {"scanning", "background"} =>
                                  /\ status'[p] = status[p] /\ p # part[t]
                                  /\ p \in unrecorded => p \in unrecorded'
      BY <1>2 DEF Finalize
    <2> QED BY <1>2, <2>1, ReservedEnded DEF Finalize
  <1>3. CASE Missing(t)
    BY <1>3, ReservedEnded DEF Missing
  <1>4. CASE Fail(t)
    BY <1>4, ReservedEnded DEF Fail
  <1>5. CASE Leave(t)
    BY <1>5, ReservedKept DEF Leave
  <1>6. CASE Begin(t)
    BY <1>6, ReservedKept DEF Begin
  <1>7. CASE Busy(t)
    BY <1>7, ReservedKept DEF Busy
  <1>8. CASE Probe(t)
    BY <1>8, ReservedKept DEF Probe
  <1>9. CASE Write(t)
    BY <1>9, ReservedKept DEF Write
  <1>10. CASE Purge(t)
    BY <1>10, ReservedKept DEF Purge
  <1>11. CASE End(t)
    BY <1>11, ReservedKept DEF End
  <1>12. CASE FailUnrecorded(t)
    BY <1>12, ReservedEnded DEF FailUnrecorded
  <1> QED
    BY <1>1, <1>2, <1>3, <1>4, <1>5, <1>6, <1>7, <1>8, <1>9, <1>10, <1>11, <1>12 DEF ScanStep

LEMMA AutoStepReserved ==
  ASSUME TypeOK, ScanningReserved, AutoStep
  PROVE  ScanningReserved'
  <1> USE RequestIsThread DEF At, ReservedPcs, Goto, SetStatus, TypeOK, rowVars, threadVars
  <1>1. CASE AutoRead
    BY <1>1, ReservedKept DEF AutoRead
  <1>2. CASE AutoSkip
    BY <1>2, ReservedKept DEF AutoSkip
  <1>3. CASE AdmitAuto
    BY <1>3, ReservedKept DEF AdmitAuto
  <1>4. CASE ReserveRefused
    BY <1>4, ReservedKept DEF ReserveRefused
  <1>5. CASE MissingToday
    BY <1>5, ReservedEnded DEF MissingToday
  <1>6. ASSUME NEW p \in Partitions, AutoPick(p)
        PROVE  ScanningReserved'
    BY <1>6, ReservedKept DEF AutoPick
  <1> QED BY <1>1, <1>2, <1>3, <1>4, <1>5, <1>6 DEF AutoStep

LEMMA NextReserved ==
  ASSUME TypeOK, JobsAssigned, ScanningReserved, [Next]_vars
  PROVE  ScanningReserved'
  <1>1. ASSUME UNCHANGED <<pc, part>>,
               \A p \in Partitions : status'[p] \in {"scanning", "background"} =>
                                       status'[p] = status[p]
                                       /\ (p \in unrecorded => p \in unrecorded')
        PROVE  ScanningReserved'
    BY <1>1 DEF ScanningReserved, At
  <1>2. CASE UNCHANGED vars
    BY <1>1, <1>2 DEF vars, rowVars, threadVars
  <1>3. ASSUME NEW p \in Partitions, Expire(p)
        PROVE  ScanningReserved'
    BY <1>1, <1>3 DEF Expire, threadVars
  <1>4. CASE RebuildStep
    BY <1>1, <1>4
    DEF RebuildStep, RebuildBegin, RebuildEnter, RebuildClear, RebuildEnd, RebuildFails,
        rowVars, threadVars
  <1>5. CASE Restart
    BY <1>5 DEF Restart, Recovered, ScanningReserved
  <1> QED
    BY <1>2, <1>3, <1>4, <1>5, RequestStepReserved, ScanStepReserved, AutoStepReserved DEF Next

-----------------------------------------------------------------------------
(* The reservations that no scan has taken up yet *)

\* What the proofs below use of the inductive invariant.
Kept == TypeOK /\ SlotHeld /\ RebuildInWindow /\ RebuildAlone /\ JobsAssigned /\ ReservationsKept

\* A step that makes no reservation and ends no pending task without a note of it.
LEMMA PendingKept ==
  ASSUME QueuedHasJob, rebuild' = "idle" => rebuild = "idle",
         \A p \in Partitions : status'[p] = "queued" =>
           status[p] = "queued" /\ (p \in unrecorded => p \in unrecorded'),
         \A p \in Partitions, r \in Requests :
           Pending(r, p) /\ status'[p] = "queued" /\ rebuild = "idle" =>
             Pending(r, p)' \/ p \in unrecorded'
  PROVE  QueuedHasJob'
  BY DEF QueuedHasJob

\* The other two parts of ReservationsKept, when nothing is reserved.
LEMMA OthersKept ==
  ASSUME Kept, UNCHANGED <<generation, rebuild>>,
         \A p \in Partitions : status'[p] = "queued" => status[p] = "queued",
         \A r \in Requests : pc'[r] = "prepare" => pc[r] = "prepare" /\ gen'[r] = gen[r]
  PROVE  /\ rebuild' = "cleared" => \A p \in Partitions : status'[p] # "queued"
         /\ rebuild' = "idle" => \A r \in Requests : pc'[r] = "prepare" => gen'[r] = generation'
  BY DEF Kept, ReservationsKept

LEMMA RequestStepKept ==
  ASSUME Kept, NEW r \in Requests, RequestStep(r)
  PROVE  ReservationsKept'
  <1> USE RequestIsThread DEF Kept, TypeOK, At, Goto, rowVars, guardVars, threadVars
  <1>1. CASE PrepareBegin(r)
    <2>1. QueuedHasJob'
      BY <1>1, PendingKept DEF PrepareBegin, ReservationsKept, Pending, JobsAssigned
    <2> QED BY <1>1, <2>1 DEF PrepareBegin, ReservationsKept
  <1>2. ASSUME NEW P \in SUBSET Partitions, PrepareWrite(r, P)
        PROVE  ReservationsKept'
    <2> DEFINE w == IF \E p \in P : Due(p) THEN "jobs" ELSE "done"
    <2>1. /\ pc' = [pc EXCEPT ![r] = w] /\ w \in {"jobs", "done"} /\ pc[r] = "prepare"
          /\ UNCHANGED <<generation, rebuild, part, gen>>
          /\ jobs' = [jobs EXCEPT ![r] = {p \in P : Due(p)}]
          /\ \A p \in Partitions :
               status'[p] = "queued" => status[p] = "queued" \/ (p \in P /\ Due(p))
          /\ \A p \in unrecorded \ unrecorded' : p \in P /\ Due(p)
      BY <1>2 DEF PrepareWrite
    <2> HIDE DEF w
    <2>2. rebuild = "idle" => gen[r] = generation
      BY <2>1 DEF ReservationsKept
    <2>3. jobs[r] = {}
      BY <2>1 DEF JobsAssigned
    <2>4. ASSUME NEW p \in Partitions, status'[p] = "queued", rebuild' = "idle",
                 p \notin unrecorded'
          PROVE  \E q \in Requests : Pending(q, p)'
      <3>1. CASE p \in P /\ Due(p)
        BY <2>1, <2>2, <2>4, <3>1 DEF Pending
      <3>2. CASE status[p] = "queued" /\ ~(p \in P /\ Due(p))
        <4>1. PICK q \in Requests : Pending(q, p)
          BY <2>1, <2>4, <3>2 DEF ReservationsKept, QueuedHasJob
        <4>2. q # r
          BY <2>1, <2>3, <4>1 DEF Pending
        <4> QED BY <2>1, <4>1, <4>2 DEF Pending
      <3> QED BY <2>1, <2>4, <3>1, <3>2
    <2>5. rebuild # "cleared"
      BY <2>1 DEF RebuildAlone, Working, JobPcs
    <2>6. rebuild' = "idle" => \A q \in Requests : pc'[q] = "prepare" => gen'[q] = generation'
      BY <2>1 DEF ReservationsKept
    <2> QED BY <2>1, <2>4, <2>5, <2>6 DEF ReservationsKept, QueuedHasJob
  <1>3. ASSUME NEW p \in Partitions, Queue(r, p)
        PROVE  ReservationsKept'
    <2>1. QueuedHasJob'
      BY <1>3, PendingKept DEF Queue, ReservationsKept, Pending
    <2> QED BY <1>3, <2>1, OthersKept DEF Queue, ReservationsKept
  <1>4. CASE Admit(r)
    <2>1. QueuedHasJob'
      BY <1>4, PendingKept DEF Admit, ReservationsKept, Pending
    <2> QED BY <1>4, <2>1, OthersKept DEF Admit, ReservationsKept
  <1> QED BY <1>1, <1>2, <1>3, <1>4 DEF RequestStep

LEMMA ScanStepKept ==
  ASSUME Kept, NEW t \in Threads, ScanStep(t)
  PROVE  ReservationsKept'
  <1>1. UNCHANGED <<generation, rebuild, gen, jobs>>
    BY DEF ScanStep, Begin, Busy, Reserve, Probe, Write, Finalize, Purge, Missing, Fail,
           FailUnrecorded, End,
           Leave, guardVars, threadVars
  <1>2. \A p \in Partitions :
          status'[p] = "queued" => status[p] = "queued" /\ (p \in unrecorded => p \in unrecorded')
    BY DEF Kept, TypeOK, SetStatus, ScanStep, Begin, Busy, Reserve, Probe, Write, Finalize,
           Purge, Missing, Fail, FailUnrecorded, End, Leave, rowVars
  <1>3. \A r \in Requests : pc'[r] = "prepare" => pc[r] = "prepare"
    BY RequestIsThread
    DEF Kept, TypeOK, Goto, ScanStep, Begin, Busy, Reserve, Probe, Write, Finalize,
        Purge, Missing, Fail, FailUnrecorded, End, Leave
  <1>4. ASSUME NEW p \in Partitions, NEW r \in Requests,
               Pending(r, p), status'[p] = "queued", rebuild = "idle"
        PROVE  Pending(r, p)' \/ p \in unrecorded'
    <2> USE RequestIsThread DEF Kept, TypeOK, At, Goto, SetStatus, rowVars, guardVars, threadVars
    <2>1. CASE Begin(t)
      BY <1>1, <1>4, <2>1 DEF Begin, Pending
    <2>2. CASE Busy(t)
      <3>1. ~maintenance
        BY <1>4 DEF RebuildInWindow
      <3>2. Pending(t, p) => p \in jobs[t]
        <4>1. SUFFICES ASSUME gen[t] = generation, part[t] = p PROVE FALSE
          BY <2>2 DEF Pending, Busy
        <4>2. PICK u \in Threads : part[u] = p /\ At(u, LockPcs)
          BY <2>2, <3>1, <4>1 DEF Busy, MayBegin, Locked
        <4> QED BY <2>2, <4>2 DEF Busy, SlotHeld, SlotPcs, LockPcs, JobPcs
      <3> QED BY <1>1, <1>4, <2>2, <3>2 DEF Busy, Pending
    <2>3. CASE Reserve(t)
      <3>1. CASE t = Autoscan
        BY <1>2, <1>4, <2>3, <3>1 DEF Reserve
      <3>2. CASE t # Autoscan
        <4>1. p # part[t]
          BY <1>4, <2>3, <3>2 DEF Reserve
        <4> QED BY <1>1, <1>4, <2>3, <4>1 DEF Reserve, Pending
      <3> QED BY <3>1, <3>2
    <2>4. CASE Fail(t)
      <3>1. p # part[t]
        BY <1>4, <2>4 DEF Fail
      <3> QED BY <1>1, <1>4, <2>4, <3>1 DEF Fail, Pending
    <2>5. CASE Leave(t)
      BY <1>1, <1>4, <2>5 DEF Leave, Pending
    <2>7. CASE FailUnrecorded(t)
      <3>1. p # part[t] \/ p \in unrecorded'
        BY <2>7 DEF FailUnrecorded
      <3> QED BY <1>1, <1>4, <2>7, <3>1 DEF FailUnrecorded, Pending
    <2>6. CASE Probe(t) \/ Write(t) \/ Finalize(t) \/ Purge(t) \/ Missing(t) \/ End(t)
      BY <1>1, <1>4, <2>6 DEF Probe, Write, Finalize, Purge, Missing, End, Pending
    <2> QED BY <2>1, <2>2, <2>3, <2>4, <2>5, <2>6, <2>7 DEF ScanStep
  <1>5. QueuedHasJob'
    BY <1>1, <1>2, <1>4, PendingKept DEF Kept, ReservationsKept
  <1> QED BY <1>1, <1>2, <1>3, <1>5, OthersKept DEF ReservationsKept

LEMMA AutoStepKept ==
  ASSUME Kept, AutoStep
  PROVE  ReservationsKept'
  <1>1. /\ UNCHANGED <<generation, rebuild, jobs>>
        /\ \A r \in Requests : pc'[r] = pc[r] /\ part'[r] = part[r] /\ gen'[r] = gen[r]
    BY IndexingAssumption, RequestIsThread
    DEF IndexingAssumption, AutoStep, AutoRead, AutoSkip, AdmitAuto, ReserveRefused, MissingToday,
        AutoPick, Goto, Kept, TypeOK, guardVars, threadVars
  <1>2. \A p \in Partitions :
          status'[p] = "queued" => status[p] = "queued" /\ (p \in unrecorded => p \in unrecorded')
    BY DEF Kept, TypeOK, SetStatus, AutoStep, AutoRead, AutoSkip, AdmitAuto, ReserveRefused,
           MissingToday, AutoPick, rowVars
  <1>3. QueuedHasJob'
    BY <1>1, <1>2, PendingKept DEF Kept, ReservationsKept, Pending, At
  <1> QED BY <1>1, <1>2, <1>3, OthersKept DEF ReservationsKept

LEMMA RebuildStepKept ==
  ASSUME Kept, RebuildStep, "rebuild" \notin Faults
  PROVE  ReservationsKept'
  <1>1. CASE RebuildBegin
    BY <1>1 DEF RebuildBegin, ReservationsKept, QueuedHasJob
  <1>2. CASE RebuildEnter
    BY <1>2 DEF RebuildEnter, ReservationsKept, QueuedHasJob
  <1>3. CASE RebuildClear
    BY <1>3 DEF RebuildClear, ReservationsKept, QueuedHasJob
  <1>4. CASE RebuildEnd
    <2>1. \A r \in Requests : pc[r] # "prepare"
      BY <1>4, RequestIsThread DEF RebuildEnd, Kept, RebuildAlone, Working, At, JobPcs
    <2> QED BY <1>4, <2>1 DEF RebuildEnd, Kept, ReservationsKept, QueuedHasJob, rowVars, threadVars
  <1>5. CASE RebuildFails
    BY <1>5 DEF RebuildFails
  <1> QED BY <1>1, <1>2, <1>3, <1>4, <1>5 DEF RebuildStep

LEMMA RestartKept ==
  ASSUME Restart
  PROVE  ReservationsKept'
  BY RequestIsThread DEF Restart, Recovered, ReservationsKept, QueuedHasJob

LEMMA InitKept == Init => ReservationsKept
  BY RequestIsThread DEF Init, ReservationsKept, QueuedHasJob

LEMMA NextKept ==
  ASSUME Kept, "rebuild" \notin Faults, [Next]_vars
  PROVE  ReservationsKept'
  <1>1. ASSUME UNCHANGED <<status, unrecorded, guardVars, rebuild, threadVars>>
        PROVE  ReservationsKept'
    BY <1>1 DEF Kept, ReservationsKept, QueuedHasJob, Pending, At, guardVars, threadVars
  <1>2. CASE UNCHANGED vars
    BY <1>1, <1>2 DEF vars, rowVars
  <1>3. ASSUME NEW p \in Partitions, Expire(p)
        PROVE  ReservationsKept'
    BY <1>1, <1>3 DEF Expire
  <1> QED
    BY <1>2, <1>3, RequestStepKept, ScanStepKept, AutoStepKept, RebuildStepKept, RestartKept
    DEF Next

-----------------------------------------------------------------------------
(* The theorems *)

LEMMA InitIInv == Init => IInv
  <1>1. Init => ScanningReserved
    BY DEF Init, ScanningReserved
  <1> QED
    BY <1>1, InitTypeOK, InitGuarded, InitPast, InitRows, InitKept DEF IInv, Guarded

LEMMA NextIInv == IInv /\ [Next]_vars => IInv'
  <1> SUFFICES ASSUME IInv, [Next]_vars PROVE IInv'
    OBVIOUS
  <1>1. TypeOK'
    BY NextTypeOK DEF IInv
  <1>2. JobsCounted' /\ SlotHeld' /\ RebuildInWindow' /\ RebuildAlone'
    BY NextGuarded DEF IInv, Guarded
  <1>3. GenerationsPast' /\ JobsAssigned'
    BY NextPast DEF IInv
  <1>4. ScanHasRow' /\ PendingHasRow'
    BY NextRows DEF IInv
  <1>5. ScanningReserved'
    BY NextReserved DEF IInv
  <1>6. "rebuild" \notin Faults => ReservationsKept'
    BY NextKept DEF IInv, Kept
  <1> QED BY <1>1, <1>2, <1>3, <1>4, <1>5, <1>6 DEF IInv

\* The inductive invariant holds throughout: the count of jobs is exact, the slot
\* has one holder, and work belongs to the generation it was prepared in.
THEOREM IndexingInvariant == Spec => []IInv
  BY InitIInv, NextIInv, PTL DEF Spec

\* Every variable keeps its type; that what is recorded and fresh are partitions
\* rests on JobsAssigned: a thread inside a scan has a partition.
THEOREM IndexingTypes == Spec => []TypeOK
  <1>1. IInv => TypeOK
    BY DEF IInv
  <1> QED BY <1>1, IndexingInvariant, PTL

\* The body of a rebuild runs alone, however many requests and scans there are:
\* maintenance_window(wait_for_jobs) keeps jobs out and waits for those inside.
THEOREM RebuildRunsAlone == Spec => []RebuildAlone
  <1>1. IInv => RebuildAlone
    BY DEF IInv
  <1> QED BY <1>1, IndexingInvariant, PTL

\* partition_slot() serialises the scans of all requests and the automatic one.
THEOREM ScansSerialised == Spec => []OneScan
  <1>1. IInv => OneScan
    BY DEF IInv, OneScan, SlotHeld, At, SlotPcs
  <1> QED BY <1>1, IndexingInvariant, PTL

\* No scan that was prepared before a rebuild goes on after it: the row that a
\* requested scan reports to is there.
THEOREM ScansKeepTheirRow == Spec => []ScanHasRow
  <1>1. IInv => ScanHasRow
    BY DEF IInv
  <1> QED BY <1>1, IndexingInvariant, PTL

\* A partition shown as being scanned is being scanned, also after failures of the
\* database and after restarts; the one exception is a failure that could not be
\* recorded, as long as nothing writes the row again.
THEOREM ShownScansRun == Spec => []ScanningHasJob
  <1>1. IInv => ScanningHasJob
    BY DEF IInv, ScanningReserved, ScanningHasJob, Scanning, At, LockPcs, JobPcs
  <1> QED BY <1>1, IndexingInvariant, PTL

\* Where every rebuild completes, a reserved partition has a task that will be
\* admitted, or the failure of its scan could not be recorded.  The condition is
\* needed: a rebuild that times out has already made every queued task stale, and
\* their reservations stay.
THEOREM ReservedPartitionsHaveTasks == "rebuild" \notin Faults => (Spec => []QueuedHasJob)
  <1> SUFFICES ASSUME "rebuild" \notin Faults PROVE Spec => []QueuedHasJob
    OBVIOUS
  <1>1. IInv => QueuedHasJob
    BY DEF IInv, ReservationsKept
  <1> QED BY <1>1, IndexingInvariant, PTL

=============================================================================
