--------------------------- MODULE PlaybackTrace ---------------------------
(***************************************************************************)
(* The opt-in session recorder (ctv_web/js/playback-trace.js).  A page     *)
(* takes one sample a second, collects them in a batch and appends every   *)
(* batch as a numbered chunk to IndexedDB, in one transaction with the     *)
(* description (meta) of the session so far.  Starting and stopping are    *)
(* queued one after the other; writes have a queue of their own; a page    *)
(* that is reloaded or crashes resumes the session; an export reads what   *)
(* is stored and adds what could not be stored.                            *)
(*                                                                         *)
(* IndexedDB runs the transactions of a page in the order in which they    *)
(* were created, and each commits or aborts as a whole; those of a page    *)
(* that goes away abort.  What a sample or an event says is left out: a    *)
(* batch is a number of samples.                                           *)
(***************************************************************************)
EXTENDS Naturals, Sequences, FiniteSets, Functions, FiniteSetsExt

CONSTANTS
  Backlog,      (* unsettled writes at which the recorder gives up (4)       *)
  MaxSamples,   (* bound on the samples of a session                         *)
  MaxSessions,  (* bound on the sessions that the user starts                *)
  MaxFaults     (* bound on failures, crashes, reloads and event storms      *)

ASSUME PlaybackTraceAssumption ==
  /\ Backlog \in Nat \ {0, 1}
  /\ MaxSamples \in Nat \ {0} /\ {MaxSessions, MaxFaults} \subseteq Nat

VARIABLES
  page,         (* the memory of the page, and localStorage                  *)
  store,        (* IndexedDB: the object stores meta and chunks              *)
  export,       (* the download or export that is under way                  *)
  exported,     (* what the last export delivered                            *)
  sessions,     (* number of sessions so far                                 *)
  early,        (* a session was begun before all chunks of the one before   *)
                (* it had settled (history variable)                         *)
  faults        (* number of faults so far                                   *)

vars == <<page, store, export, exported, sessions, early, faults>>

Sum(S, size(_)) == MapThenSumSet(size, S)

\* The description of a session; session 0: none.
NoMeta == [session |-> 0, count |-> 0, chunks |-> 0, stopped |-> FALSE, error |-> FALSE]
Sizes == 0..(MaxSamples + MaxFaults)
Numbers == 0..(MaxSessions + MaxFaults)
Metas == [session : Numbers, count : Sizes, chunks : Sizes,
          stopped : BOOLEAN, error : BOOLEAN]

\* A chunk in memory: n samples, and the description that is stored with it,
\* whose number of chunks is its sequence number.
Chunks == [n : Sizes \ {0}, meta : Metas]
Stored(c) == [session |-> c.meta.session, sequence |-> c.meta.chunks, n |-> c.n]

\* Transactions: reading meta, clearing for a new session, a chunk, an export.
NoChunk == [n |-> 0, meta |-> NoMeta]
Transaction(kind, c) == [kind |-> kind, chunk |-> c]

\* active: a session is recorded.  writes: the promise chain of the chunks, its
\* head being written.  failed: failedChunks.  db: transactions of this page.
\* life: queued operations; busy: what the first of them is waiting for.  flag,
\* saved: the preferences in localStorage.
Loaded(flag, saved) ==
  [open |-> TRUE, active |-> FALSE, meta |-> NoMeta, batch |-> 0, writes |-> <<>>,
   failed |-> <<>>, db |-> <<>>, life |-> <<"load">>, busy |-> "no",
   flag |-> flag, saved |-> saved]

NoExport == [stage |-> "none", header |-> NoMeta, wait |-> {}, rest |-> 0]
NothingExported == [count |-> 0, got |-> 0, complete |-> FALSE, replaced |-> FALSE]

TypeOK ==
  /\ DOMAIN page = DOMAIN Loaded(FALSE, FALSE)
  /\ {page.open, page.active, page.flag, page.saved} \subseteq BOOLEAN
  /\ page.meta \in Metas /\ page.batch \in Sizes
  /\ Range(page.writes) \cup Range(page.failed) \subseteq Chunks
  /\ early \in BOOLEAN /\ (early \/ Len(page.writes) <= Backlog)
  /\ Range(page.life) \subseteq {"load", "start", "stop"}
  /\ page.busy \in {"no", "resume", "view", "clear", "flush"}
  /\ page.busy # "no" => page.life # <<>>
  /\ store.meta \in Metas /\ IsFiniteSet(store.chunks)
  /\ export.stage \in {"none", "waits", "reads"} /\ export.header \in Metas
  /\ sessions \in Numbers /\ faults \in 0..MaxFaults

\* A browser that never recorded anything opens the page.
Init ==
  /\ page = Loaded(FALSE, FALSE)
  /\ store = [meta |-> NoMeta, chunks |-> {}]
  /\ export = NoExport /\ exported = NothingExported
  /\ sessions = 0 /\ early = FALSE /\ faults = 0

-----------------------------------------------------------------------------
(* The recorder *)

Fault == faults < MaxFaults /\ faults' = faults + 1

\* Mutant of Failed: the session does not learn of it.
FailedSilently(s) == [s EXCEPT !.active = FALSE, !.flag = FALSE]

\* fail(): recording ends visibly, and does not resume after a reload.
Failed(s) ==
  [s EXCEPT !.active = FALSE, !.flag = FALSE, !.meta.error = s.meta.session # 0]

\* sample()
Sampled(s) ==
  IF s.active THEN [s EXCEPT !.batch = @ + 1, !.meta.count = @ + 1] ELSE s

\* A chunk joins the promise chain: it is written at once when the chain is
\* empty, and kept aside once another chunk could not be written.
Chained(s, c) ==
  IF s.writes # <<>> THEN [s EXCEPT !.writes = Append(@, c)]
  ELSE IF s.failed # <<>> THEN [s EXCEPT !.failed = Append(@, c)]
  ELSE [s EXCEPT !.writes = <<c>>, !.db = Append(@, Transaction("write", c))]

\* Mutant of Flushed: writes that do not settle are not counted.
FlushedUnbounded(s) ==
  LET m == [s.meta EXCEPT !.chunks = @ + 1]
  IN IF s.batch = 0 THEN s
     ELSE Chained([s EXCEPT !.batch = 0, !.meta = m], [n |-> s.batch, meta |-> m])

\* flush(): the batch becomes the next chunk; too many unsettled writes end the
\* recording.
Flushed(s) ==
  LET m == [s.meta EXCEPT !.chunks = @ + 1]
      q == Chained([s EXCEPT !.batch = 0, !.meta = m], [n |-> s.batch, meta |-> m])
  IN IF s.batch = 0 THEN s
     ELSE IF Len(s.writes) + 1 >= Backlog THEN Failed(q) ELSE q

\* The next link of the chain, once the write before it has settled.
Continued(s) ==
  IF s.writes = <<>> THEN s
  ELSE IF s.failed # <<>> THEN [s EXCEPT !.failed = @ \o s.writes, !.writes = <<>>]
  ELSE [s EXCEPT !.db = Append(@, Transaction("write", Head(s.writes)))]

\* The rest of start(): the page begins with an empty batch.
Activated(s) ==
  Flushed(Sampled([s EXCEPT !.active = TRUE, !.flag = TRUE, !.saved = TRUE,
                            !.batch = 0, !.failed = <<>>, !.busy = "no", !.life = Tail(@)]))

\* The operation in front of the queue is over.
Over(s) == [s EXCEPT !.busy = "no", !.life = Tail(@)]

\* Mutant of Rejected: an operation that failed does not end.
RejectedStuck(s) == Failed(s)

\* An operation failed.
Rejected(s) == Over(Failed(s))

\* start() creates a new session and asks for an empty store.
Fresh(s) ==
  [s EXCEPT !.meta = [NoMeta EXCEPT !.session = sessions + 1], !.busy = "clear",
            !.db = Append(@, Transaction("clear", NoChunk))]

\* The queue of operations goes on in a microtask, before anything else happens.
Queued == page.open /\ page.busy = "no" /\ page.life # <<>>

\* The page has done what it does in one task.
Goes(s) == page' = s
Task(s) == ~Queued /\ Goes(s)

\* A bound on the samples that the timer and the user cause.
Room == page.meta.count < MaxSamples

-----------------------------------------------------------------------------
(* Timer and events *)

\* The timer samples every second and flushes every fifth time; so do the
\* events visibilitychange and pagehide.
Second ==
  /\ page.active /\ Room
  /\ Task(Sampled(page)) \/ Task(Flushed(Sampled(page)))
  /\ UNCHANGED <<store, export, exported, sessions, early, faults>>

\* More than 2000 different events since the last flush.
EventStorm ==
  /\ Fault
  /\ page.active /\ Task(Failed(Flushed(page)))
  /\ UNCHANGED <<store, export, exported, sessions, early>>

\* The page is closed, reloaded or crashes, and is opened again.
Reload ==
  /\ Fault
  /\ page.open /\ Task([Loaded(page.flag, page.saved) EXCEPT !.open = FALSE])
  /\ export' = NoExport
  /\ UNCHANGED <<store, exported, sessions, early>>

Open ==
  /\ ~page.open /\ Task([page EXCEPT !.open = TRUE])
  /\ UNCHANGED <<store, export, exported, sessions, early, faults>>

-----------------------------------------------------------------------------
(* Starting and stopping *)

\* The toggle and the button: start while inactive, stop while active.
Toggle ==
  /\ page.open /\ page.busy \notin {"resume", "clear"} /\ Len(page.life) < 2
  /\ \/ /\ ~page.active /\ sessions + Len(page.life) < MaxSessions
        /\ Task([page EXCEPT !.life = Append(@, "start")])
     \/ /\ page.active /\ Room
        /\ Task([page EXCEPT !.life = Append(@, "stop")])
  /\ UNCHANGED <<store, export, exported, sessions, early, faults>>

Ready(op) == Queued /\ Head(page.life) = op

Reading(s, why) == [s EXCEPT !.busy = why, !.db = Append(@, Transaction("read", NoChunk))]

\* A page that opens resumes the session, or shows the saved one.
Load ==
  /\ Ready("load")
  /\ Goes(IF page.flag THEN Reading(page, "resume")
          ELSE IF page.saved THEN Reading(page, "view") ELSE Over(page))
  /\ UNCHANGED <<store, export, exported, sessions, early, faults>>

\* start(): nothing to do while active; the store may not open.  It does not wait
\* for the chunks of the session before, whose description it replaces.
Start ==
  /\ Ready("start")
  /\ \/ /\ page.active /\ Goes(Over(page)) /\ UNCHANGED <<sessions, early, faults>>
     \/ /\ ~page.active /\ Goes(Fresh(page))
        /\ sessions' = sessions + 1 /\ early' = (early \/ page.writes # <<>>)
        /\ UNCHANGED faults
     \/ /\ ~page.active /\ Fault /\ Goes(Rejected(page)) /\ UNCHANGED <<sessions, early>>
  /\ UNCHANGED <<store, export, exported>>

\* Mutant of Stopping: the last samples are not flushed.
StoppingAtOnce(s) ==
  [s EXCEPT !.active = FALSE, !.flag = FALSE, !.busy = "flush", !.batch = 0]

\* The session ends with a last sample, and its description is stored with it.
Stopping(s) ==
  Flushed([Sampled(s) EXCEPT !.active = FALSE, !.flag = FALSE, !.busy = "flush",
                             !.meta.stopped = TRUE])

\* stop() waits for its chunk.
Stop ==
  /\ Ready("stop")
  /\ Goes(IF page.active THEN Stopping(page) ELSE Over(page))
  /\ UNCHANGED <<store, export, exported, sessions, early, faults>>

Stopped ==
  /\ page.busy = "flush" /\ page.writes = <<>>
  /\ Task(Over(page))
  /\ UNCHANGED <<store, export, exported, sessions, early, faults>>

-----------------------------------------------------------------------------
(* IndexedDB *)

Due(kind) == page.db # <<>> /\ Head(page.db).kind = kind
Settled == [page EXCEPT !.db = Tail(@)]

\* The stored description has been read, or not.
MetaRead ==
  /\ Due("read")
  /\ LET m == store.meta
         over == m.session = 0 \/ m.stopped \/ m.error
     IN \/ /\ page.busy = "view"
           /\ Task(Over([Settled EXCEPT !.meta = m])) /\ UNCHANGED <<sessions, faults>>
        \/ /\ page.busy = "resume" /\ UNCHANGED faults
           /\ Task(IF over THEN Fresh(Settled) ELSE Activated([Settled EXCEPT !.meta = m]))
           /\ sessions' = IF over THEN sessions + 1 ELSE sessions
        \/ /\ Fault
           /\ Task(IF page.busy = "resume" THEN Rejected(Settled) ELSE Over(Settled))
           /\ UNCHANGED sessions
  /\ UNCHANGED <<store, export, exported, early>>

\* The store is emptied for the new session, or not.
StoreCleared ==
  /\ Due("clear")
  /\ \/ /\ store' = [meta |-> page.meta, chunks |-> {}]
        /\ Task(Activated(Settled)) /\ UNCHANGED faults
     \/ /\ Fault /\ Task(Rejected(Settled)) /\ UNCHANGED store
  /\ UNCHANGED <<export, exported, sessions, early>>

\* Mutant of Write: the description is stored on its own, before the chunk.
WriteMeta(c) == [store EXCEPT !.meta = c.meta]

\* The transaction of a chunk: the description and the chunk are stored.
Write(c) == [meta |-> c.meta, chunks |-> store.chunks \cup {Stored(c)}]

\* A chunk is written, or not: a number that is taken is refused.
ChunkWritten ==
  LET c == Head(page.db).chunk
      taken == \E k \in store.chunks : k.sequence = c.meta.chunks
      rest == [Settled EXCEPT !.writes = Tail(@)]
  IN /\ Due("write")
     /\ \/ /\ ~taken /\ store' = Write(c)
           /\ Task(Continued(rest)) /\ UNCHANGED faults
        \/ /\ taken \/ Fault
           /\ taken => UNCHANGED faults
           /\ Task(Continued(Failed([rest EXCEPT !.failed = Append(@, c)])))
           /\ UNCHANGED store
     /\ UNCHANGED <<export, exported, sessions, early>>

-----------------------------------------------------------------------------
(* Exporting *)

\* snapshot(), once no operation is running: a last sample is flushed and the
\* description copied.
Export ==
  LET s == Flushed(Sampled(page))
  IN /\ page.open /\ page.busy = "no" /\ page.meta.session # 0 /\ export = NoExport
     /\ (page.active => Room)
     /\ Task(s)
     /\ export' = [stage |-> "waits", header |-> s.meta, wait |-> Range(s.writes), rest |-> 0]
     /\ UNCHANGED <<store, exported, sessions, early, faults>>

\* Mutant of KeptAside: the last chunk is taken to be stored.
KeptAsideEarlier(h) ==
  {i \in DOMAIN page.failed : page.failed[i].meta.chunks < h.chunks}

\* The chunks of the description h that could not be written.
KeptAside(h) ==
  {i \in DOMAIN page.failed : page.failed[i].meta.chunks <= h.chunks}

\* The chunks flushed so far are settled: those that were not written are taken
\* from memory, the others are read.
ExportReads ==
  /\ export.stage = "waits" /\ export.wait \cap Range(page.writes) = {}
  /\ export' = [export EXCEPT !.stage = "reads", !.wait = {},
                  !.header.error = @ \/ page.meta.error,
                  !.rest = Sum(KeptAside(export.header), LAMBDA i : page.failed[i].n)]
  /\ Task([page EXCEPT !.db = Append(@, Transaction("export", NoChunk))])
  /\ UNCHANGED <<store, exported, sessions, early, faults>>

\* The chunks are read, or the download fails.
ExportEnds ==
  LET h == export.header
      chunks == {k \in store.chunks : k.sequence <= h.chunks}
  IN /\ Due("export") /\ Task(Settled) /\ export' = NoExport
     /\ \/ /\ exported' = [count |-> h.count, got |-> export.rest + Sum(chunks, LAMBDA k : k.n),
                           complete |-> h.stopped /\ ~h.error,
                           replaced |-> page.meta.session # h.session]
           /\ UNCHANGED faults
        \/ Fault /\ UNCHANGED exported
     /\ UNCHANGED <<store, sessions, early>>

Next ==
  \/ Second \/ EventStorm \/ Reload \/ Open
  \/ Toggle \/ Load \/ Start \/ Stop \/ Stopped
  \/ MetaRead \/ StoreCleared \/ ChunkWritten
  \/ Export \/ ExportReads \/ ExportEnds

Spec == Init /\ [][Next]_vars

\* Promises and transactions settle; users, timers and faults owe nothing.
Fairness == WF_vars(Open \/ Load \/ Start \/ Stop \/ Stopped \/ MetaRead
                    \/ StoreCleared \/ ChunkWritten \/ ExportReads \/ ExportEnds)

FairSpec == Spec /\ Fairness

-----------------------------------------------------------------------------
(* Safety *)

\* Until a session is begun over unsettled chunks, no counted sample is lost,
\* whatever fails to be written: each is stored, on its way, kept aside or in the
\* batch.
NoSampleLost == early \/
  LET m == page.meta
      own(q) == {i \in DOMAIN q : q[i].meta.session = m.session}
      size(q) == Sum(own(q), LAMBDA i : q[i].n)
      kept == {k \in store.chunks : k.session = m.session /\ k.sequence <= m.chunks}
  IN Sum(kept, LAMBDA k : k.n) + size(page.writes) + size(page.failed) + page.batch >= m.count

\* Until a session is begun over unsettled chunks, and whatever breaks off between
\* two steps, the stored description tells exactly what is stored with it: no
\* chunk is missing or left over, no sample counted that is not there.
StoreWhole == early \/
  /\ {k.sequence : k \in store.chunks} = 1..store.meta.chunks
  /\ Sum(store.chunks, LAMBDA k : k.n) = store.meta.count

\* A recording that cannot be stored is never shown as running: a chunk that was
\* kept aside ends it, and the session is no longer called complete.
FailureVisible ==
  \A i \in DOMAIN page.failed :
    ~page.active /\ (page.failed[i].meta.session = page.meta.session => page.meta.error)

\* An export delivers every sample that its description counts, also what could
\* not be stored, unless another session was started meanwhile or one had been
\* begun over unsettled chunks.
ExportWhole == early \/ exported.replaced \/ exported.got >= exported.count

\* "A new recording replaces the previous one": the store never holds a chunk of
\* another session than the one it describes.  It does when a session is begun
\* over unsettled chunks: those are written after the store was cleared.
ReplacesPrevious == \A k \in store.chunks : k.session = store.meta.session

(* Liveness *)

\* Starting and stopping come to an end, also when storage fails.
LifecycleSettles == (page.busy # "no") ~> (page.busy = "no")

-----------------------------------------------------------------------------
(* The inductive invariant, stated of a page p, the store st, the export x, *)
(* the number of sessions ss and the number of faults f; it holds until a  *)
(* session is begun over unsettled chunks                                  *)

Described == [session : Nat, count : Nat, chunks : Nat, stopped : BOOLEAN, error : BOOLEAN]
Batches == [n : Nat \ {0}, meta : Described]
Transactions == [kind : {"read", "clear", "write", "export"}, chunk : Batches \cup {NoChunk}]
Pages ==
  [open : BOOLEAN, active : BOOLEAN, meta : Described, batch : Nat, writes : Seq(Batches),
   failed : Seq(Batches), db : Seq(Transactions), life : Seq({"load", "start", "stop"}),
   busy : {"no", "resume", "view", "clear", "flush"}, flag : BOOLEAN, saved : BOOLEAN]
Stores == [meta : Described, chunks : SUBSET [session : Nat, sequence : Nat, n : Nat \ {0}]]
Exports == [stage : {"none", "waits", "reads"}, header : Described, wait : SUBSET Batches, rest : Nat]

\* Somebody waits for each transaction t; of each kind at most one is under way.
Awaited(t, p, x) ==
  /\ t.kind = "write" => (p.writes # <<>> /\ t.chunk = Head(p.writes))
  /\ t.kind = "read" => p.busy \in {"resume", "view"}
  /\ t.kind = "clear" => p.busy = "clear"
  /\ t.kind = "export" => x.stage = "reads"
Matched(p, x) ==
  \A i \in DOMAIN p.db :
    /\ Awaited(p.db[i], p, x)
    /\ \A j \in DOMAIN p.db : p.db[i].kind = p.db[j].kind => i = j

\* The operations that may be queued, one behind the other.
Lined(p) ==
  \/ p.busy = "no" /\ p.life = <<>>
  \/ p.busy = "no" /\ p.life = <<"load">> /\ ~p.active /\ p.db = <<>>
  \/ p.busy = "no" /\ p.life = <<"start">> /\ ~p.active
  \/ p.busy = "no" /\ p.life = <<"stop">> /\ p.active
  \/ p.busy = "resume" /\ p.life = <<"load">> /\ ~p.active
  \/ p.busy = "view" /\ p.life \in {<<"load">>, <<"load", "start">>} /\ ~p.active
  \/ p.busy = "clear" /\ p.life \in {<<"load">>, <<"start">>} /\ ~p.active
  \/ p.busy = "flush" /\ p.life \in {<<"stop">>, <<"stop", "start">>} /\ ~p.active

\* A page that has not loaded yet has done nothing.
Loads(p) == p.life # <<>> /\ Head(p.life) = "load"
Untouched(p, x) ==
  /\ ~p.open => (p.life = <<"load">> /\ p.busy = "no")
  /\ Loads(p) => (p.writes = <<>> /\ p.failed = <<>> /\ p.batch = 0 /\ x = NoExport)
  /\ (Loads(p) /\ p.busy # "clear") => p.meta = NoMeta

\* Sessions are numbered in the order in which they are begun.
Numbered(p, st, x, ss) ==
  /\ p.meta.session <= ss /\ st.meta.session <= ss /\ x.header.session <= ss
  /\ \A i \in DOMAIN p.writes : p.writes[i].meta.session \in 1..ss
  /\ \A i \in DOMAIN p.failed : p.failed[i].meta.session \in 1..ss
  /\ (p.active \/ p.batch > 0 \/ p.busy = "clear") => p.meta.session # 0

\* What could not be stored is visible.
Visible(p) ==
  /\ p.failed # <<>> => (p.writes = <<>> /\ ~p.active)
  /\ \A i \in DOMAIN p.failed : p.failed[i].meta.session = p.meta.session => p.meta.error
  /\ (~p.active /\ p.batch > 0 /\ p.failed # <<>> /\ p.busy # "clear") => p.meta.error

Orderly(p, st, x, ss) ==
  /\ p \in Pages /\ st \in Stores /\ x \in Exports /\ ss \in Nat
  /\ Matched(p, x) /\ Lined(p) /\ Untouched(p, x) /\ Numbered(p, st, x, ss) /\ Visible(p)

OrderlyInv == Orderly(page, store, export, sessions)

\* The bounds are kept; f of the samples are those that followed faults.
Small(m, f) ==
  m.session <= MaxSessions /\ m.count <= MaxSamples + f /\ m.chunks <= MaxSamples + f
Bounded(p, st, x, ss, f) ==
  /\ ss <= MaxSessions /\ f <= MaxFaults
  /\ Small(p.meta, f) /\ Small(st.meta, f) /\ Small(x.header, f) /\ p.batch <= MaxSamples + f
  /\ \A i \in DOMAIN p.writes : Small(p.writes[i].meta, f) /\ p.writes[i].n <= MaxSamples + f
  /\ \A i \in DOMAIN p.failed : Small(p.failed[i].meta, f) /\ p.failed[i].n <= MaxSamples + f
  /\ (p.busy = "no" /\ p.life = <<"stop">>) => p.meta.count < MaxSamples
  /\ ("start" \in Range(p.life) /\ p.busy # "clear") => ss < MaxSessions
  /\ Loads(p) => st.meta.count + 1 <= MaxSamples + f

\* A batch has samples of its own; chunks have at least one.
Counted(p, st) ==
  /\ st.meta.chunks <= st.meta.count
  /\ \A i \in DOMAIN p.writes : p.writes[i].meta.chunks <= p.writes[i].meta.count
  /\ \/ p.meta.chunks + p.batch <= p.meta.count
     \/ /\ ~p.active /\ p.meta.count = 0
        /\ p.meta.chunks = 0 \/ (p.meta.chunks = 1 /\ p.batch = 0)

\* Nothing of a former session is written once another one begins; what the page
\* does not share with the store is empty.
Settling(p, st, ss) ==
  /\ p.busy = "clear" => /\ p.life = <<"start">> /\ ss > st.meta.session
                         /\ p.meta = [NoMeta EXCEPT !.session = ss]
  /\ p.meta.session # st.meta.session => (~p.active /\ p.writes = <<>> /\ p.meta.count = 0)
  /\ Len(p.writes) <= Backlog
  /\ p.active => Len(p.writes) < Backlog

\* Samples wait in the batch of a session that is recorded, or that could not be.
Attended(p) == p.batch > 0 => (p.active \/ p.failed # <<>>)

\* A session that resumes after a reload is one that was neither stopped nor failed.
Clean(m) == ~m.stopped /\ ~m.error
Resumable(p, st) ==
  /\ p.busy = "resume" => p.flag
  /\ p.busy = "view" => ~p.flag
  /\ p.flag => ((p.active \/ Loads(p)) /\ st.meta.session # 0 /\ Clean(st.meta))
  /\ p.active => (Clean(p.meta) /\ \A i \in DOMAIN p.writes : Clean(p.writes[i].meta))

\* The chunks that are being written follow each other and those in the store.
Before(p, st, i) == IF i = 1 THEN st.meta.count ELSE p.writes[i - 1].meta.count
Last(p, st) == Before(p, st, Len(p.writes) + 1)
Consecutive(p, st) ==
  /\ \A i \in DOMAIN p.writes :
       /\ p.writes[i].meta.session = st.meta.session
       /\ p.writes[i].meta.chunks = st.meta.chunks + i
       /\ p.writes[i].meta.count = Before(p, st, i) + p.writes[i].n
  /\ \A i \in DOMAIN p.failed :
       p.failed[i].meta.session = p.meta.session => p.failed[i].meta.chunks <= p.meta.chunks
  /\ (p.failed = <<>> /\ p.meta.session = st.meta.session /\ p.meta.session # 0) =>
       /\ p.meta.chunks = st.meta.chunks + Len(p.writes)
       /\ p.meta.count = Last(p, st) + p.batch

\* What the export of this session delivers is stored, on its way or kept aside.
Below(q, h) == Sum({i \in DOMAIN q : q[i].meta.chunks <= h.chunks}, LAMBDA i : q[i].n)
StoredBelow(st, h) == Sum({k \in st.chunks : k.sequence <= h.chunks}, LAMBDA k : k.n)
Deliverable(p, st, x) ==
  LET h == x.header
  IN /\ (p.busy = "clear" /\ x.stage # "none") => h.session < p.meta.session
     /\ (h.session = p.meta.session /\ x.stage = "waits") =>
          /\ h.chunks <= p.meta.chunks
          /\ StoredBelow(st, h) + Below(p.writes, h) + Below(p.failed, h) >= h.count
          /\ \A i \in DOMAIN p.writes : p.writes[i].meta.chunks <= h.chunks => p.writes[i] \in x.wait
     /\ (h.session = p.meta.session /\ x.stage = "reads") => x.rest + StoredBelow(st, h) >= h.count

IInv ==
  /\ OrderlyInv /\ faults \in Nat /\ IsFiniteSet(store.chunks)
  /\ Bounded(page, store, export, sessions, faults)
  /\ Counted(page, store)
  /\ Settling(page, store, sessions) /\ Attended(page)
  /\ Resumable(page, store)
  /\ Consecutive(page, store)
  /\ Deliverable(page, store, export)
  /\ StoreWhole /\ ReplacesPrevious /\ NoSampleLost /\ ExportWhole

=============================================================================
