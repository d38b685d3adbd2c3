---------------------------- MODULE LiveUpdates ----------------------------
(***************************************************************************)
(* Live updates behind Home Assistant's Ingress: scans write the index and *)
(* emit events into a bounded history (ctv_server/api/events.py), and the  *)
(* page (ctv_web/js/app.js) polls that history with a cursor, asks for the *)
(* timeline again when an event says that it changed, and shows the answer *)
(* of the last request it made.                                            *)
(*                                                                         *)
(* The index is reduced to the number of changes made to it: a timeline is *)
(* the version it was read at.  Versions start at 1; 0 is no timeline, an  *)
(* answer that has not been given, and the version that an event announces *)
(* which refreshes nothing (progress).  liveGeneration and                 *)
(* timelineLoadSequence only tell the current request from superseded      *)
(* ones, so each request carries that as a flag.  Delays are not modelled. *)
(*                                                                         *)
(* Definitions commented as a mutant are plausible bugs: no behaviour of   *)
(* the specification uses them, the properties are tested against them.    *)
(***************************************************************************)
EXTENDS Naturals, Sequences, FiniteSets

CONSTANTS
  Days,          (* the days a viewer may select                            *)
  HistoryLimit,  (* maxlen of _history                                      *)
  BatchLimit,    (* the most events of one poll                             *)
  MaxVersion,    (* bound on the changes of the index                       *)
  MaxEvents,     (* bound on the events of one server process               *)
  MaxEpoch,      (* bound on the server processes                           *)
  MaxRequests,   (* bound on the requests of one kind in flight             *)
  Faults         (* "latePoll": the first poll may be answered after the    *)
                 (* first timeline was asked for; "timeline": a request for *)
                 (* the timeline may fail                                   *)

ASSUME LiveUpdatesAssumption ==
  /\ Days # {}
  /\ HistoryLimit \in Nat \ {0} /\ BatchLimit \in Nat \ {0}
  /\ MaxVersion \in Nat \ {0} /\ MaxEvents \in Nat
  /\ MaxEpoch \in Nat \ {0} /\ MaxRequests \in Nat \ {0}
  /\ Faults \subseteq {"latePoll", "timeline"}

VARIABLES
  db,            (* the version of the index                                *)
  unsent,        (* versions written by scans that have not emitted yet     *)
  log,           (* the version each event of this process announces; the   *)
                 (* last HistoryLimit of them are _history                  *)
  epoch,         (* _epoch                                                  *)
  visible,       (* ~document.hidden                                        *)
  boot,          (* _ctvInit: "polling" (awaits the first poll), "loading"  *)
                 (* (until the first loadTimeline) or "done"                *)
  cursor,        (* liveCursor                                              *)
  polls,         (* the polls in flight                                     *)
  pollTimer,     (* livePollTimer is set                                    *)
  refreshTimer,  (* derivedTimelineRefresh is set                           *)
  staleCameras,  (* liveCamerasNeedRefresh                                  *)
  reloading,     (* refreshes that wait for loadCameras()                   *)
  day,           (* S.selectedDate                                          *)
  loads,         (* the loadTimeline() calls in flight                      *)
  shown          (* S.timeline: its day and its version                     *)

serverVars  == <<db, unsent, log, epoch>>
pollVars    == <<visible, boot, cursor, polls, pollTimer>>
refreshVars == <<refreshTimer, staleCameras, reloading>>
loadVars    == <<day, loads, shown>>
vars == <<serverVars, pollVars, refreshVars, loadVars>>

Cursors == [epoch : Nat, at : Nat]
NoCursor == [epoch |-> 0, at |-> 0]

\* A poll: whether its generation is current, the cursor it was sent with, and,
\* once the server answered, the new cursor and what the batch says.
Polls ==
  [current : BOOLEAN, query : Cursors, done : BOOLEAN,
   cursor : Cursors, reset : BOOLEAN, news : BOOLEAN]

\* A loadTimeline(): whether its requestId is the last one, the day it read on
\* entry, and the version in the answer to its last request.
Loads == [current : BOOLEAN, day : Days, version : Nat]

TypeOK ==
  /\ db \in Nat /\ unsent \subseteq Nat /\ log \in Seq(Nat) /\ epoch \in Nat \ {0}
  /\ visible \in BOOLEAN /\ boot \in {"polling", "loading", "done"}
  /\ cursor \in Cursors /\ polls \subseteq Polls /\ pollTimer \in BOOLEAN
  /\ refreshTimer \in BOOLEAN /\ staleCameras \in BOOLEAN /\ reloading \in Nat
  /\ day \in Days /\ loads \subseteq Loads /\ shown \in [day : Days, version : Nat]

NewPoll(q) ==
  [current |-> TRUE, query |-> q, done |-> FALSE,
   cursor |-> NoCursor, reset |-> FALSE, news |-> FALSE]

Init ==
  /\ db = 1 /\ unsent = {} /\ log = <<>> /\ epoch = 1
  /\ visible = TRUE /\ boot = "polling"
  /\ cursor = NoCursor /\ polls = {NewPoll(NoCursor)} /\ pollTimer = FALSE
  /\ refreshTimer = FALSE /\ staleCameras = FALSE /\ reloading = 0
  /\ day \in Days /\ loads = {} /\ shown = [day |-> day, version |-> 0]

Current(R) == {r \in R : r.current}

-----------------------------------------------------------------------------
(* The server *)

\* A scan commits a change of the index; the event follows in a later step.
Write ==
  /\ db < MaxVersion
  /\ db' = db + 1
  /\ unsent' = unsent \cup {db + 1}
  /\ UNCHANGED <<log, epoch, pollVars, refreshVars, loadVars>>

Emit(v) ==
  /\ v \in unsent
  /\ unsent' = unsent \ {v}
  /\ log' = Append(log, v)
  /\ UNCHANGED <<db, epoch, pollVars, refreshVars, loadVars>>

\* Events that refresh nothing: a scan has started, or goes on.
EmitProgress ==
  /\ Len(log) + (MaxVersion - db) + Cardinality(unsent) < MaxEvents
  /\ log' = Append(log, 0)
  /\ UNCHANGED <<db, unsent, epoch, pollVars, refreshVars, loadVars>>

\* The first event in _history; one more than the last if there is none.
Oldest == IF Len(log) > HistoryLimit THEN Len(log) - HistoryLimit + 1 ELSE 1

Expired(q) == q.epoch # epoch \/ q.at + 1 < Oldest \/ q.at > Len(log)

Here(n) == [epoch |-> epoch, at |-> n]

Answer(p, c, reset, news) ==
  polls' = (polls \ {p}) \cup
    {[p EXCEPT !.done = TRUE, !.cursor = c, !.reset = reset, !.news = news]}

\* poll_events(): no cursor gives the end of the history; one that the history
\* cannot continue gives a reset; else as many events follow as the limits on
\* their number and size allow, one at least, or a reset when one is too large.
Answers(p) ==
  \/ p.query = NoCursor /\ Answer(p, Here(Len(log)), FALSE, FALSE)
  \/ p.query # NoCursor /\ Expired(p.query) /\ Answer(p, Here(Len(log)), TRUE, FALSE)
  \/ /\ p.query # NoCursor /\ ~Expired(p.query)
     /\ \E n \in p.query.at .. Len(log) :
          /\ n <= p.query.at + BatchLimit
          /\ n > p.query.at \/ n = Len(log)
          /\ Answer(p, Here(n), FALSE, \E i \in Oldest .. n : i > p.query.at /\ log[i] # 0)
  \/ p.query # NoCursor /\ p.query.at < Len(log) /\ Answer(p, Here(Len(log)), TRUE, FALSE)

ServePoll(p) ==
  /\ p \in polls /\ ~p.done
  /\ Answers(p)
  /\ UNCHANGED <<serverVars, visible, boot, cursor, pollTimer, refreshVars, loadVars>>

ServeTimeline(l) ==
  /\ l \in loads /\ l.version = 0
  /\ loads' = (loads \ {l}) \cup {[l EXCEPT !.version = db]}
  /\ UNCHANGED <<serverVars, pollVars, refreshVars, day, shown>>

-----------------------------------------------------------------------------
(* The page: the poll loop *)

\* The first poll is over before the first timeline is asked for, unless the
\* environment is one in which it fails or is aborted.
FirstPollOver == cursor # NoCursor \/ "latePoll" \in Faults

BootAfterPoll == boot' = IF boot = "polling" THEN "loading" ELSE boot

\* Mutant of Refreshes: a reset only moves the cursor.
RefreshesNews(p) == (cursor = NoCursor /\ shown.version # 0) \/ p.news

\* What makes pollLiveUpdates() ask for a refresh of everything, or one of the
\* dispatched events for one of the timeline at least.
Refreshes(p) == p.reset \/ (cursor = NoCursor /\ shown.version # 0) \/ p.news

\* Mutant of PollAnswered: the answer of a former generation is used.
PollAnsweredAlways(p) ==
  /\ p \in polls /\ p.done
  /\ polls' = polls \ {p} /\ pollTimer' = visible
  /\ cursor' = p.cursor
  /\ refreshTimer' = (refreshTimer \/ Refreshes(p))
  /\ staleCameras' = (staleCameras \/ (Refreshes(p) /\ ~p.news))
  /\ BootAfterPoll
  /\ UNCHANGED <<serverVars, visible, reloading, loadVars>>

PollAnswered(p) ==
  /\ p \in polls /\ p.current /\ p.done
  /\ polls' = polls \ {p} /\ pollTimer' = TRUE
  /\ cursor' = p.cursor
  /\ refreshTimer' = (refreshTimer \/ Refreshes(p))
  /\ \/ staleCameras' = (staleCameras \/ (Refreshes(p) /\ ~p.news))
     \/ p.news /\ staleCameras' = TRUE
  /\ BootAfterPoll
  /\ UNCHANGED <<serverVars, visible, reloading, loadVars>>

\* Mutant of PollFails: nothing is tried again.
PollFailsForGood(p) ==
  /\ p \in polls /\ p.current /\ FirstPollOver
  /\ polls' = polls \ {p} /\ pollTimer' = FALSE
  /\ BootAfterPoll
  /\ UNCHANGED <<serverVars, visible, cursor, refreshVars, loadVars>>

\* No answer within eight seconds, or an error: the next poll asks again from
\* the same cursor.
PollFails(p) ==
  /\ p \in polls /\ p.current /\ FirstPollOver
  /\ polls' = polls \ {p} /\ pollTimer' = TRUE
  /\ BootAfterPoll
  /\ UNCHANGED <<serverVars, visible, cursor, refreshVars, loadVars>>

\* A poll of a former generation ends without a trace.
PollAborted(p) ==
  /\ p \in polls /\ ~p.current
  /\ polls' = polls \ {p}
  /\ UNCHANGED <<serverVars, visible, boot, cursor, pollTimer, refreshVars, loadVars>>

PollAgain ==
  /\ pollTimer /\ Cardinality(polls) < MaxRequests
  /\ pollTimer' = FALSE
  /\ polls' = polls \cup {NewPoll(cursor)}
  /\ UNCHANGED <<serverVars, visible, boot, cursor, refreshVars, loadVars>>

Superseded == {[p EXCEPT !.current = FALSE] : p \in polls}

\* stopLiveUpdates() when the page is hidden, or left.
Hide ==
  /\ visible /\ FirstPollOver
  /\ visible' = FALSE
  /\ polls' = Superseded /\ pollTimer' = FALSE
  /\ BootAfterPoll
  /\ UNCHANGED <<serverVars, cursor, refreshVars, loadVars>>

\* startLiveUpdates() when the page is shown, or comes back from the cache; the
\* two may follow each other.
Show ==
  /\ FirstPollOver /\ Cardinality(polls) < MaxRequests
  /\ visible' = TRUE
  /\ polls' = Superseded \cup {NewPoll(cursor)} /\ pollTimer' = FALSE
  /\ BootAfterPoll
  /\ UNCHANGED <<serverVars, cursor, refreshVars, loadVars>>

-----------------------------------------------------------------------------
(* The page: loads of the timeline *)

StartLoad(d) ==
  /\ Cardinality(loads) < MaxRequests
  /\ loads' = {[l EXCEPT !.current = FALSE] : l \in loads} \cup
       {[current |-> TRUE, day |-> d, version |-> 0]}

\* The debounced refresh runs: cameras first when they are stale.
RefreshDue ==
  /\ refreshTimer
  /\ refreshTimer' = FALSE
  /\ \/ /\ staleCameras /\ reloading < MaxRequests
        /\ staleCameras' = FALSE /\ reloading' = reloading + 1
        /\ UNCHANGED loadVars
     \/ /\ ~staleCameras
        /\ StartLoad(day)
        /\ UNCHANGED <<staleCameras, reloading, day, shown>>
  /\ UNCHANGED <<serverVars, pollVars>>

CamerasLoaded ==
  /\ reloading > 0
  /\ reloading' = reloading - 1
  /\ StartLoad(day)
  /\ UNCHANGED <<serverVars, pollVars, refreshTimer, staleCameras, day, shown>>

\* The end of _ctvInit().
InitialLoad ==
  /\ boot = "loading"
  /\ boot' = "done"
  /\ StartLoad(day)
  /\ UNCHANGED <<serverVars, visible, cursor, polls, pollTimer, refreshVars, day, shown>>

\* changeDay() and its kin.
OpenDay(d) ==
  /\ boot = "done" \/ "latePoll" \in Faults
  /\ day' = d
  /\ StartLoad(d)
  /\ UNCHANGED <<serverVars, pollVars, refreshVars, shown>>

\* Mutant of TimelineAnswered: the answer of a superseded request is shown.
TimelineAnsweredAlways(l) ==
  /\ l \in loads /\ l.version # 0
  /\ loads' = loads \ {l}
  /\ shown' = [day |-> l.day, version |-> l.version]
  /\ UNCHANGED <<serverVars, pollVars, refreshVars, day>>

TimelineAnswered(l) ==
  /\ l \in loads /\ l.version # 0
  /\ loads' = loads \ {l}
  /\ shown' = IF l.current THEN [day |-> l.day, version |-> l.version] ELSE shown
  /\ UNCHANGED <<serverVars, pollVars, refreshVars, day>>

TimelineFails(l) ==
  /\ l \in loads /\ "timeline" \in Faults
  /\ loads' = loads \ {l}
  /\ UNCHANGED <<serverVars, pollVars, refreshVars, day, shown>>

-----------------------------------------------------------------------------
\* The server stops and starts again: its history and what was not emitted are
\* lost, and so are the requests that it has not answered.
Restart ==
  /\ epoch < MaxEpoch /\ FirstPollOver
  /\ epoch' = epoch + 1
  /\ log' = <<>> /\ unsent' = {}
  /\ loads' = {l \in loads : l.version # 0}
  /\ polls' = {p \in polls : p.done}
  /\ pollTimer' = (pollTimer \/ \E p \in polls : p.current /\ ~p.done)
  /\ BootAfterPoll
  /\ UNCHANGED <<db, visible, cursor, refreshVars, day, shown>>

ServerStep ==
  \/ Write \/ EmitProgress \/ Restart
  \/ \E v \in unsent : Emit(v)
  \/ \E p \in polls : ServePoll(p)
  \/ \E l \in loads : ServeTimeline(l)

PollStep ==
  \/ \E p \in polls : PollAnswered(p) \/ PollFails(p) \/ PollAborted(p)
  \/ PollAgain \/ Hide \/ Show

LoadStep ==
  \/ RefreshDue \/ CamerasLoaded \/ InitialLoad
  \/ \E d \in Days : OpenDay(d)
  \/ \E l \in loads : TimelineAnswered(l) \/ TimelineFails(l)

Next == ServerStep \/ PollStep \/ LoadStep

Spec == Init /\ [][Next]_vars

(***************************************************************************)
(* Fairness: a scan that committed emits, the page's timers fire and every *)
(* request ends.  Polls may fail, be aborted by a viewer who hides and     *)
(* shows the page, and loads be superseded by one who changes the day, as  *)
(* long as again and again one gets through: that is strong fairness.      *)
(***************************************************************************)
Fairness ==
  /\ WF_vars(\E v \in unsent : Emit(v))
  /\ SF_vars(\E p \in Current(polls) : ServePoll(p))
  /\ SF_vars(\E p \in polls : PollAnswered(p))
  /\ WF_vars(\E p \in polls : PollAborted(p))
  /\ SF_vars(\E l \in Current(loads) : ServeTimeline(l))
  /\ SF_vars(\E l \in Current(loads) : TimelineAnswered(l))
  /\ WF_vars(\E l \in loads : ServeTimeline(l)) /\ WF_vars(\E l \in loads : TimelineAnswered(l))
  /\ WF_vars(PollAgain) /\ WF_vars(RefreshDue) /\ WF_vars(CamerasLoaded)
  /\ WF_vars(InitialLoad)

FairSpec == Spec /\ Fairness

-----------------------------------------------------------------------------
(* Safety *)

\* While the page is visible exactly one of its poll timer and a poll of the
\* current generation exists, while it is hidden none: the loop neither dies nor
\* doubles, whatever stops, starts, failures and late answers do.
OneLoop ==
  LET timers == IF pollTimer THEN 1 ELSE 0
  IN  Cardinality(Current(polls)) + timers = IF visible THEN 1 ELSE 0

\* An answer that will be used continues exactly where the events dispatched so
\* far end: no event is dispatched twice, out of order or skipped.
NextBatch == \A p \in Current(polls) : p.query = cursor

\* A refresh that will show v at least is on its way.
Refreshing(v) ==
  \/ refreshTimer \/ reloading > 0 \/ boot # "done"
  \/ \E l \in Current(loads) : l.version = 0 \/ l.version >= v

\* Every change announced by an event up to the cursor is shown or on its way,
\* also when the history or the process that held the event is gone.
AnnouncedShown ==
  cursor.epoch = epoch =>
    \A i \in 1 .. cursor.at : shown.version >= log[i] \/ Refreshing(log[i])

\* Whatever is answered late or out of order, and whichever day was asked for
\* meanwhile, the viewer never goes back to an older state of the index and never
\* to a day that was turned away from.
NeverOlder ==
  [][shown'.version >= shown.version /\ (shown' # shown => shown'.day = day)]_vars

(* Liveness *)

\* While the page stays visible every change of the index reaches it.
ChangesReachPage ==
  \A v \in 1 .. MaxVersion : db >= v ~> shown.version >= v \/ ~visible

-----------------------------------------------------------------------------
(* The inductive invariant *)

\* Answers and timelines lie in the past of the server that gave them.
PastAnswers ==
  /\ \A i \in 1 .. Len(log) : log[i] <= db
  /\ \A v \in unsent : v <= db
  /\ cursor.epoch <= epoch
  /\ cursor.epoch = epoch => cursor.at <= Len(log)
  /\ \A p \in polls : p.done =>
       /\ p.cursor.epoch \in 1 .. epoch
       /\ p.cursor.epoch = epoch => p.cursor.at <= Len(log)
  /\ shown.version <= db
  /\ \A l \in loads : l.version <= db

\* What OneLoop says, without counting.
PollLoop ==
  /\ \A p, q \in Current(polls) : p = q
  /\ pollTimer => Current(polls) = {}
  /\ visible <=> pollTimer \/ Current(polls) # {}

\* A batch that will be used announces what lies between the two cursors if
\* anything does, or resets.
BatchComplete ==
  \A p \in Current(polls) :
    p.done /\ p.cursor.epoch = epoch /\ p.query # NoCursor /\ ~p.reset /\ ~p.news =>
      /\ p.query.epoch = epoch
      /\ \A i \in p.query.at + 1 .. p.cursor.at : log[i] = 0

\* Only one load can still be shown: it is of the selected day and brings nothing
\* older.
LastLoad ==
  /\ \A l, m \in Current(loads) : l = m
  /\ \A l \in Current(loads) : l.day = day /\ (l.version = 0 \/ l.version >= shown.version)

\* The first poll is over before the first timeline is asked for.
PollsFirst ==
  cursor = NoCursor =>
    /\ boot = "polling" /\ loads = {} /\ shown.version = 0
    /\ ~refreshTimer /\ reloading = 0

IInv ==
  /\ TypeOK /\ PastAnswers /\ PollLoop /\ NextBatch /\ BatchComplete /\ LastLoad
  /\ Faults = {} => PollsFirst /\ AnnouncedShown

=============================================================================
