--------------------------- MODULE PlaybackClock ---------------------------
(***************************************************************************)
(* The player's single clock (ctv_web/js/player.js).  Every camera on      *)
(* display plays its own media element; the page keeps them together: a    *)
(* source without data puts all of them behind the buffering barrier, the  *)
(* clock is held until all are ready and aligned, then follows the median  *)
(* of their positions, and moves on to the next recording at a boundary.   *)
(* A recovery that takes thirty seconds, a decoder that stands still for   *)
(* eight and a media error are each isolated to their own camera.          *)
(*                                                                         *)
(* The page is one JavaScript thread.  The state of the page is a record   *)
(* (page); a function of the code is an operator from a page to the page   *)
(* it leaves behind, so that an action is a whole handler with all it      *)
(* calls.  The browser's part (media data, decoder, timers) is a set of    *)
(* actions of its own that may happen at any time.                         *)
(*                                                                         *)
(* Positions are integers on the timeline.  The data of a source is        *)
(* reduced to what the code asks of it: nothing yet, metadata only         *)
(* ("bare"; "fed" while bytes of a native file arrive), some data ahead of *)
(* the target ("low"; "dry" when a native download has ceased), enough to  *)
(* play ("ready"), or its end.                                             *)
(***************************************************************************)
EXTENDS Integers, FiniteSets, FiniteSetsExt

CONSTANTS
  Cameras,      (* cameras on display                                        *)
  Segments,     (* the timeline: <<camera, from, to>>, apart for one camera  *)
  Transports,   (* transports to consider: "native", "mp4"                   *)
  Tolerance,    (* MEDIA_ALIGNMENT_TOLERANCE                                 *)
  Tail,         (* the end of a stream that alignVideos leaves alone (0.5 s) *)
  Spread,       (* playbackSpreadLimit()                                     *)
  MaxRestarts,  (* restarts of a progressive stream before it fails          *)
  MaxActs,      (* bound on the seeks and reloads of the user                *)
  MaxFaults,    (* bound on media that stall, freeze or break                *)
  MaxTogether   (* bound on all of these together                            *)

ASSUME PlaybackClockAssumption ==
  /\ IsFiniteSet(Cameras) /\ Cameras # {}
  /\ Segments \subseteq Cameras \X Nat \X Nat /\ IsFiniteSet(Segments) /\ Segments # {}
  /\ \A s \in Segments : s[2] < s[3]
  /\ Transports \subseteq {"native", "mp4"}
  /\ {Tolerance, Tail, Spread, MaxRestarts, MaxActs, MaxFaults, MaxTogether} \subseteq Nat
  /\ 2 * Tolerance <= Spread   \* one source may be ahead, the other behind

VARIABLES
  page,         (* the state of player.js                                    *)
  acts,         (* number of seeks and reloads so far                        *)
  faults        (* number of media faults so far                             *)

vars == <<page, acts, faults>>

None == <<>>
NoTime == -1
Times == 0..Max({s[3] : s \in Segments})
Data == {"none", "loading", "bare", "fed", "low", "dry", "ready", "ended", "gone"}

\* One cell.  play: the state of video.play(): paused, asked, asked at the end
\* of a barrier ("strict": a failure is recovered) or running.  held: syncHeld.
\* over: dataset.transitioning.  cold: loaded with preload=metadata.  still:
\* no progress for eight seconds, with its download over (idle) or under way
\* (busy).  frozen: its decoder stands still.  moved: it has got on, or
\* started anew, since the last frame.  pulsed: it had its decoding pulse.
Blank == [rec |-> None, failed |-> FALSE, data |-> "none", pos |-> 0,
          seeking |-> FALSE, play |-> "paused", played |-> FALSE,
          warming |-> FALSE, held |-> FALSE, over |-> FALSE, cold |-> FALSE,
          still |-> "no", frozen |-> FALSE, moved |-> FALSE, pulsed |-> FALSE,
          restarts |-> 0, reloaded |-> NoTime]

Videos == [rec : Segments \cup {None}, failed : BOOLEAN, data : Data, pos : Times,
           seeking : BOOLEAN, play : {"paused", "asked", "strict", "running"},
           played : BOOLEAN, warming : BOOLEAN, held : BOOLEAN, over : BOOLEAN,
           cold : BOOLEAN, still : {"no", "idle", "busy"}, frozen : BOOLEAN,
           moved : BOOLEAN, pulsed : BOOLEAN,
           restarts : 0..MaxRestarts, reloaded : Times \cup {NoTime}]

\* transport: what the chosen quality plays through.  barrier: _wasBuffering.
\* timed: _recoveryStarted is set; late: thirty seconds ago.  tick: a clockTick
\* is scheduled.  broken: _failedRecordings.  retried: _nativeDecodeRetries.
Pages == [transport : Transports, playing : BOOLEAN, time : Times,
          barrier : BOOLEAN, timed : BOOLEAN, late : BOOLEAN, tick : BOOLEAN,
          broken : SUBSET Segments, retried : SUBSET Segments,
          v : [Cameras -> Videos]]

TypeOK ==
  /\ page \in Pages
  /\ acts \in 0..MaxActs /\ faults \in 0..MaxFaults

-----------------------------------------------------------------------------
(* Queries *)

\* findRecordingAt()
FindRecording(c, t) ==
  LET at == {s \in Segments : s[1] = c /\ s[2] <= t /\ t < s[3]}
  IN IF at = {} THEN None ELSE CHOOSE s \in at : TRUE

\* activeVideos()
Active(p) == {c \in Cameras : p.v[c].rec # None /\ ~p.v[c].failed}

\* videoHasPlaybackBuffer()
Ready(x) == ~x.seeking /\ x.data \in {"ready", "ended"}

\* videoTargetTime(), as a position on the timeline
Target(p, c) == IF p.time < p.v[c].rec[3] THEN p.time ELSE p.v[c].rec[3]
Distance(p, c) == IF p.v[c].pos > Target(p, c) THEN p.v[c].pos - Target(p, c)
                                               ELSE Target(p, c) - p.v[c].pos
Misaligned(p, c) == Distance(p, c) > Tolerance

\* The tail of a progressive stream, where alignVideos lets it be.
AtTail(p, c) == p.transport = "mp4" /\ p.v[c].rec[3] - Target(p, c) <= Tail

\* holdNativeTarget() holds an element with data ahead of its target.
Ahead(x) == x.data \in {"low", "dry"}

-----------------------------------------------------------------------------
(* Sources *)

\* updatePlayerCell(): the cell of c shows what was recorded at the clock's
\* time.  A native file starts at its beginning, a progressive stream where the
\* clock is; the element keeps its count of restarts of the same recording.
Source(p, c) ==
  LET old == p.v[c]
      rec == FindRecording(c, p.time)
  IN IF rec = None THEN Blank
     ELSE IF rec \in p.broken THEN [Blank EXCEPT !.rec = rec, !.failed = TRUE]
     ELSE [Blank EXCEPT !.rec = rec, !.data = "loading",
             !.pos = IF p.transport = "native" THEN rec[2] ELSE p.time,
             !.cold = ~p.playing,
             !.reloaded = IF old.rec = rec THEN old.reloaded ELSE NoTime,
             !.restarts = IF old.rec = rec THEN old.restarts ELSE 0]

\* failVideo(): its interval stays on the timeline, played by the wall clock.
Fail(p, c) ==
  [p EXCEPT !.broken = @ \cup {p.v[c].rec},
            !.v[c] = [Blank EXCEPT !.rec = p.v[c].rec, !.failed = TRUE]]

\* seekVideo(): only a native element with metadata that is not seeking yet.
Sought(p, c) ==
  LET x == p.v[c]
  IN IF \/ p.transport # "native" \/ x.seeking \/ x.pos = Target(p, c)
        \/ x.data \in {"none", "loading", "gone"}
     THEN x
     ELSE [x EXCEPT !.pos = Target(p, c), !.seeking = TRUE,
                    !.data = IF @ = "ended" THEN "bare" ELSE @]

\* The page with the cells of S replaced.  (Compared first, so that TLC computes
\* the cells once and not whenever one is looked at.)
Each(p, S, Cell(_)) ==
  LET v == [c \in Cameras |-> IF c \in S THEN Cell(c) ELSE p.v[c]]
  IN IF v = p.v THEN p ELSE [p EXCEPT !.v = v]

\* seekVideo() of every active video.
Positioned(p) == Each(p, Active(p), LAMBDA c : Sought(p, c))

\* renderPlayers() when the cells of S need an update.
Render(p, S) == Positioned(Each(p, S, LAMBDA c : Source(p, c)))

\* The cells whose recording is not the one at the clock's time.
Changed(p) == {c \in Cameras : p.v[c].rec # FindRecording(c, p.time)}

\* reloadNativeRecovery(): once for the same target, until the next recovery.
MayReload(p, c) ==
  /\ p.v[c].reloaded # Target(p, c)
  /\ FindRecording(c, p.time) = p.v[c].rec
Reloaded(p, c) ==
  [Source(p, c) EXCEPT !.warming = TRUE, !.cold = FALSE, !.reloaded = Target(p, c)]

-----------------------------------------------------------------------------
(* The buffering barrier *)

Asked(x) == [x EXCEPT !.play = IF @ = "running" THEN @ ELSE "asked"]

\* enterBufferingBarrier() for one active video: ready ones wait, the others
\* are warmed; a paused native download with data ahead is left to go on, an
\* established progressive stream too.
Barred(p, c) ==
  LET x == [p.v[c] EXCEPT !.held = FALSE, !.play = "paused"]
      native == p.transport = "native"
  IN IF Ready(x) THEN [x EXCEPT !.warming = FALSE]
     ELSE IF native /\ x.cold /\ MayReload(p, c) THEN Reloaded(p, c)
     ELSE IF (native /\ Ahead(x)) \/ (~native /\ x.played)
          THEN [x EXCEPT !.warming = TRUE, !.cold = FALSE]
          ELSE [x EXCEPT !.warming = TRUE, !.cold = FALSE, !.play = "asked"]

\* Videos a repeated barrier leaves alone: those it is already warming, and
\* progressive ones whose session is not admitted yet.
Spared(p, c) ==
  \/ p.barrier /\ p.v[c].warming
  \/ p.transport = "mp4" /\ p.v[c].data \in {"loading", "gone"}

\* Mutants of EnterBarrier: the deadline of the recovery is not started; the
\* clock waits where the source that is furthest behind stands.
EnterBarrierUntimed(p) ==
  IF ~p.playing THEN p
  ELSE Each([p EXCEPT !.barrier = TRUE], {c \in Active(p) : ~Spared(p, c)},
            LAMBDA c : Barred(p, c))

EnterBarrierRewinds(p) ==
  IF ~p.playing \/ Active(p) = {} THEN p
  ELSE Each([p EXCEPT !.barrier = TRUE, !.timed = TRUE, !.time = Min({p.v[c].pos : c \in Active(p)})],
            {c \in Active(p) : ~Spared(p, c)}, LAMBDA c : Barred(p, c))

\* enterBufferingBarrier(): only while playing; repeated requests belong to the
\* same recovery and keep its deadline.
EnterBarrier(p) ==
  IF ~p.playing THEN p
  ELSE Each([p EXCEPT !.barrier = TRUE, !.timed = TRUE],
            {c \in Active(p) : ~Spared(p, c)}, LAMBDA c : Barred(p, c))

\* warmNativeBuffer() at a tick of the barrier: a ready element is held and
\* brought back to its target; the others download, with one decoding pulse or a
\* reload when that does not get on (how), or seek to the target again.  (The
\* browsers that lose their data in pause, mode 'flow', are left out.)
Warmed(p, c, how) ==
  LET x == [p.v[c] EXCEPT !.warming = TRUE]
      at(y) == [p EXCEPT !.v[c] = y]
      held == [p.v[c] EXCEPT !.play = "paused"]
  IN IF p.transport # "native" \/ x.seeking THEN p.v[c]
     ELSE IF Ready(x) THEN IF Misaligned(p, c) THEN Sought(at(held), c) ELSE held
     ELSE IF how = "reload" /\ MayReload(p, c) THEN Reloaded(p, c)
     ELSE IF ~Ahead(x) THEN Asked(Sought(at(x), c))
     ELSE IF how = "pulse" /\ ~x.pulsed THEN [Asked(x) EXCEPT !.pulsed = TRUE]
     ELSE [x EXCEPT !.play = "paused"]

Hows == {"hold", "pulse", "reload"}

\* finishRecovery()
Finished(p) == [p EXCEPT !.timed = FALSE, !.late = FALSE]

\* stopPlayback()
Stopped(p) ==
  Each([Finished(p) EXCEPT !.tick = FALSE, !.playing = FALSE, !.barrier = FALSE], Cameras,
       LAMBDA c : [p.v[c] EXCEPT !.warming = FALSE, !.held = FALSE,
                                 !.play = "paused", !.cold = TRUE])

\* resetPlaybackRecovery(): the user starts or positions playback.
Reset(p) ==
  Each([Finished(p) EXCEPT !.barrier = FALSE, !.retried = {}], Cameras,
       LAMBDA c : [p.v[c] EXCEPT !.held = FALSE, !.pulsed = FALSE, !.restarts = 0,
                                 !.reloaded = NoTime])

-----------------------------------------------------------------------------
(* Moving the clock *)

\* A time nobody recorded is skipped.
Recorded(p) == \E c \in Cameras : FindRecording(c, p.time) # None
Later(p) == {s[2] : s \in {s \in Segments : s[2] > p.time}}
Skipped(p) == IF Recorded(p) THEN p ELSE [p EXCEPT !.time = Min(Later(p))]

\* Mutant of Follow: a new recording starts without the shared barrier.
FollowUnheld(p) == IF Changed(p) = {} THEN p ELSE Render(p, Changed(p))

\* The cells follow the clock: new recordings enter the shared barrier, an ended
\* camera is only removed.
Follow(p) ==
  IF Changed(p) = {} THEN p
  ELSE IF \E c \in Changed(p) : FindRecording(c, p.time) # None
       THEN EnterBarrier(Render(p, Changed(p)))
       ELSE Render(p, Changed(p))

\* reconcilePlaybackPosition(): playback stops after the last recording.
Reconcile(p) ==
  IF ~Recorded(p) /\ Later(p) = {} THEN Stopped(p) ELSE Follow(Skipped(p))

\* onVideoEnded(): once per recording, the clock moves past its end.
VideoEnded(p, c) ==
  IF p.v[c].over THEN p
  ELSE Reconcile([p EXCEPT !.v[c].over = TRUE,
                           !.time = IF @ > p.v[c].rec[3] THEN @ ELSE p.v[c].rec[3]])

-----------------------------------------------------------------------------
(* One tick of the clock *)

\* checkVideoProgress() asks only this of a video that should be running.
Watched(p, c) ==
  /\ ~p.barrier /\ p.v[c].played /\ ~p.v[c].held
  /\ ~p.v[c].seeking /\ p.v[c].data = "ready"

\* checkVideoProgress() of a video that stood still for eight seconds with data
\* at hand: a download goes on behind the barrier, a native decoder is reopened
\* once, then the recording fails; it must not freeze the clock.
Frozen(p, c) ==
  IF ~Watched(p, c) \/ p.v[c].still = "no" THEN p
  ELSE IF p.v[c].still = "busy" THEN EnterBarrier(p)
  ELSE IF p.transport = "native" /\ MayReload(p, c)
       THEN EnterBarrier([p EXCEPT !.v[c] = Reloaded(p, c)])
       ELSE Fail(p, c)

\* checkVideoProgress() of every active video; each starts to be watched anew.
WatchedAnew(p) ==
  Each(p, Cameras, LAMBDA c : [p.v[c] EXCEPT !.still = "no", !.moved = FALSE])
Progressed(p) ==
  WatchedAnew(FoldSet(LAMBDA c, acc : Frozen(acc, c), p, Active(p)))

\* recoveryVideoFailed() and nativeDeliveryActive()
Waiting(p, c) ==
  \/ ~Ready(p.v[c])
  \/ p.transport = "mp4" /\ ~AtTail(p, c) /\ Misaligned(p, c)
Delivering(p, c) ==
  p.transport = "native" /\ p.v[c].data \in {"fed", "low"}

FailAll(p, S) == FoldSet(LAMBDA c, acc : Fail(acc, c), p, S)

\* The deadline of a recovery: what still waits fails, except a download that
\* goes on; the survivors get a recovery of their own for their alignment.
Surviving(p) == IF Active(p) = {} THEN p ELSE EnterBarrier(p)
Expired(p) ==
  LET waiting == {c \in Active(p) : Waiting(p, c)}
      failed == {c \in waiting : ~Delivering(p, c)}
  IN IF ~(p.timed /\ p.late) \/ (failed = {} /\ waiting # {}) THEN p
     ELSE Surviving(Finished(FailAll(p, failed)))

\* Mutant of Restarted: the restarts of a stream are not counted against it.
RestartedForever(p, c) ==
  [p EXCEPT !.v[c] = Source([p EXCEPT !.v[c].restarts = @ + 1], c)]

\* restartProgressiveVideo()
Restarted(p, c) ==
  IF p.v[c].restarts = MaxRestarts THEN Fail(p, c)
  ELSE [p EXCEPT !.v[c] = Source([p EXCEPT !.v[c].restarts = @ + 1], c)]

\* alignVideos(): the videos it has to move; progressive ones are reopened.
Unaligned(p) == {c \in Active(p) : Misaligned(p, c) /\ ~AtTail(p, c)}
Align(p) ==
  IF p.transport = "native"
  THEN Each(p, Unaligned(p), LAMBDA c : Sought(p, c))
  ELSE LET q == FoldSet(LAMBDA c, acc : Restarted(acc, c), p, Unaligned(p))
       IN IF \E c \in Unaligned(p) : ~q.v[c].failed
          THEN EnterBarrier([q EXCEPT !.barrier = FALSE]) ELSE q

\* Mutant of Leave: only the sources that waited are asked to play.
LeaveWarmed(p) ==
  Each([Finished(p) EXCEPT !.barrier = FALSE], {c \in Active(p) : p.v[c].warming},
       LAMBDA c : [p.v[c] EXCEPT !.warming = FALSE, !.play = "strict"])

\* The end of the barrier: every element is asked to play.
Leave(p) ==
  Each([Finished(p) EXCEPT !.barrier = FALSE], Active(p),
       LAMBDA c : [p.v[c] EXCEPT !.warming = FALSE, !.play = "strict"])

Positions(p) == {p.v[c].pos : c \in Active(p)}
Lag(p) == Max(Positions(p)) - Min(Positions(p))
AnyHeld(p) == \E c \in Active(p) : p.v[c].held

\* synchronizeNativeProgress(): several native videos are too far apart; while
\* they are, leaders are held and the others go on.
Compared(p) == Cardinality(Active(p)) > 1 /\ p.transport = "native"
Drifted(p) ==
  Compared(p) /\ Lag(p) > (IF AnyHeld(p) THEN Spread \div 2 ELSE Spread)
Synchronized(p) ==
  LET first == Min(Positions(p))
      leads(x) == x.pos > first + (Spread \div 2)
      caught(x) == x.pos <= first + (Spread \div 4)
      sync(x) == IF Drifted(p) /\ leads(x) THEN [x EXCEPT !.held = TRUE, !.play = "paused"]
                 ELSE IF x.held /\ (~Drifted(p) \/ caught(x))
                 THEN [Asked(x) EXCEPT !.held = FALSE]
                 ELSE x
  IN IF ~Compared(p) THEN p
     ELSE Each(p, Active(p), LAMBDA c : sync(p.v[c]))

\* medianTime() of the positions: exact for the one or two cameras of a run,
\* rounded down.
Median(p) == (Max(Positions(p)) + Min(Positions(p))) \div 2

\* The clock by the wall, for as long as the timeline lasts.
ByWall(t) == IF t = Max(Times) THEN t ELSE t + 1

\* The clock follows the sources, or the wall when none is playable.
Advanced(p) ==
  IF Active(p) = {} THEN [p EXCEPT !.time = ByWall(@)]
  ELSE IF Drifted(p)
       THEN [Synchronized(p) EXCEPT !.time = Max({@, Min(Positions(p))})]
       ELSE [Synchronized(p) EXCEPT !.time = Median(p)]

\* requestAnimationFrame(clockTick)
Scheduled(p) == [p EXCEPT !.tick = TRUE]

\* A source that ended and whose end was not noticed otherwise.
EndedVideos(p) == {c \in Active(p) : p.v[c].data = "ended" /\ p.v[c].played}

\* Outside the barrier: sources too far apart start it, else the clock moves.
Run(p) ==
  IF ~Drifted(p) /\ Active(p) # {} /\ Lag(p) > Spread THEN EnterBarrier(p)
  ELSE Reconcile(Advanced(p))

\* The barrier holds until every source is ready and aligned.
Judge(p) ==
  IF \E c \in Active(p) : ~Ready(p.v[c])
  THEN IF p.barrier THEN p ELSE EnterBarrier(p)
  ELSE IF p.barrier /\ Unaligned(p) # {} THEN Align(p)
  ELSE Run(IF p.barrier THEN Leave(p) ELSE p)

\* The sources are warmed while the barrier is up; how is the recovery that
\* camera cam is due for.
Warm(p, cam, how) ==
  IF ~p.barrier THEN p
  ELSE Each(p, Active(p), LAMBDA c : Warmed(p, c, IF c = cam THEN how ELSE "hold"))

\* clockTick() of a playing page; whatever it did, the next tick is scheduled.
Serve(p, cam, how) ==
  IF EndedVideos(p) # {} THEN VideoEnded(p, CHOOSE c \in EndedVideos(p) : TRUE)
  ELSE Judge(Warm(p, cam, how))
Tick(p, cam, how) == Scheduled(Serve(Expired(Progressed(p)), cam, how))

\* The pages that a tick may leave behind: a recovery may be due only for a native
\* source that waits for data.
Ticks(p) ==
  LET due == {c \in Active(p) : p.transport = "native" /\ ~Ready(p.v[c])}
  IN {Tick(p, CHOOSE c \in Cameras : TRUE, "hold")}
     \cup {Tick(p, c, how) : c \in due, how \in Hows \ {"hold"}}

-----------------------------------------------------------------------------
(* The user *)

\* The timeline is loaded and positioned at the start of a recording.
Init ==
  \E tr \in Transports, t \in {s[2] : s \in Segments} :
    /\ page = LET p == [transport |-> tr, playing |-> FALSE, time |-> t,
                        barrier |-> FALSE, timed |-> FALSE, late |-> FALSE,
                        tick |-> FALSE, broken |-> {}, retried |-> {},
                        v |-> [c \in Cameras |-> Blank]]
              IN Render(p, Cameras)
    /\ acts = 0 /\ faults = 0

Act == acts < MaxActs /\ acts + faults < MaxTogether /\ acts' = acts + 1
Fault == faults < MaxFaults /\ acts + faults < MaxTogether /\ faults' = faults + 1

\* The page goes on from p.
Goes(p) == page' = p

\* Playback starts: the first tick comes at once.
Starting(p) == page' \in Ticks(EnterBarrier([p EXCEPT !.playing = TRUE]))

\* The play button while stopped: failed recordings get another chance, sources
\* released while paused are opened again.  With an event filter the clock first
\* moves to a recording that is left.
Play ==
  LET failed == {c \in Cameras : page.v[c].failed}
      gone == {c \in Cameras : page.v[c].data = "gone"}
              \cup (IF page.transport = "mp4" THEN failed ELSE {})
      p == [Reset(page) EXCEPT !.broken = {}]
      q == IF gone # {} THEN Render(p, Cameras)
           ELSE IF failed # {} THEN Render(p, failed \cup Changed(p)) ELSE p
      r == Reconcile([q EXCEPT !.playing = TRUE])
  IN /\ ~page.playing
     /\ \/ Starting(q)
        \/ r.playing /\ Starting(r)
        \/ ~r.playing /\ Goes(r)
     /\ UNCHANGED <<acts, faults>>

\* stopPlayback(): the play button, a hidden page, another tab.
Stop ==
  /\ page.playing
  /\ Goes(Stopped(page))
  /\ UNCHANGED <<acts, faults>>

\* seekTo(), jumpToBoundary() and seekPlayersToTime()
Seek(t) ==
  LET p == [Reset(Stopped(page)) EXCEPT !.time = t]
  IN /\ Act
     /\ Goes(Render(p, IF p.transport = "mp4" THEN Cameras ELSE Changed(p)))
     /\ UNCHANGED faults

\* Mutant of Reload: the stopped clock is not started again.
ReloadUnclocked(tr) ==
  LET reset == [Reset(page) EXCEPT !.tick = FALSE]
  IN /\ Act
     /\ Goes(Render([reset EXCEPT !.transport = tr], Cameras))
     /\ UNCHANGED faults

\* reloadPlaybackStreams(), for another quality (its transport is tr), another
\* speed of compressed streams or another preload mode.
Reload(tr) ==
  LET reset == [Reset(page) EXCEPT !.tick = FALSE]
      paused == Each(reset, Cameras, LAMBDA c : [reset.v[c] EXCEPT !.play = "paused"])
      p == IF tr = page.transport THEN paused
           ELSE [paused EXCEPT !.transport = tr, !.broken = {}]
      q == Render(p, Cameras)
  IN /\ Act
     /\ IF page.playing THEN Starting(q) ELSE Goes(q)
     /\ UNCHANGED faults

-----------------------------------------------------------------------------
(* The browser: the clock's frames and timers *)

\* clockTick()
ClockTick ==
  /\ page.tick
  /\ IF page.playing
     THEN page' \in Ticks(page)
     ELSE Goes([page EXCEPT !.tick = FALSE])
  /\ UNCHANGED <<acts, faults>>

\* Thirty seconds have passed since the recovery started.
RecoveryAges ==
  /\ page.timed /\ ~page.late
  /\ Goes([page EXCEPT !.late = TRUE])
  /\ UNCHANGED <<acts, faults>>

\* A video that should be running makes no progress.
StillDue(c) ==
  LET x == page.v[c]
  IN /\ page.playing /\ c \in Active(page) /\ Watched(page, c)
     /\ x.still = "no" /\ (x.frozen \/ x.play = "paused")

\* Eight seconds have passed without its progress; its download may go on.
StandsStill(c) ==
  /\ StillDue(c)
  /\ \/ Goes([page EXCEPT !.v[c].still = "idle"]) /\ UNCHANGED faults
     \/ Goes([page EXCEPT !.v[c].still = "busy"]) /\ Fault
  /\ UNCHANGED acts

\* The timer of schedulePausedRelease() gives up the source of a paused stream.
PausedRelease(c) ==
  /\ page.transport = "mp4" /\ ~page.playing /\ c \in Active(page)
  /\ page.v[c].data # "gone"
  /\ Goes([page EXCEPT !.v[c] = [@ EXCEPT !.data = "gone", !.still = "no", !.frozen = FALSE]])
  /\ UNCHANGED <<acts, faults>>

-----------------------------------------------------------------------------
(* The browser: media elements.  A handler installed for a source no longer    *)
(* runs once the cell has another one, so events concern the current source.   *)

\* onloadedmetadata of a native file, of which more may come or not; a compressed
\* stream's session is admitted.
Metadata(c) ==
  LET p(d) == [page EXCEPT !.v[c].data = d]
      q == p("bare")
  IN /\ page.v[c].data = "loading"
     /\ IF page.transport = "native"
        THEN \E d \in {"bare", "fed"} : Goes([p(d) EXCEPT !.v[c] = Sought(p(d), c)])
        ELSE Goes(EnterBarrier([q EXCEPT !.v[c].warming = FALSE]))
     /\ UNCHANGED <<acts, faults>>

\* The element downloads, as far as the preload mode lets it while paused.
DataArrives(c) ==
  LET x == page.v[c]
  IN /\ x.data \in {"bare", "fed", "low", "dry"} /\ ~x.seeking
     /\ Goes([page EXCEPT !.v[c].data = IF Ahead(x) THEN "ready" ELSE "low"])
     /\ UNCHANGED <<acts, faults>>

\* For thirty seconds nothing arrives of a native download.
Dries(c) ==
  LET x == page.v[c]
  IN /\ page.transport = "native" /\ x.data \in {"fed", "low"}
     /\ Goes([page EXCEPT !.v[c].data = IF Ahead(x) THEN "dry" ELSE "bare"])
     /\ UNCHANGED <<acts, faults>>

\* onseeked: the target was buffered, or its data has to come anew, which a
\* recovery that goes back a little meets only when the browser dropped it.
Seeked(c) ==
  /\ page.v[c].seeking
  /\ \/ /\ Goes([page EXCEPT !.v[c] = [@ EXCEPT !.seeking = FALSE, !.moved = TRUE]])
        /\ UNCHANGED faults
     \/ /\ Goes([page EXCEPT !.v[c] = [@ EXCEPT !.seeking = FALSE, !.data = "bare"]])
        /\ IF page.playing THEN Fault ELSE UNCHANGED faults
  /\ UNCHANGED acts

\* onplaying: behind the barrier only a native element that is being warmed may
\* go on.
Playing(c) ==
  LET x == page.v[c]
      goes == ~page.barrier \/ (x.warming /\ page.transport = "native")
  IN /\ x.play \in {"asked", "strict"} /\ (Ahead(x) \/ x.data = "ready") /\ ~x.seeking
     /\ Goes([page EXCEPT !.v[c] = [x EXCEPT !.played = TRUE, !.moved = TRUE,
                                             !.play = IF goes THEN "running" ELSE "paused"]])
     /\ UNCHANGED <<acts, faults>>

Decoding(x) ==
  x.play = "running" /\ (Ahead(x) \/ x.data = "ready") /\ ~x.seeking /\ ~x.frozen

\* A running element gets on: a position between two frames at most, since the
\* frames of a page that is not hidden are much more frequent than positions.
Advance(c) ==
  LET x == page.v[c]
  IN /\ Decoding(x) /\ ~x.moved /\ x.pos < x.rec[3]
     /\ Goes([page EXCEPT !.v[c] = [x EXCEPT !.pos = @ + 1, !.moved = TRUE]])
     /\ UNCHANGED <<acts, faults>>

\* A running element comes to its end, which lies before or on the last position
\* of the index; some decoders do not report it, and the clock finds out itself.
Finishes(c) ==
  LET x == page.v[c]
      p == [page EXCEPT !.v[c] = [x EXCEPT !.data = "ended", !.play = "paused"]]
  IN /\ Decoding(x) /\ ~x.moved /\ x.pos + 1 >= x.rec[3]
     /\ Goes(p) \/ (~x.over /\ Goes(VideoEnded(p, c)))
     /\ UNCHANGED <<acts, faults>>

\* onwaiting and onstalled: the data of a source runs out.
Stalls(c) ==
  LET x == page.v[c]
  IN /\ Fault
     /\ c \in Active(page) /\ x.play = "running" /\ x.data = "ready"
     /\ \E d \in {"bare", "low"} :
          LET p == [page EXCEPT !.v[c].data = d]
          IN Goes(IF x.over THEN p ELSE EnterBarrier(p))
     /\ UNCHANGED acts

\* A decoder stands still for good, and reports nothing.
Freezes(c) ==
  /\ Fault
  /\ Decoding(page.v[c])
  /\ Goes([page EXCEPT !.v[c].frozen = TRUE])
  /\ UNCHANGED acts

\* onerror: retryNativeDecodeError() opens the source once more for a decode
\* error, any other error fails the recording; so does a refused admission.
Error(c) ==
  LET x == page.v[c]
      p == EnterBarrier([page EXCEPT !.retried = @ \cup {x.rec}])
  IN /\ Fault
     /\ c \in Active(page) /\ x.data # "gone"
     /\ \/ Goes(Fail(page, c))
        \/ /\ page.playing /\ page.transport = "native" /\ x.data # "loading"
           /\ x.rec \notin page.retried /\ ~page.late
           /\ FindRecording(c, page.time) = x.rec
           /\ Goes([p EXCEPT !.v[c] = [Source(p, c) EXCEPT !.warming = TRUE]])
     /\ UNCHANGED acts

\* play() is rejected: by the browser's autoplay policy, which stops playback, or
\* for another reason, from which only the end of a barrier recovers.
PlayRejected(c) ==
  LET x == page.v[c]
      p == [page EXCEPT !.v[c].play = "paused"]
  IN /\ Fault
     /\ page.playing /\ x.play \in {"asked", "strict"}
     /\ Goes(Stopped(page)) \/ Goes(IF x.play = "strict" THEN EnterBarrier(p) ELSE p)
     /\ UNCHANGED acts

Decoder(c) == Playing(c) \/ Advance(c) \/ Finishes(c)

Next ==
  \/ Play \/ Stop
  \/ \E t \in Times : Seek(t)
  \/ \E tr \in Transports : Reload(tr)
  \/ ClockTick \/ RecoveryAges
  \/ \E c \in Cameras :
       \/ StandsStill(c) \/ PausedRelease(c)
       \/ Metadata(c) \/ DataArrives(c) \/ Dries(c) \/ Seeked(c) \/ Decoder(c)
       \/ Stalls(c) \/ Freezes(c) \/ Error(c) \/ PlayRejected(c)

Spec == Init /\ [][Next]_vars

(***************************************************************************)
(* Fairness: frames are drawn and timers fire; an element that has the     *)
(* data to start, to decode or to end sooner or later does, and a native   *)
(* download of which bytes arrive ends its seek and has enough of them     *)
(* sooner or later, or ceases.  Nothing else is owed: metadata, sessions,  *)
(* data and other seeks may never come, and what stalls, freezes, breaks   *)
(* or is refused, or what the user does, may happen or not.  Weak fairness *)
(* is written out with the states in which an action is enabled, which TLC *)
(* evaluates much faster than ENABLED of these handlers.                   *)
(***************************************************************************)
TickDue == page.tick /\ (page.playing => Ticks(page) # {page})
DataDue(c) == c \in Active(page) /\ Delivering(page, c)
DecoderDue(c) ==
  LET x == page.v[c]
  IN \/ x.play \in {"asked", "strict"} /\ x.data = "ready" /\ ~x.seeking
     \/ Decoding(x) /\ ~x.moved

Fairness ==
  /\ []<>~TickDue \/ []<><<ClockTick>>_vars
  /\ WF_vars(RecoveryAges)
  /\ \A c \in Cameras :
       /\ []<>~StillDue(c) \/ []<><<StandsStill(c)>>_vars
       /\ []<>~DataDue(c) \/ []<><<DataArrives(c) \/ Seeked(c)>>_vars
       /\ []<>~DecoderDue(c) \/ []<><<Decoder(c)>>_vars

FairSpec == Spec /\ Fairness

-----------------------------------------------------------------------------
(* Safety *)

\* The barrier always has a deadline: without one a source that never delivers
\* would hold the clock for good.
BarrierTimed == page.playing /\ page.barrier /\ Active(page) # {} => page.timed

\* The sources never take the clock back, further than they may be apart; only
\* in the last half second of a stream is it set to where that stream is, and one
\* position more from an end of a recording, which may lie ahead of its media.
NoRewind ==
  [][acts' = acts =>
       \/ page'.time >= page.time - Spread
       \/ \E c \in Active(page) : AtTail(page, c)
       \/ page'.time = page.time - Spread - 1 /\ \E s \in Segments : s[3] = page.time]_vars

\* The barrier is left with every source ready where the clock stands, never
\* with one that would jump or stall at once; a source seeks only when the clock,
\* which takes the middle of the positions, passes the end of another recording:
\* renderPlayers() then positions those that go on exactly.
LeavesAligned ==
  [][page.barrier /\ ~page'.barrier /\ page'.playing =>
       \A c \in Active(page) \cap Active(page') :
         /\ page'.v[c].data = "ready"
         /\ ~Misaligned(page, c) \/ AtTail(page, c)
         /\ page'.v[c].seeking =>
              \E d \in Cameras : page.v[d].rec # None /\ page'.v[d].rec = None]_page

\* Outside the barrier no source is out of reach of every recovery: one that is
\* ready but paused waits for the others, has come to its end, or is watched by
\* the eight seconds of checkVideoProgress.
NoneForgotten ==
  page.playing /\ ~page.barrier =>
    \A c \in Active(page) :
      LET x == page.v[c]
      IN x.play = "paused" /\ Ready(x) => x.held \/ x.data = "ended" \/ Watched(page, c)

-----------------------------------------------------------------------------
(* The inductive invariant *)

\* A cell without a source does nothing; what plays or has ended was started; no
\* source passes the end of its recording.
CellSound(x) ==
  /\ x \in Videos
  /\ x.rec = None \/ x.failed => x.data = "none" /\ ~x.seeking /\ x.play = "paused"
  /\ x.data = "ended" \/ x.play = "running" => x.played
  /\ x.data = "ended" => ~x.seeking
  /\ x.rec # None /\ ~x.failed => x.pos <= x.rec[3]

\* The barrier is up only while playing, and has its deadline even when the last
\* of its sources has failed.
Coherent(p) ==
  /\ p \in Pages
  /\ \A c \in Cameras : CellSound(p.v[c])
  /\ p.barrier => p.playing /\ p.timed

ClockInv == Coherent(page) /\ acts \in 0..MaxActs /\ faults \in 0..MaxFaults

\* Native files of at most two cameras: of more, one that has not started yet may
\* be held as a leader of others.
Pair == \A a, b, c \in Cameras : a = b \/ a = c \/ b = c

\* Only a source of a running native page is held.
HeldFit(p) ==
  \A c \in Cameras : p.v[c].held =>
    p.transport = "native" /\ p.playing /\ ~p.barrier /\ c \in Active(p)

\* The cells show what was recorded at the clock's time, except at the end of the
\* timeline, when one has ended or all end together.
Shown(p) ==
  Pair /\ p.transport = "native" =>
    \/ Changed(p) = {}
    \/ /\ p.time = Max(Times)
       /\ \/ EndedVideos(p) # {}
          \/ \A c, d \in Active(p) : p.v[c].rec[3] = p.v[d].rec[3]

\* Outside the barrier a source that has not started yet was asked to at its end,
\* and no source is so far behind it, or held behind it, that it would be held.
Begun(p) ==
  (p.transport = "mp4" \/ Pair) /\ p.playing /\ ~p.barrier =>
    \A c \in Active(p) :
      LET x == p.v[c]
      IN /\ ~x.played => x.play = "strict" /\ ~x.held
         /\ p.transport = "native" =>
              /\ x.data # "loading"
              /\ ~x.played => \A d \in Active(p) :
                   x.pos <= p.v[d].pos + (IF p.v[d].held THEN 0 ELSE Spread)

StartInv == HeldFit(page) /\ Shown(page) /\ Begun(page)

-----------------------------------------------------------------------------
(* Liveness *)


\* The two ways in which it does: a recording comes to its end for the second
\* time in the same cell, or a leader waits for cameras that are gone.
EndsAgain == \E c \in Active(page) : page.v[c].over
HeldAlone == \E c \in Cameras : Active(page) = {c} /\ page.v[c].held

\* The end of a recording moves the clock past it, also when it is played again
\* after a seek: apart from leaders that wait alone the clock does not hang.
EndsMoveOn ==
  []<>(~page.playing \/ HeldAlone) \/ []<><<page'.time # page.time>>_page

\* Apart from these two the clock never hangs: whatever stalls, freezes or breaks,
\* never delivers, is sought or reloaded, playback gets on, ends, or is moved.
ClockMoves ==
  []<>(~page.playing \/ EndsAgain \/ HeldAlone) \/ []<><<page'.time # page.time>>_page

=============================================================================
