-------------------------- MODULE CompressedSource --------------------------
(***************************************************************************)
(* The page's side of compressed playback (ctv_web/js/player.js): every    *)
(* displayed camera has a cell whose source is opened through a session,   *)
(* admitted by POST /api/playback-sessions and released by a DELETE.  The  *)
(* user seeks, pauses, hides the page, changes the quality or the cameras  *)
(* on display while requests, answers and timers are under way.            *)
(*                                                                         *)
(* The page is one JavaScript thread: a step is the code between two       *)
(* awaits.  The server is any server that keeps the contract of            *)
(* SessionLease (which Playback implements); requests may overtake each    *)
(* other, be lost or be answered after the page gave up on them.           *)
(*                                                                         *)
(* video._generation only tells whether a load is still the one its cell   *)
(* wants: a fresh session id is set with every generation, so the model    *)
(* compares the ids.  What a source shows is abstracted to the position    *)
(* whose recording it plays; the buffering barrier is in PlaybackClock.    *)
(***************************************************************************)
EXTENDS Naturals, FiniteSets

CONSTANTS
  Cameras,      (* camera ids, in the order of the cells                     *)
  Positions,    (* positions of the clock, one recording of a camera each    *)
  Gaps,         (* <<camera, position>> without a recording                  *)
  Transport,    (* "mp4" or "hls": supportsNativeHls() of this browser       *)
  Limit,        (* slots of the server; 0 is unlimited                       *)
  MaxIds,       (* bound on the session ids the page creates                 *)
  MaxFaults     (* bound on the requests and streams that break              *)

ASSUME CompressedSourceAssumption ==
  /\ Cameras \subseteq Nat /\ IsFiniteSet(Cameras)
  /\ Gaps \subseteq Cameras \X Positions
  /\ Transport \in {"mp4", "hls"}
  /\ Limit \in Nat /\ MaxIds \in Nat /\ MaxFaults \in Nat

Ids == 1..MaxIds
NoId == 0
Profiles == {"native", "low"}
None == <<>>

VARIABLES
  playing,      (* S.playing                                                 *)
  at,           (* S.currentTime                                             *)
  profile,      (* S.streamProfile                                           *)
  shown,        (* displayedCameras()                                        *)
  cell,         (* the player cell and the _playerCache entry of a camera    *)
  broken,       (* _failedRecordings                                         *)
  ids,          (* number of session ids created so far                      *)
  loads,        (* running calls of loadCompressedSource                     *)
  pending,      (* ids whose tracked DELETE is unsettled: _pendingReleases   *)
  posts,        (* admissions under way to the server                        *)
  answers,      (* answered admissions: <<id, granted>>                      *)
  deletes,      (* releases under way to the server                          *)
  unsure,       (* ids with a DELETE that the page gave up on                *)
  faults,       (* number of requests and streams that broke so far          *)
  lease         (* what the server knows of each id                          *)

pageVars == <<playing, at, profile, shown, cell, broken, ids>>
netVars  == <<posts, answers, deletes, unsure, faults, lease>>
vars == <<pageVars, loads, pending, netVars>>

Server == INSTANCE SessionLease WITH Limits <- {Limit}, limit <- Limit

Recording(c, p) == IF <<c, p>> \in Gaps THEN None ELSE <<c, p>>
Recordings == {Recording(c, p) : c \in Cameras, p \in Positions} \ {None}

\* _playerCache[cid].sourceKey: the recording and the profile.
Key(c, p, q) == <<c, p, q>>
NoKey == <<>>
Keys == {NoKey} \cup {Key(c, p, q) : c \in Cameras, p \in Positions, q \in Profiles}

\* job: dataset.transcodeJob; src: the media element has a source; dropped:
\* dataset.hlsCancelled; timer: the paused-release timer is armed; full: that
\* timer found an MP4 that is downloaded to its end.
NoCell == [key |-> NoKey, rec |-> None, job |-> NoId, src |-> FALSE,
           failed |-> FALSE, dropped |-> FALSE, timer |-> FALSE, full |-> FALSE]

Cells == [key : Keys,
          rec : Recordings \cup {None}, job : Ids \cup {NoId}, src : BOOLEAN,
          failed : BOOLEAN, dropped : BOOLEAN, timer : BOOLEAN, full : BOOLEAN]

Loads == [id : Ids, cam : Cameras, waits : SUBSET Ids, stage : {"release", "posted"}]

TypeOK ==
  /\ playing \in BOOLEAN /\ at \in Positions /\ profile \in Profiles
  /\ shown \subseteq Cameras /\ cell \in [Cameras -> Cells]
  /\ broken \subseteq Recordings /\ ids \in 0..MaxIds
  /\ loads \subseteq Loads
  /\ UNION {pending, posts, deletes, unsure} \subseteq Ids
  /\ answers \subseteq Ids \X BOOLEAN
  /\ faults \in 0..MaxFaults
  /\ lease \in [Ids -> Server!LeaseStates]

\* The page has loaded its timeline in the stored quality and drawn no cell yet.
Init ==
  /\ playing = FALSE /\ at \in Positions /\ profile \in Profiles
  /\ shown = {} /\ cell = [c \in Cameras |-> NoCell]
  /\ broken = {} /\ ids = 0 /\ loads = {} /\ pending = {}
  /\ posts = {} /\ answers = {} /\ deletes = {} /\ unsure = {}
  /\ faults = 0
  /\ Server!Init

-----------------------------------------------------------------------------
(* Releasing a source *)

Fault == faults < MaxFaults /\ faults' = faults + 1

\* dataset.transcodeJob of the cells of C.
JobsOf(C) == {cell[c].job : c \in C} \ {NoId}

\* Mutant of Cancelled: that a session was given up is not noted.
CancelledSilent(x) == [x EXCEPT !.job = NoId, !.src = FALSE, !.timer = FALSE, !.full = FALSE]

\* cancelHlsSource() on one cell: the source goes, the generation moves on.
Cancelled(x) ==
  [x EXCEPT !.job = NoId, !.src = FALSE, !.timer = FALSE, !.full = FALSE,
            !.dropped = @ \/ x.job # NoId]

\* Mutant of Release: the DELETE is sent and not waited for.
ReleaseUntracked(J) ==
  /\ deletes' = deletes \cup J
  /\ pending' = pending

\* releasePlaybackSession() for every job of J: the DELETE is sent at once and
\* its promise joins _pendingReleases.
Release(J) ==
  /\ deletes' = deletes \cup J
  /\ pending' = pending \cup J

\* Mutant of FailVideo: the session keeps its slot.
FailVideoKept(c) ==
  /\ broken' = broken \cup {cell[c].rec}
  /\ cell' = [cell EXCEPT ![c] = [Cancelled(@) EXCEPT !.failed = TRUE]]
  /\ UNCHANGED <<pending, deletes>>

\* failVideo(): the recording is remembered as failed, its session released.
FailVideo(c) ==
  /\ broken' = broken \cup {cell[c].rec}
  /\ cell' = [cell EXCEPT ![c] = [Cancelled(@) EXCEPT !.failed = TRUE]]
  /\ Release(JobsOf({c}))

-----------------------------------------------------------------------------
(* Rendering the cells *)

\* The source an updated cell opens: a native file at once, a compressed one
\* through the load of a new session; a failed recording stays failed.
Opened(x, c, p, q, bad, id) ==
  LET rec == Recording(c, p)
      failed == rec \in bad
      native == rec # None /\ ~failed /\ q = "native"
  IN [Cancelled(x) EXCEPT !.key = Key(c, p, q), !.rec = rec, !.job = id,
                          !.src = native, !.failed = failed,
                          !.dropped = failed /\ @]

\* renderPlayers(): the cell of a camera needs an update.
Stale(x, c, p, q) == x.key # Key(c, p, q)

\* The releases issued by this rendering before the load of camera c starts:
\* removed cells first, then the cells in their order.
Superseded(U, removed, c) == JobsOf(removed) \cup JobsOf({d \in U : d <= c})

\* renderPlayers(force) at position p with profile q on the cameras V, where
\* bad are the failed recordings and old the cells as the caller left them.
Render(old, V, p, q, bad, force) ==
  LET removed == shown \ V
      updated == {c \in V : force \/ Stale(old[c], c, p, q)}
      opening == {c \in updated : /\ q # "native"
                                  /\ Recording(c, p) \notin bad \cup {None}}
      id(c) == IF c \in opening THEN ids + Cardinality({d \in opening : d <= c}) ELSE NoId
  IN /\ ids + Cardinality(opening) <= MaxIds
     /\ ids' = ids + Cardinality(opening)
     /\ cell' = [c \in Cameras |->
                   CASE c \in removed -> NoCell
                     [] c \in updated -> Opened(old[c], c, p, q, bad, id(c))
                     [] OTHER -> old[c]]
     /\ Release(JobsOf(removed \cup updated))
     /\ loads' = loads \cup
          {[id |-> id(c), cam |-> c, stage |-> "release",
            waits |-> pending \cup Superseded(updated, removed, c)] : c \in opening}
     /\ shown' = V /\ at' = p /\ profile' = q /\ broken' = bad

\* hasCompressedPlayback()
HasCompressed == profile # "native" \/ \E c \in shown : cell[c].job # NoId

-----------------------------------------------------------------------------
(* The user and the clock *)

\* The cameras on display change: paging, focus, hotspot, a hidden camera.
Display(V) ==
  /\ V # {} /\ V # shown
  /\ Render(cell, V, at, profile, broken, FALSE)
  /\ UNCHANGED <<playing, posts, answers, unsure, faults, lease>>

\* seekTo() and jumpToBoundary(), which stop playback, and seekPlayersToTime(),
\* which opens every compressed source anew.
Seek(p) ==
  /\ shown # {} /\ playing' = FALSE
  /\ Render(cell, shown, p, profile, broken, HasCompressed)
  /\ UNCHANGED <<posts, answers, unsure, faults, lease>>

\* The clock enters another recording: reconcilePlaybackPosition().
ClockCrosses(p) ==
  /\ playing /\ p # at
  /\ Render(cell, shown, p, profile, broken, FALSE)
  /\ UNCHANGED <<playing, posts, answers, unsure, faults, lease>>

\* The quality selector: failed recordings get another chance and every source
\* is reloaded.
ChangeQuality(q) ==
  /\ shown # {} /\ q # profile
  /\ Render(cell, shown, at, q, {}, TRUE)
  /\ UNCHANGED <<playing, posts, answers, unsure, faults, lease>>

\* clearTimeout(video._pauseTimer)
Untimed(x) == [x EXCEPT !.timer = FALSE]

\* The play button while stopped: failed recordings are retried, timers are
\* cleared, and sources that were released while paused are opened again.
Play ==
  LET old == [c \in Cameras |->
                [Untimed(cell[c]) EXCEPT !.key = IF cell[c].failed THEN NoKey ELSE @]]
      force == \E c \in shown : cell[c].dropped
  IN /\ ~playing /\ shown # {}
     /\ playing' = TRUE
     /\ Render(old, shown, at, profile, {}, force)
     /\ UNCHANGED <<posts, answers, unsure, faults, lease>>

\* stopPlayback(): a compressed source is released after two seconds.
Stop ==
  /\ playing /\ playing' = FALSE
  /\ cell' = [c \in Cameras |-> [cell[c] EXCEPT !.timer = @ \/ cell[c].job # NoId]]
  /\ UNCHANGED <<at, profile, shown, broken, ids, loads, pending, netVars>>

\* stopPlayback(true): the page is hidden or left.
Hide ==
  /\ playing \/ JobsOf(shown) # {}
  /\ playing' = FALSE
  /\ cell' = [c \in Cameras |-> IF cell[c].job # NoId THEN Cancelled(cell[c]) ELSE cell[c]]
  /\ Release(JobsOf(shown))
  /\ UNCHANGED <<at, profile, shown, broken, ids, loads, posts, answers, unsure, faults, lease>>

\* The timer of schedulePausedRelease(): an MP4 that is downloaded to its end
\* keeps its local buffer, any other source is released.
PauseTimer(c) ==
  /\ cell[c].timer /\ ~playing
  /\ \/ /\ cell' = [cell EXCEPT ![c] = Cancelled(@)]
        /\ Release(JobsOf({c}))
     \/ /\ Transport = "mp4" /\ cell[c].src
        /\ cell' = [cell EXCEPT ![c] = [Untimed(@) EXCEPT !.full = TRUE]]
        /\ UNCHANGED <<pending, deletes>>
  /\ UNCHANGED <<playing, at, profile, shown, broken, ids, loads, posts, answers, unsure, faults, lease>>

\* onerror of a compressed source: the stream broke or its session expired.
StreamError(c) ==
  /\ Fault
  /\ cell[c].src /\ cell[c].job # NoId
  /\ FailVideo(c)
  /\ UNCHANGED <<playing, at, profile, shown, ids, loads, posts, answers, unsure, lease>>

-----------------------------------------------------------------------------
(* loadCompressedSource() *)

\* Mutant of Wanted: the generation is not compared after an await.
WantedAlways(l) == l.cam \in shown

\* generation === video._generation
Wanted(l) == cell[l.cam].job = l.id

\* Promise.all of the releases has settled: the admission is sent, unless the
\* source was superseded meanwhile.
Admission(l) ==
  /\ l.stage = "release" /\ l.waits \cap pending = {}
  /\ \/ /\ Wanted(l)
        /\ posts' = posts \cup {l.id}
        /\ loads' = (loads \ {l}) \cup {[l EXCEPT !.stage = "posted", !.waits = {}]}
     \/ /\ ~Wanted(l)
        /\ loads' = loads \ {l}
        /\ UNCHANGED posts
  /\ UNCHANGED <<pageVars, pending, answers, deletes, unsure, faults, lease>>

\* Mutant of Sourced: the answer that comes after a pause arms no timer.
SourcedUntimed(x) == [x EXCEPT !.src = TRUE]

\* The element gets its source, which while paused is released again.
Sourced(x) == [x EXCEPT !.src = TRUE, !.timer = ~playing]

\* The answer of the admission: a superseded session is released again, the
\* others get their source or fail.
Answered(l, granted) ==
  /\ l.stage = "posted" /\ <<l.id, granted>> \in answers
  /\ answers' = answers \ {<<l.id, granted>>}
  /\ loads' = loads \ {l}
  /\ \/ /\ ~Wanted(l)
        /\ deletes' = deletes \cup {l.id}
        /\ UNCHANGED <<cell, broken, pending>>
     \/ /\ Wanted(l) /\ granted
        /\ cell' = [cell EXCEPT ![l.cam] = Sourced(@)]
        /\ UNCHANGED <<broken, pending, deletes>>
     \/ /\ Wanted(l) /\ ~granted
        /\ FailVideo(l.cam)
  /\ UNCHANGED <<playing, at, profile, shown, ids, posts, unsure, faults, lease>>

\* The admission is aborted after ten seconds or its connection fails; the
\* server may have it, or get it later.
AdmissionFails(l) ==
  /\ Fault
  /\ l.stage = "posted"
  /\ loads' = loads \ {l}
  /\ \/ Wanted(l) /\ FailVideo(l.cam)
     \/ ~Wanted(l) /\ UNCHANGED <<cell, broken, pending, deletes>>
  /\ UNCHANGED <<playing, at, profile, shown, ids, posts, answers, unsure, lease>>

-----------------------------------------------------------------------------
(* The server and the network *)

\* reserve(): an id that is over is refused, and so is one beyond the limit.
PostArrives(s) ==
  /\ s \in posts /\ posts' = posts \ {s}
  /\ \/ /\ Server!Admit(s)
        /\ answers' = answers \cup {<<s, TRUE>>}
     \/ /\ lease[s] = "over" \/ ~Server!HasRoom
        /\ answers' = answers \cup {<<s, FALSE>>}
        /\ UNCHANGED lease
  /\ UNCHANGED <<pageVars, loads, pending, deletes, unsure, faults>>

\* cancel_playback_session(), and its answer.
DeleteArrives(s) ==
  /\ s \in deletes /\ deletes' = deletes \ {s}
  /\ pending' = pending \ {s}
  /\ \/ Server!End(s)
     \/ lease[s] = "over" /\ UNCHANGED lease
  /\ UNCHANGED <<pageVars, loads, posts, answers, unsure, faults>>

\* releasePlaybackSession() gives up after five seconds or its connection
\* fails: the DELETE is lost.
ReleaseFails(s) ==
  /\ Fault
  /\ s \in deletes /\ deletes' = deletes \ {s}
  /\ pending' = pending \ {s}
  /\ unsure' = unsure \cup {s}
  /\ UNCHANGED <<pageVars, loads, posts, answers, lease>>

\* The server's own timers end a session whose DELETE was lost.
Watchdog(s) ==
  /\ s \in unsure /\ lease[s] = "held"
  /\ Server!End(s)
  /\ UNCHANGED <<pageVars, loads, pending, posts, answers, deletes, unsure, faults>>

LoadStep(l) == Admission(l) \/ \E granted \in BOOLEAN : Answered(l, granted)

Next ==
  \/ \E V \in SUBSET Cameras : Display(V)
  \/ \E p \in Positions : Seek(p) \/ ClockCrosses(p)
  \/ \E q \in Profiles : ChangeQuality(q)
  \/ Play \/ Stop \/ Hide
  \/ \E c \in Cameras : PauseTimer(c) \/ StreamError(c)
  \/ \E l \in loads : LoadStep(l) \/ AdmissionFails(l)
  \/ \E s \in Ids : PostArrives(s) \/ DeleteArrives(s) \/ ReleaseFails(s) \/ Watchdog(s)

Spec == Init /\ [][Next]_vars

-----------------------------------------------------------------------------
(* Safety *)

\* The session s is the one a cell on display is using or still opening.
InUse(s) == s \in JobsOf(shown)

\* A slot is never forgotten: a session that holds one is in use, or a DELETE
\* for it is under way, or the page has given up on its DELETE; a load whose
\* admission is answered too late has nothing left to release.
NoOrphan ==
  \A s \in Ids : lease[s] = "held" => InUse(s) \/ s \in deletes \cup unsure

\* A media element opens the URL of a session only after the server admitted
\* that session, whatever was superseded, refused or answered late meanwhile.
SourceAdmitted ==
  \A c \in shown : cell[c].src /\ cell[c].job # NoId => lease[cell[c].job] # "unknown"

\* While playing no camera with a recording is blank for good: it has a source,
\* its load is still running, or it was reported as failed.
CameraServed ==
  playing => \A c \in shown :
    cell[c].rec # None /\ ~cell[c].failed =>
      cell[c].src \/ \E l \in loads : l.cam = c /\ Wanted(l)

\* A source that is open while nothing plays is about to be released, unless it
\* is downloaded to its end.
PausedIsTimed ==
  ~playing => \A c \in shown :
    cell[c].src /\ cell[c].job # NoId => cell[c].timer \/ cell[c].full

\* "Wait for superseded sources to release their slots before admission": with
\* a slot per camera, the page is never refused because of its own sessions,
\* unless it has given up on a DELETE.
NeverRefusesItself ==
  [][\A s \in posts : s \notin posts' /\ lease[s] = "unknown" /\ unsure = {}
        => lease'[s] = "held"]_vars

-----------------------------------------------------------------------------
(* The inductive invariant *)

\* The admission of s was sent, and the server may have a slot for it.
Sent(s) == s \in posts \/ lease[s] = "held"

\* Sessions are numbered as they are created: only those that were created are
\* used, loaded or known to the server.
IdsFresh ==
  /\ \A c \in Cameras : cell[c].job <= ids
  /\ \A l \in loads : l.id <= ids
  /\ \A s \in Ids : Sent(s) => s <= ids

\* A session is in use, its release is tracked, or nothing is owed for it any more.
Accounted ==
  /\ \A s \in 1..ids : InUse(s) \/ s \in pending \cup unsure \/ lease[s] = "over"
  /\ pending \subseteq deletes

\* Only cells on display show a recording, only a recording has a session, and only
\* sessions a timer.
CellsClean ==
  \A c \in Cameras : /\ c \notin shown => cell[c].job = NoId /\ cell[c].rec = None
                     /\ cell[c].job # NoId => cell[c].rec # None
                     /\ cell[c].timer => cell[c].job # NoId

AnswersAdmitted == \A s \in Ids : <<s, TRUE>> \in answers => lease[s] # "unknown"

\* CameraServed, and while paused: a source that was released is marked, so that
\* playing opens it again.
CameraKept ==
  \A c \in shown : cell[c].rec # None /\ ~cell[c].failed =>
    \/ cell[c].src \/ \E l \in loads : l.cam = c /\ Wanted(l)
    \/ ~playing /\ cell[c].dropped

\* The cameras take turns with their sessions.  Where owner is the camera that each
\* session was created for, a session is sent to the server when every earlier one
\* of its camera is over there, or the page has given up on its DELETE.
InTurn(owner) ==
  /\ \A c \in Cameras : cell[c].job # NoId => owner[cell[c].job] = c
  /\ \A l \in loads : owner[l.id] = l.cam
  /\ \A t \in Ids : Sent(t) => owner[t] \in Cameras
  /\ \A s, t \in Ids :
       s < t /\ owner[s] = owner[t] /\ Sent(t) => lease[s] = "over" \/ s \in unsure
  /\ \A l \in loads, s \in Ids :
       l.stage = "release" /\ s < l.id /\ owner[s] = l.cam =>
         lease[s] = "over" \/ s \in l.waits \cup unsure

CamerasTakeTurns == \E owner \in [Ids -> Cameras \cup {NoId}] : InTurn(owner)

IInv ==
  /\ TypeOK
  /\ IdsFresh /\ Accounted /\ CellsClean /\ AnswersAdmitted
  /\ SourceAdmitted /\ CameraKept /\ PausedIsTimed /\ CamerasTakeTurns

=============================================================================
