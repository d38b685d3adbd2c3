-------------------------- MODULE LiveUpdatesProofs --------------------------
(***************************************************************************)
(* Proofs about LiveUpdates: its inductive invariant, and with it, for any *)
(* days, bounds, history and batches, that the poll loop is one, that its  *)
(* batches follow each other without a gap, that what they announce is     *)
(* shown or on its way, and that the page never shows an older timeline.   *)
(***************************************************************************)
EXTENDS LiveUpdates, FiniteSetTheorems, TLAPS

-----------------------------------------------------------------------------
(* Initial states *)

LEMMA InitIInv == Init => IInv
  <1> SUFFICES ASSUME Init PROVE IInv
    OBVIOUS
  <1>1. TypeOK
    <2>1. NoCursor \in Cursors
      BY DEF NoCursor, Cursors
    <2>2. NewPoll(NoCursor) \in Polls
      BY <2>1 DEF NewPoll, Polls
    <2>3. log \in Seq(Nat) /\ shown \in [day : Days, version : Nat]
      BY DEF Init
    <2>4. polls \subseteq Polls /\ loads \subseteq Loads
      BY <2>2 DEF Init
    <2>5. visible \in BOOLEAN /\ pollTimer \in BOOLEAN /\ refreshTimer \in BOOLEAN /\ staleCameras \in BOOLEAN
      BY Zenon DEF Init
    <2>6. db \in Nat /\ unsent \subseteq Nat /\ epoch \in Nat \ {0} /\ reloading \in Nat
      BY DEF Init
    <2> QED BY <2>1, <2>3, <2>4, <2>5, <2>6, Zenon DEF Init, TypeOK
  <1>2. PastAnswers
    BY DEF Init, PastAnswers, NewPoll, NoCursor
  <1>3. Current(polls) = {NewPoll(NoCursor)} /\ ~NewPoll(NoCursor).done /\ NewPoll(NoCursor).query = NoCursor
    BY DEF Init, Current, NewPoll
  <1>6. PollLoop
    BY <1>3, Zenon DEF Init, PollLoop
  <1>7. NextBatch /\ BatchComplete
    BY <1>3 DEF Init, NextBatch, BatchComplete
  <1>4. LastLoad /\ PollsFirst
    BY DEF Init, LastLoad, PollsFirst, Current
  <1>5. AnnouncedShown
    BY DEF Init, AnnouncedShown, NoCursor
  <1> QED BY <1>1, <1>2, <1>4, <1>5, <1>6, <1>7 DEF IInv

-----------------------------------------------------------------------------
(* Type correctness *)

LEMMA AnswerType ==
  ASSUME TypeOK, NEW p \in polls, NEW n \in Nat, NEW b \in BOOLEAN, NEW c \in BOOLEAN,
         Answer(p, Here(n), b, c)
  PROVE  polls' \subseteq Polls
  <1>1. Here(n) \in Cursors
    BY DEF TypeOK, Here, Cursors
  <1>2. [p EXCEPT !.done = TRUE, !.cursor = Here(n), !.reset = b, !.news = c] \in Polls
    BY <1>1 DEF TypeOK, Polls
  <1> QED BY <1>2 DEF TypeOK, Answer

LEMMA StartLoadType ==
  ASSUME TypeOK, NEW d \in Days, StartLoad(d)
  PROVE  loads' \subseteq Loads
  <1>1. \A l \in loads : [l EXCEPT !.current = FALSE] \in Loads
    BY DEF TypeOK, Loads
  <1>2. [current |-> TRUE, day |-> d, version |-> 0] \in Loads
    BY DEF Loads
  <1> QED BY <1>1, <1>2 DEF TypeOK, StartLoad

LEMMA ServePollType ==
  ASSUME TypeOK, NEW p \in polls, ServePoll(p)
  PROVE  polls' \subseteq Polls
  <1>1. Len(log) \in Nat /\ p.query.at \in Nat
    BY DEF TypeOK, Polls, Cursors
  <1>2. ASSUME NEW b \in BOOLEAN, NEW c \in BOOLEAN, NEW n \in Nat, Answer(p, Here(n), b, c)
        PROVE  polls' \subseteq Polls
    BY <1>2, AnswerType
  <1>3. ASSUME NEW n \in p.query.at .. Len(log),
               Answer(p, Here(n), FALSE, \E i \in Oldest .. n : i > p.query.at /\ log[i] # 0)
        PROVE  polls' \subseteq Polls
    <2>1. n \in Nat
      BY <1>1
    <2>2. (\E i \in Oldest .. n : i > p.query.at /\ log[i] # 0) \in BOOLEAN
      OBVIOUS
    <2> QED BY <1>3, <2>1, <2>2, AnswerType
  <1> QED BY <1>1, <1>2, <1>3 DEF ServePoll, Answers

LEMMA BoolAfterPoll ==
  ASSUME TypeOK, BootAfterPoll
  PROVE  boot' \in {"polling", "loading", "done"}
  BY DEF TypeOK, BootAfterPoll

LEMMA NewPollType == ASSUME NEW q \in Cursors PROVE NewPoll(q) \in Polls
  BY DEF NewPoll, Polls, Cursors, NoCursor

LEMMA SupersededType == TypeOK => Superseded \subseteq Polls
  BY DEF TypeOK, Superseded, Polls

LEMMA ServerTypeOK == TypeOK /\ ServerStep => TypeOK'
  <1> SUFFICES ASSUME TypeOK, ServerStep PROVE TypeOK'
    OBVIOUS
  <1> USE DEF pollVars, refreshVars, loadVars, serverVars
  <1>1. CASE Write
    BY <1>1 DEF Write, TypeOK
  <1>2. CASE EmitProgress
    BY <1>2 DEF EmitProgress, TypeOK
  <1>3. CASE Restart
    <2>1. epoch' \in Nat \ {0} /\ log' \in Seq(Nat) /\ unsent' \subseteq Nat
      BY <1>3 DEF Restart, TypeOK
    <2>2. pollTimer' \in BOOLEAN
      BY <1>3, Zenon DEF Restart
    <2>3. boot' \in {"polling", "loading", "done"}
      BY <1>3, BoolAfterPoll DEF Restart
    <2>4. loads' \subseteq Loads /\ polls' \subseteq Polls
      BY <1>3 DEF Restart, TypeOK
    <2> QED BY <1>3, <2>1, <2>2, <2>3, <2>4, Zenon DEF Restart, TypeOK
  <1>4. ASSUME NEW v \in unsent, Emit(v) PROVE TypeOK'
    BY <1>4 DEF Emit, TypeOK
  <1>5. ASSUME NEW p \in polls, ServePoll(p) PROVE TypeOK'
    BY <1>5, ServePollType, Zenon DEF ServePoll, TypeOK
  <1>6. ASSUME NEW l \in loads, ServeTimeline(l) PROVE TypeOK'
    <2>1. [l EXCEPT !.version = db] \in Loads
      BY DEF TypeOK, Loads
    <2>2. loads' \subseteq Loads
      BY <1>6, <2>1 DEF ServeTimeline, TypeOK
    <2> QED BY <1>6, <2>2, Zenon DEF ServeTimeline, TypeOK
  <1> QED BY <1>1, <1>2, <1>3, <1>4, <1>5, <1>6 DEF ServerStep

LEMMA PollTypeOK == TypeOK /\ PollStep => TypeOK'
  <1> SUFFICES ASSUME TypeOK, PollStep PROVE TypeOK'
    OBVIOUS
  <1> USE DEF pollVars, refreshVars, loadVars, serverVars
  <1>1. ASSUME NEW p \in polls, PollAnswered(p) PROVE TypeOK'
    <2>1. cursor' \in Cursors /\ polls' \subseteq Polls
      BY <1>1 DEF PollAnswered, TypeOK, Polls
    <2>2. refreshTimer' \in BOOLEAN /\ staleCameras' \in BOOLEAN /\ pollTimer' \in BOOLEAN
      BY <1>1, Zenon DEF PollAnswered
    <2>3. boot' \in {"polling", "loading", "done"}
      BY <1>1, BoolAfterPoll DEF PollAnswered
    <2> QED BY <1>1, <2>1, <2>2, <2>3, Zenon DEF PollAnswered, TypeOK
  <1>2. ASSUME NEW p \in polls, PollFails(p) PROVE TypeOK'
    BY <1>2, BoolAfterPoll, Zenon DEF PollFails, TypeOK
  <1>3. ASSUME NEW p \in polls, PollAborted(p) PROVE TypeOK'
    BY <1>3, Zenon DEF PollAborted, TypeOK
  <1>4. CASE PollAgain
    BY <1>4, NewPollType, Zenon DEF PollAgain, TypeOK
  <1>5. CASE Hide
    BY <1>5, BoolAfterPoll, SupersededType, Zenon DEF Hide, TypeOK
  <1>6. CASE Show
    BY <1>6, BoolAfterPoll, SupersededType, NewPollType, Zenon DEF Show, TypeOK
  <1> QED BY <1>1, <1>2, <1>3, <1>4, <1>5, <1>6 DEF PollStep

LEMMA LoadTypeOK == TypeOK /\ LoadStep => TypeOK'
  <1> SUFFICES ASSUME TypeOK, LoadStep PROVE TypeOK'
    OBVIOUS
  <1> USE DEF pollVars, refreshVars, loadVars, serverVars
  <1>1. CASE RefreshDue
    <2>1. day \in Days
      BY DEF TypeOK
    <2>2. loads' \subseteq Loads
      BY <1>1, <2>1, StartLoadType DEF RefreshDue, TypeOK
    <2>3. refreshTimer' \in BOOLEAN /\ staleCameras' \in BOOLEAN
      BY <1>1, Zenon DEF RefreshDue, TypeOK
    <2>4. reloading' \in Nat
      BY <1>1 DEF RefreshDue, TypeOK
    <2>5. UNCHANGED <<day, shown>>
      BY <1>1 DEF RefreshDue
    <2> QED BY <1>1, <2>2, <2>3, <2>4, <2>5, Zenon DEF RefreshDue, TypeOK
  <1>2. CASE CamerasLoaded
    <2>1. day \in Days
      BY DEF TypeOK
    <2>2. reloading' \in Nat
      BY <1>2 DEF CamerasLoaded, TypeOK
    <2> QED BY <1>2, <2>1, <2>2, StartLoadType, Zenon DEF CamerasLoaded, TypeOK
  <1>3. CASE InitialLoad
    <2>1. day \in Days
      BY DEF TypeOK
    <2> QED BY <1>3, <2>1, StartLoadType, Zenon DEF InitialLoad, TypeOK
  <1>4. ASSUME NEW d \in Days, OpenDay(d) PROVE TypeOK'
    BY <1>4, StartLoadType, Zenon DEF OpenDay, TypeOK
  <1>5. ASSUME NEW l \in loads, TimelineAnswered(l) PROVE TypeOK'
    <2>1. l.day \in Days /\ l.version \in Nat
      BY DEF TypeOK, Loads
    <2>2. shown' \in [day : Days, version : Nat]
      BY <1>5, <2>1 DEF TimelineAnswered, TypeOK
    <2> QED BY <1>5, <2>2, Zenon DEF TimelineAnswered, TypeOK
  <1>6. ASSUME NEW l \in loads, TimelineFails(l) PROVE TypeOK'
    BY <1>6, Zenon DEF TimelineFails, TypeOK
  <1> QED BY <1>1, <1>2, <1>3, <1>4, <1>5, <1>6 DEF LoadStep

LEMMA NextTypeOK == TypeOK /\ [Next]_vars => TypeOK'
  <1> SUFFICES ASSUME TypeOK, [Next]_vars PROVE TypeOK'
    OBVIOUS
  <1>1. CASE UNCHANGED vars
    BY <1>1, Zenon DEF TypeOK, vars, pollVars, refreshVars, loadVars, serverVars
  <1> QED BY <1>1, ServerTypeOK, PollTypeOK, LoadTypeOK DEF Next

-----------------------------------------------------------------------------
(* Answers lie in the past *)

\* What a step of the server leaves of the polls: the done ones, and the one it
\* answers now.
LEMMA AnswerPast ==
  ASSUME TypeOK, NEW p \in polls, ServePoll(p)
  PROVE  \A q \in polls' : q \in polls \/ (q.done => q.cursor.epoch = epoch /\ q.cursor.at <= Len(log))
  <1>1. Len(log) \in Nat /\ p.query.at \in Nat
    BY DEF TypeOK, Polls, Cursors
  <1>2. ASSUME NEW b, NEW c, NEW n \in Nat, n <= Len(log), Answer(p, Here(n), b, c)
        PROVE  \A q \in polls' : q \in polls \/ (q.done => q.cursor.epoch = epoch /\ q.cursor.at <= Len(log))
    <2> DEFINE r == [p EXCEPT !.done = TRUE, !.cursor = Here(n), !.reset = b, !.news = c]
    <2>1. r.cursor = Here(n)
      BY DEF TypeOK, Polls
    <2>2. r.cursor.epoch = epoch /\ r.cursor.at <= Len(log)
      BY <1>2, <2>1 DEF Here
    <2>3. \A q \in polls' : q \in polls \/ q = r
      BY <1>2 DEF Answer
    <2> QED BY <2>2, <2>3
  <1>3. ASSUME NEW n \in p.query.at .. Len(log), NEW c, Answer(p, Here(n), FALSE, c)
        PROVE  \A q \in polls' : q \in polls \/ (q.done => q.cursor.epoch = epoch /\ q.cursor.at <= Len(log))
    <2>1. n \in Nat /\ n <= Len(log)
      BY <1>1
    <2> QED BY <1>2, <1>3, <2>1
  <1>4. Len(log) <= Len(log)
    BY <1>1
  <1> QED BY <1>1, <1>2, <1>3, <1>4 DEF ServePoll, Answers

LEMMA ServerPast == TypeOK /\ PastAnswers /\ ServerStep => PastAnswers'
  <1> SUFFICES ASSUME TypeOK, PastAnswers, ServerStep PROVE PastAnswers'
    OBVIOUS
  <1> USE DEF pollVars, refreshVars, loadVars
  <1>0. /\ db \in Nat /\ epoch \in Nat \ {0} /\ Len(log) \in Nat /\ log \in Seq(Nat) /\ unsent \subseteq Nat
        /\ cursor.epoch \in Nat /\ cursor.at \in Nat /\ shown.version \in Nat
        /\ \A l \in loads : l.version \in Nat
        /\ \A p \in polls : p.cursor.epoch \in Nat /\ p.cursor.at \in Nat
    BY DEF TypeOK, Cursors, Polls, Loads
  <1>1. CASE Write
    <2>1. /\ db' = db + 1 /\ unsent' = unsent \cup {db + 1}
          /\ UNCHANGED <<log, epoch, cursor, polls, shown, loads>>
      BY <1>1 DEF Write
    <2>2. \A i \in 1 .. Len(log) : log[i] \in Nat
      BY <1>0
    <2>3. \A i \in 1 .. Len(log) : log[i] <= db + 1
      BY <1>0, <2>2 DEF PastAnswers
    <2>4. \A v \in unsent' : v <= db + 1
      BY <1>0, <2>1 DEF PastAnswers
    <2>5. shown.version <= db + 1 /\ \A l \in loads : l.version <= db + 1
      BY <1>0 DEF PastAnswers
    <2> QED BY <2>1, <2>3, <2>4, <2>5 DEF PastAnswers
  <1>2. ASSUME NEW v \in Nat, v <= db, log' = Append(log, v), unsent' \subseteq unsent,
               UNCHANGED <<db, epoch, cursor, polls, shown, loads>>
        PROVE  PastAnswers'
    <2>1. Len(log') = Len(log) + 1 /\ \A i \in 1 .. Len(log') : log'[i] = IF i <= Len(log) THEN log[i] ELSE v
      BY <1>0, <1>2
    <2>2. \A i \in 1 .. Len(log') : log'[i] <= db
      BY <1>0, <1>2, <2>1 DEF PastAnswers
    <2> QED BY <1>0, <1>2, <2>1, <2>2 DEF PastAnswers
  <1>3. CASE EmitProgress
    BY <1>0, <1>2, <1>3 DEF EmitProgress
  <1>4. ASSUME NEW v \in unsent, Emit(v) PROVE PastAnswers'
    <2>1. v \in Nat /\ v <= db
      BY <1>0 DEF PastAnswers
    <2> QED BY <1>2, <1>4, <2>1 DEF Emit
  <1>5. CASE Restart
    <2>1. /\ epoch' = epoch + 1 /\ log' = <<>> /\ unsent' = {} /\ loads' \subseteq loads /\ polls' \subseteq polls
          /\ UNCHANGED <<db, cursor, shown>>
      BY <1>5 DEF Restart
    <2> QED BY <1>0, <2>1 DEF PastAnswers
  <1>6. ASSUME NEW p \in polls, ServePoll(p) PROVE PastAnswers'
    <2>1. \A q \in polls' : q.done =>
            /\ q.cursor.epoch \in 1 .. epoch
            /\ q.cursor.epoch = epoch => q.cursor.at <= Len(log)
      BY <1>0, <1>6, AnswerPast DEF PastAnswers
    <2>2. UNCHANGED <<db, unsent, log, epoch, cursor, shown, loads>>
      BY <1>6 DEF ServePoll, serverVars
    <2> QED BY <2>1, <2>2 DEF PastAnswers
  <1>7. ASSUME NEW l \in loads, ServeTimeline(l) PROVE PastAnswers'
    <2>1. UNCHANGED <<db, unsent, log, epoch, cursor, polls, shown>>
      BY <1>7 DEF ServeTimeline, serverVars
    <2> DEFINE r == [l EXCEPT !.version = db]
    <2>2. r.version = db
      BY DEF TypeOK, Loads
    <2>4. \A m \in loads' : m \in loads \/ m = r
      BY <1>7 DEF ServeTimeline
    <2> HIDE DEF r
    <2>3. \A m \in loads' : m.version <= db
      BY <1>0, <2>2, <2>4 DEF PastAnswers
    <2> QED BY <2>1, <2>3 DEF PastAnswers
  <1> QED BY <1>1, <1>3, <1>4, <1>5, <1>6, <1>7 DEF ServerStep

LEMMA StartLoadVersions ==
  ASSUME TypeOK, NEW d, StartLoad(d)
  PROVE  \A l \in loads' : l.version = 0 \/ \E m \in loads : l.version = m.version
  BY DEF TypeOK, StartLoad, Loads

LEMMA PagePast == TypeOK /\ PastAnswers /\ (PollStep \/ LoadStep) => PastAnswers'
  <1> SUFFICES ASSUME TypeOK, PastAnswers, PollStep \/ LoadStep PROVE PastAnswers'
    OBVIOUS
  <1>0. /\ db \in Nat /\ epoch \in Nat \ {0} /\ Len(log) \in Nat
        /\ \A l \in loads : l.version \in Nat
    BY DEF TypeOK, Loads
  <1>1. ASSUME UNCHANGED <<db, unsent, log, epoch, cursor, shown, loads>>,
               \A q \in polls' : ~q.done \/ \E p \in polls : q.cursor = p.cursor /\ q.done = p.done
        PROVE  PastAnswers'
    BY <1>1 DEF PastAnswers
  <1>2. CASE PollStep
    <2> USE DEF refreshVars, loadVars, serverVars
    <2>1. ASSUME NEW p \in polls, PollAnswered(p) PROVE PastAnswers'
      <3>1. p.done /\ cursor' = p.cursor /\ polls' \subseteq polls
        BY <2>1 DEF PollAnswered
      <3>2. UNCHANGED <<db, unsent, log, epoch, shown, loads>>
        BY <2>1 DEF PollAnswered
      <3>3. cursor'.epoch <= epoch /\ (cursor'.epoch = epoch => cursor'.at <= Len(log))
        BY <1>0, <3>1 DEF PastAnswers
      <3> QED BY <3>1, <3>2, <3>3 DEF PastAnswers
    <2>2. ASSUME NEW p \in polls, PollFails(p) PROVE PastAnswers'
      BY <1>1, <2>2 DEF PollFails
    <2>3. ASSUME NEW p \in polls, PollAborted(p) PROVE PastAnswers'
      BY <1>1, <2>3 DEF PollAborted
    <2>4. \A q \in Superseded : \E p \in polls : q.cursor = p.cursor /\ q.done = p.done
      BY DEF Superseded, TypeOK, Polls
    <2>5. ~NewPoll(cursor).done
      BY DEF NewPoll
    <2>6. CASE PollAgain
      BY <1>1, <2>5, <2>6 DEF PollAgain
    <2>7. CASE Hide
      BY <1>1, <2>4, <2>7 DEF Hide
    <2>8. CASE Show
      BY <1>1, <2>4, <2>5, <2>8 DEF Show
    <2> QED BY <1>2, <2>1, <2>2, <2>3, <2>6, <2>7, <2>8 DEF PollStep
  <1>3. CASE LoadStep
    <2> USE DEF pollVars, serverVars
    <2>1. ASSUME UNCHANGED <<db, unsent, log, epoch, cursor, polls, shown>>,
                 \A l \in loads' : l.version = 0 \/ \E m \in loads : l.version = m.version
          PROVE  PastAnswers'
      BY <1>0, <2>1 DEF PastAnswers
    <2>2. CASE RefreshDue
      BY <2>1, <2>2, StartLoadVersions DEF RefreshDue, loadVars
    <2>3. CASE CamerasLoaded
      BY <2>1, <2>3, StartLoadVersions DEF CamerasLoaded
    <2>4. CASE InitialLoad
      BY <2>1, <2>4, StartLoadVersions DEF InitialLoad
    <2>5. ASSUME NEW d \in Days, OpenDay(d) PROVE PastAnswers'
      BY <2>1, <2>5, StartLoadVersions DEF OpenDay
    <2>6. ASSUME NEW l \in loads, TimelineAnswered(l) PROVE PastAnswers'
      <3>1. shown'.version <= db
        BY <2>6 DEF TimelineAnswered, PastAnswers
      <3> QED BY <2>6, <3>1 DEF TimelineAnswered, PastAnswers
    <2>7. ASSUME NEW l \in loads, TimelineFails(l) PROVE PastAnswers'
      BY <2>1, <2>7 DEF TimelineFails
    <2> QED BY <1>3, <2>2, <2>3, <2>4, <2>5, <2>6, <2>7 DEF LoadStep
  <1> QED BY <1>2, <1>3

LEMMA NextPast == TypeOK /\ PastAnswers /\ [Next]_vars => PastAnswers'
  <1> SUFFICES ASSUME TypeOK, PastAnswers, [Next]_vars PROVE PastAnswers'
    OBVIOUS
  <1>1. CASE UNCHANGED vars
    BY <1>1, Zenon DEF PastAnswers, vars, pollVars, refreshVars, loadVars, serverVars
  <1> QED BY <1>1, ServerPast, PagePast DEF Next

-----------------------------------------------------------------------------
(* The poll loop and its batches *)

\* An answer changes nothing of a poll but what it says.
LEMMA AnswerSays ==
  ASSUME TypeOK, NEW p \in polls, NEW n, NEW b, NEW c, Answer(p, Here(n), b, c)
  PROVE  \E r : /\ polls' = (polls \ {p}) \cup {r}
                /\ r.current = p.current /\ r.query = p.query
                /\ (b => r.reset) /\ (c => r.news) /\ r.cursor.at = n
  <1> DEFINE r == [p EXCEPT !.done = TRUE, !.cursor = Here(n), !.reset = b, !.news = c]
  <1>1. /\ r.current = p.current /\ r.query = p.query
        /\ (b => r.reset) /\ (c => r.news) /\ r.cursor.at = n
    BY DEF TypeOK, Polls, Here
  <1>2. polls' = (polls \ {p}) \cup {r}
    BY DEF Answer
  <1> HIDE DEF r
  <1> QED BY <1>1, <1>2, Zenon

\* It says nothing only if there was nothing to say.
LEMMA Served ==
  ASSUME TypeOK, NEW p \in polls, ServePoll(p)
  PROVE  \E r : /\ polls' = (polls \ {p}) \cup {r}
                /\ r.current = p.current /\ r.query = p.query
                /\ p.query # NoCursor /\ ~r.reset /\ ~r.news =>
                     /\ p.query.epoch = epoch
                     /\ \A i \in p.query.at + 1 .. r.cursor.at : log[i] = 0
  <1>0. Len(log) \in Nat /\ p.query.at \in Nat /\ p.query.epoch \in Nat /\ Oldest \in Nat
    BY LiveUpdatesAssumption DEF TypeOK, Polls, Cursors, Oldest
  <1> DEFINE Says(r) ==
        /\ polls' = (polls \ {p}) \cup {r}
        /\ r.current = p.current /\ r.query = p.query
        /\ p.query # NoCursor /\ ~r.reset /\ ~r.news =>
             /\ p.query.epoch = epoch
             /\ \A i \in p.query.at + 1 .. r.cursor.at : log[i] = 0
  <1>1. ASSUME NEW n, NEW b, NEW c, Answer(p, Here(n), b, c), p.query = NoCursor \/ b
        PROVE  \E r : Says(r)
    BY <1>1, AnswerSays
  <1>2. ASSUME NEW n, NEW b, NEW c \in BOOLEAN, Answer(p, Here(n), b, c), p.query.epoch = epoch,
               ~c => \A i \in p.query.at + 1 .. n : log[i] = 0
        PROVE  \E r : Says(r)
    <2>1. PICK r : /\ polls' = (polls \ {p}) \cup {r}
                   /\ r.current = p.current /\ r.query = p.query
                   /\ (c => r.news) /\ r.cursor.at = n
      BY <1>2, AnswerSays
    <2>2. ~r.news => \A i \in p.query.at + 1 .. r.cursor.at : log[i] = 0
      BY <1>2, <2>1
    <2> QED BY <1>2, <2>1, <2>2, Zenon
  <1> HIDE DEF Says
  <1>3. ASSUME ~Expired(p.query), NEW n \in p.query.at .. Len(log),
               Answer(p, Here(n), FALSE, \E i \in Oldest .. n : i > p.query.at /\ log[i] # 0)
        PROVE  \E r : Says(r)
    <2>1. p.query.epoch = epoch /\ p.query.at + 1 >= Oldest
      BY <1>0, <1>3 DEF Expired
    <2>2. ~(\E i \in Oldest .. n : i > p.query.at /\ log[i] # 0) =>
            \A i \in p.query.at + 1 .. n : log[i] = 0
      BY <1>0, <2>1
    <2>3. (\E i \in Oldest .. n : i > p.query.at /\ log[i] # 0) \in BOOLEAN
      OBVIOUS
    <2> QED BY <1>2, <1>3, <2>1, <2>2, <2>3
  <1>4. \E r : Says(r)
    BY <1>1, <1>3 DEF ServePoll, Answers
  <1> QED BY <1>4 DEF Says

LEMMA PollLoopStep == TypeOK /\ PollLoop /\ [Next]_vars => PollLoop'
  <1> SUFFICES ASSUME TypeOK, PollLoop, [Next]_vars PROVE PollLoop'
    OBVIOUS
  <1> USE DEF PollLoop, Current
  <1>1. CASE UNCHANGED <<visible, polls, pollTimer>>
    BY <1>1
  <1>2. ASSUME NEW p \in polls, ServePoll(p) PROVE PollLoop'
    <2>1. PICK r : polls' = (polls \ {p}) \cup {r} /\ r.current = p.current
      BY <1>2, Served
    <2>2. UNCHANGED <<visible, pollTimer>>
      BY <1>2 DEF ServePoll
    <2> QED BY <2>1, <2>2
  <1>3. CASE Restart
    BY <1>3 DEF Restart
  <1>4. ASSUME NEW p \in polls, PollAnswered(p) \/ PollFails(p) PROVE PollLoop'
    BY <1>4 DEF PollAnswered, PollFails
  <1>5. ASSUME NEW p \in polls, PollAborted(p) PROVE PollLoop'
    BY <1>5 DEF PollAborted
  <1>6. NewPoll(cursor).current /\ \A q \in Superseded : ~q.current
    BY DEF NewPoll, Superseded, TypeOK, Polls
  <1>7. CASE PollAgain
    BY <1>6, <1>7 DEF PollAgain
  <1>8. CASE Hide
    BY <1>6, <1>8 DEF Hide
  <1>9. CASE Show
    BY <1>6, <1>9 DEF Show
  <1> QED
    BY <1>1, <1>2, <1>3, <1>4, <1>5, <1>7, <1>8, <1>9
    DEF Next, ServerStep, PollStep, LoadStep, Write, EmitProgress, Emit, ServeTimeline,
        RefreshDue, CamerasLoaded, InitialLoad, OpenDay, TimelineAnswered, TimelineFails,
        vars, pollVars

LEMMA NextBatchStep == TypeOK /\ PollLoop /\ NextBatch /\ [Next]_vars => NextBatch'
  <1> SUFFICES ASSUME TypeOK, PollLoop, NextBatch, [Next]_vars PROVE NextBatch'
    OBVIOUS
  <1> USE DEF NextBatch, Current
  <1>1. CASE polls' \subseteq polls /\ UNCHANGED cursor
    BY <1>1
  <1>2. ASSUME NEW p \in polls, ServePoll(p) PROVE NextBatch'
    <2>1. PICK r : polls' = (polls \ {p}) \cup {r} /\ r.current = p.current /\ r.query = p.query
      BY <1>2, Served
    <2>2. UNCHANGED cursor
      BY <1>2 DEF ServePoll
    <2> QED BY <2>1, <2>2
  <1>3. ASSUME NEW p \in polls, PollAnswered(p) PROVE NextBatch'
    BY <1>3 DEF PollAnswered, PollLoop
  <1>4. NewPoll(cursor).query = cursor /\ \A q \in Superseded : ~q.current
    BY DEF NewPoll, Superseded, TypeOK, Polls
  <1>5. CASE PollAgain
    BY <1>4, <1>5 DEF PollAgain
  <1>6. CASE Hide
    BY <1>4, <1>6 DEF Hide
  <1>7. CASE Show
    BY <1>4, <1>7 DEF Show
  <1> QED
    BY <1>1, <1>2, <1>3, <1>5, <1>6, <1>7
    DEF Next, ServerStep, PollStep, LoadStep, Write, EmitProgress, Emit, ServeTimeline, Restart,
        PollFails, PollAborted, RefreshDue, CamerasLoaded, InitialLoad, OpenDay,
        TimelineAnswered, TimelineFails, vars, pollVars

LEMMA BatchCompleteStep ==
  TypeOK /\ PastAnswers /\ BatchComplete /\ [Next]_vars => BatchComplete'
  <1> SUFFICES ASSUME TypeOK, PastAnswers, BatchComplete, [Next]_vars PROVE BatchComplete'
    OBVIOUS
  <1> USE DEF Current
  <1>0. /\ epoch \in Nat \ {0} /\ Len(log) \in Nat /\ log \in Seq(Nat)
        /\ \A p \in polls : /\ p.cursor.epoch \in Nat /\ p.cursor.at \in Nat
                            /\ p.query.at \in Nat
    BY DEF TypeOK, Cursors, Polls
  <1>1. ASSUME \A q \in polls' : q \in polls \/ ~q.current \/ ~q.done, UNCHANGED <<log, epoch>>
        PROVE  BatchComplete'
    BY <1>1 DEF BatchComplete
  <1>2. ASSUME NEW v, log' = Append(log, v), UNCHANGED <<polls, epoch>> PROVE BatchComplete'
    <2>1. \A i \in 1 .. Len(log) : log'[i] = log[i]
      BY <1>0, <1>2
    <2>2. ASSUME NEW p \in Current(polls), p.done, p.cursor.epoch = epoch,
                 p.query # NoCursor, ~p.reset, ~p.news
          PROVE  p.query.epoch = epoch /\ \A i \in p.query.at + 1 .. p.cursor.at : log'[i] = 0
      <3>1. p.query.epoch = epoch /\ \A i \in p.query.at + 1 .. p.cursor.at : log[i] = 0
        BY <2>2 DEF BatchComplete
      <3>2. p.cursor.at <= Len(log)
        BY <2>2 DEF PastAnswers
      <3> QED BY <1>0, <2>1, <3>1, <3>2
    <2> QED BY <1>2, <2>2 DEF BatchComplete
  <1>3. ASSUME NEW p \in polls, ServePoll(p) PROVE BatchComplete'
    <2>1. PICK r : /\ polls' = (polls \ {p}) \cup {r}
                   /\ r.current = p.current /\ r.query = p.query
                   /\ p.query # NoCursor /\ ~r.reset /\ ~r.news =>
                        /\ p.query.epoch = epoch
                        /\ \A i \in p.query.at + 1 .. r.cursor.at : log[i] = 0
      BY <1>3, Served
    <2>2. UNCHANGED <<log, epoch>>
      BY <1>3 DEF ServePoll, serverVars
    <2> QED BY <2>1, <2>2 DEF BatchComplete
  <1>4. CASE Restart
    <2>1. epoch' = epoch + 1 /\ polls' \subseteq polls /\ \A p \in polls' : p.done
      BY <1>4 DEF Restart
    <2>2. \A p \in polls' : p.cursor.epoch # epoch'
      BY <1>0, <2>1 DEF PastAnswers
    <2> QED BY <2>2 DEF BatchComplete
  <1>5. ~NewPoll(cursor).done /\ \A q \in Superseded : ~q.current
    BY DEF NewPoll, Superseded, TypeOK, Polls
  <1>6. CASE PollAgain
    BY <1>1, <1>5, <1>6 DEF PollAgain, serverVars
  <1>7. CASE Hide
    BY <1>1, <1>5, <1>7 DEF Hide, serverVars
  <1>8. CASE Show
    BY <1>1, <1>5, <1>8 DEF Show, serverVars
  <1> QED
    BY <1>1, <1>2, <1>3, <1>4, <1>6, <1>7, <1>8
    DEF Next, ServerStep, PollStep, LoadStep, Write, EmitProgress, Emit, ServeTimeline,
        PollAnswered, PollFails, PollAborted, RefreshDue, CamerasLoaded, InitialLoad, OpenDay,
        TimelineAnswered, TimelineFails, vars, pollVars, serverVars

-----------------------------------------------------------------------------
(* The loads of the timeline *)

\* A new load is the only current one, and has no answer.
LEMMA StartLoadCurrent ==
  ASSUME TypeOK, NEW d, StartLoad(d)
  PROVE  \E r : Current(loads') = {r} /\ r.version = 0 /\ r.day = d
  <1> DEFINE r == [current |-> TRUE, day |-> d, version |-> 0]
             old == {[l EXCEPT !.current = FALSE] : l \in loads}
  <1>1. \A l \in old : ~l.current
    BY DEF TypeOK, Loads
  <1>2. r.current /\ r.version = 0 /\ r.day = d
    OBVIOUS
  <1>3. loads' = old \cup {r}
    BY DEF StartLoad
  <1> HIDE DEF r, old
  <1>4. Current(loads') = {r}
    BY <1>1, <1>2, <1>3 DEF Current
  <1> QED BY <1>2, <1>4

LEMMA LastLoadStep ==
  TypeOK /\ PastAnswers /\ LastLoad /\ [Next]_vars => LastLoad'
  <1> SUFFICES ASSUME TypeOK, PastAnswers, LastLoad, [Next]_vars PROVE LastLoad'
    OBVIOUS
  <1> USE DEF LastLoad, Current
  <1>0. /\ db \in Nat /\ shown.version \in Nat /\ shown.version <= db
        /\ \A l \in loads : l.version \in Nat
    BY DEF TypeOK, Loads, PastAnswers
  <1>1. CASE loads' \subseteq loads /\ UNCHANGED <<day, shown>>
    BY <1>1
  <1>2. ASSUME NEW d, StartLoad(d), day' = d, UNCHANGED shown PROVE LastLoad'
    <2>1. PICK r : {l \in loads' : l.current} = {r} /\ r.version = 0 /\ r.day = d
      BY <1>2, StartLoadCurrent
    <2>2. \A l \in loads' : l.current => l = r
      BY <2>1
    <2> QED BY <1>2, <2>1, <2>2
  <1>3. ASSUME NEW l \in loads, ServeTimeline(l) PROVE LastLoad'
    <2> DEFINE r == [l EXCEPT !.version = db]
    <2>1. r.version = db /\ r.current = l.current /\ r.day = l.day
      BY DEF TypeOK, Loads
    <2>2. loads' = (loads \ {l}) \cup {r} /\ UNCHANGED <<day, shown>>
      BY <1>3 DEF ServeTimeline
    <2> HIDE DEF r
    <2> QED BY <1>0, <2>1, <2>2
  <1>4. ASSUME NEW l \in loads, TimelineAnswered(l) PROVE LastLoad'
    BY <1>0, <1>4 DEF TimelineAnswered
  <1>5. CASE RefreshDue
    BY <1>1, <1>2, <1>5 DEF RefreshDue, loadVars
  <1>6. CASE CamerasLoaded
    BY <1>2, <1>6 DEF CamerasLoaded
  <1>7. CASE InitialLoad
    BY <1>2, <1>7 DEF InitialLoad
  <1>8. ASSUME NEW d \in Days, OpenDay(d) PROVE LastLoad'
    BY <1>2, <1>8 DEF OpenDay
  <1> QED
    BY <1>1, <1>3, <1>4, <1>5, <1>6, <1>7, <1>8
    DEF Next, ServerStep, PollStep, LoadStep, Write, EmitProgress, Emit, ServePoll, Restart,
        PollAnswered, PollFails, PollAborted, PollAgain, Hide, Show, TimelineFails,
        vars, loadVars

LEMMA PollsFirstStep ==
  ASSUME Faults = {}, TypeOK, PastAnswers, PollsFirst, [Next]_vars
  PROVE  PollsFirst'
  <1> USE DEF PollsFirst, FirstPollOver
  <1>1. CASE cursor' = NoCursor /\ UNCHANGED <<cursor, boot, loads, shown, refreshTimer, reloading>>
    BY <1>1
  <1>2. ASSUME NEW p \in polls, PollAnswered(p) PROVE PollsFirst'
    <2>1. p.cursor.epoch # 0
      BY <1>2 DEF PollAnswered, PastAnswers, TypeOK
    <2> QED BY <1>2, <2>1 DEF PollAnswered, NoCursor
  <1>3. CASE cursor' # NoCursor
    BY <1>3
  <1>4. reloading > 0 => cursor # NoCursor
    BY DEF TypeOK
  <1> QED
    BY <1>1, <1>2, <1>3, <1>4
    DEF Next, ServerStep, PollStep, LoadStep, Write, EmitProgress, Emit, ServePoll,
        ServeTimeline, Restart, PollFails, PollAborted, PollAgain, Hide, Show, RefreshDue,
        CamerasLoaded, InitialLoad, OpenDay, TimelineAnswered, TimelineFails,
        vars, refreshVars, loadVars, pollVars

LEMMA AnnouncedShownStep ==
  ASSUME Faults = {}, IInv, [Next]_vars
  PROVE  AnnouncedShown'
  <1> USE DEF Current
  <1>0. /\ TypeOK /\ PastAnswers /\ PollLoop /\ NextBatch /\ BatchComplete /\ LastLoad
        /\ PollsFirst /\ AnnouncedShown
    BY DEF IInv
  <1>1. /\ db \in Nat /\ epoch \in Nat \ {0} /\ Len(log) \in Nat /\ log \in Seq(Nat)
        /\ cursor.epoch \in Nat /\ cursor.at \in Nat /\ shown.version \in Nat /\ shown.version <= db
        /\ cursor.epoch <= epoch /\ reloading \in Nat
        /\ \A l \in loads : l.version \in Nat
        /\ \A p \in polls : p.query.at \in Nat /\ p.cursor.epoch \in Nat /\ p.cursor.at \in Nat
    BY <1>0 DEF TypeOK, Cursors, Polls, Loads, PastAnswers
  <1>2. cursor.epoch = epoch => \A i \in 1 .. cursor.at : log[i] \in Nat /\ log[i] <= db
    BY <1>0, <1>1 DEF PastAnswers
  <1>3. ASSUME UNCHANGED <<cursor, epoch>>,
               cursor.epoch = epoch => \A i \in 1 .. cursor.at : log'[i] = log[i],
               \A v \in Nat : v <= db /\ (shown.version >= v \/ Refreshing(v)) =>
                 shown'.version >= v \/ Refreshing(v)'
        PROVE  AnnouncedShown'
    BY <1>0, <1>2, <1>3 DEF AnnouncedShown
  <1>4. ASSUME NEW d, StartLoad(d) PROVE \A v \in Nat : Refreshing(v)'
    <2>1. PICK r : {l \in loads' : l.current} = {r} /\ r.version = 0
      BY <1>0, <1>4, StartLoadCurrent
    <2>2. r \in {l \in loads' : l.current}
      BY <2>1
    <2> QED BY <2>1, <2>2 DEF Refreshing
  <1>5. CASE UNCHANGED <<cursor, epoch, log, shown, refreshTimer, reloading, boot, loads>>
    BY <1>3, <1>5 DEF Refreshing
  <1>6. ASSUME NEW v, log' = Append(log, v),
               UNCHANGED <<cursor, epoch, shown, refreshTimer, reloading, boot, loads>>
        PROVE  AnnouncedShown'
    <2>1. cursor.epoch = epoch => \A i \in 1 .. cursor.at : log'[i] = log[i]
      BY <1>0, <1>1, <1>6 DEF PastAnswers
    <2> QED BY <1>3, <1>6, <2>1 DEF Refreshing
  <1>7. CASE Restart
    BY <1>1, <1>7 DEF Restart, AnnouncedShown
  <1>8. ASSUME NEW l \in loads, ServeTimeline(l) PROVE AnnouncedShown'
    <2> DEFINE r == [l EXCEPT !.version = db]
    <2>1. r.version = db /\ r.current = l.current
      BY <1>0 DEF TypeOK, Loads
    <2>2. /\ loads' = (loads \ {l}) \cup {r}
          /\ UNCHANGED <<cursor, epoch, log, shown, refreshTimer, reloading, boot>>
      BY <1>8 DEF ServeTimeline, serverVars, pollVars, refreshVars
    <2> HIDE DEF r
    <2>3. ASSUME NEW v \in Nat, v <= db, Refreshing(v) PROVE Refreshing(v)'
      BY <2>1, <2>2, <2>3 DEF Refreshing
    <2> QED BY <1>3, <2>2, <2>3
  <1>9. ASSUME NEW p \in polls, PollAnswered(p) PROVE AnnouncedShown'
    <2>1. /\ cursor' = p.cursor /\ p.query = cursor /\ p \in Current(polls) /\ p.done
          /\ UNCHANGED <<epoch, log, shown, reloading, loads>>
          /\ refreshTimer' = (refreshTimer \/ Refreshes(p))
          /\ boot' = IF boot = "polling" THEN "loading" ELSE boot
      BY <1>0, <1>9 DEF PollAnswered, NextBatch, serverVars, loadVars, BootAfterPoll
    <2>2. CASE Refreshes(p) \/ cursor = NoCursor
      <3>1. refreshTimer' \/ boot' # "done"
        BY <1>0, <2>1, <2>2 DEF PollsFirst
      <3> QED BY <3>1 DEF AnnouncedShown, Refreshing
    <2>3. CASE ~Refreshes(p) /\ cursor # NoCursor
      <3>1. ~p.reset /\ ~p.news
        BY <2>3 DEF Refreshes
      <3>2. p.cursor.epoch = epoch =>
              cursor.epoch = epoch /\ \A i \in cursor.at + 1 .. p.cursor.at : log[i] = 0
        BY <1>0, <2>1, <2>3, <3>1 DEF BatchComplete
      <3>3. ASSUME NEW v, Refreshing(v) PROVE Refreshing(v)'
        BY <2>1, <3>3 DEF Refreshing
      <3>4. ASSUME p.cursor.epoch = epoch, NEW i \in 1 .. p.cursor.at
            PROVE  shown.version >= log[i] \/ Refreshing(log[i])
        <4>1. CASE i <= cursor.at
          BY <1>0, <1>1, <3>2, <3>4, <4>1 DEF AnnouncedShown
        <4>2. CASE i > cursor.at
          BY <1>1, <3>2, <3>4, <4>2
        <4> QED BY <1>1, <4>1, <4>2
      <3> QED BY <2>1, <3>3, <3>4 DEF AnnouncedShown
    <2> QED BY <2>2, <2>3
  <1>10. CASE boot' = (IF boot = "polling" THEN "loading" ELSE boot)
              /\ UNCHANGED <<cursor, epoch, log, shown, refreshTimer, reloading, loads>>
    BY <1>3, <1>10 DEF Refreshing
  <1>11. CASE RefreshDue
    <2>1. UNCHANGED <<cursor, epoch, log, shown>>
      BY <1>11 DEF RefreshDue, serverVars, pollVars, loadVars
    <2>2. \A v \in Nat : Refreshing(v)'
      BY <1>1, <1>4, <1>11 DEF RefreshDue, Refreshing
    <2> QED BY <1>3, <2>1, <2>2
  <1>12. CASE CamerasLoaded
    BY <1>3, <1>4, <1>12 DEF CamerasLoaded, serverVars, pollVars
  <1>13. CASE InitialLoad
    BY <1>3, <1>4, <1>13 DEF InitialLoad, serverVars
  <1>14. ASSUME NEW d \in Days, OpenDay(d) PROVE AnnouncedShown'
    BY <1>3, <1>4, <1>14 DEF OpenDay, serverVars, pollVars
  <1>15. ASSUME NEW l \in loads, TimelineAnswered(l) PROVE AnnouncedShown'
    <2>1. /\ loads' = loads \ {l} /\ l.version # 0
          /\ shown'.version = IF l.current THEN l.version ELSE shown.version
          /\ UNCHANGED <<cursor, epoch, log, refreshTimer, reloading, boot>>
      BY <1>15 DEF TimelineAnswered, serverVars, pollVars, refreshVars
    <2>2. ASSUME NEW v \in Nat, shown.version >= v \/ Refreshing(v)
          PROVE  shown'.version >= v \/ Refreshing(v)'
      BY <1>0, <1>1, <2>1, <2>2 DEF Refreshing, LastLoad
    <2> QED BY <1>3, <2>1, <2>2
  <1> QED
    BY <1>5, <1>6, <1>7, <1>8, <1>9, <1>10, <1>11, <1>12, <1>13, <1>14, <1>15
    DEF Next, ServerStep, PollStep, LoadStep, Write, EmitProgress, Emit, ServePoll,
        PollFails, PollAborted, PollAgain, Hide, Show, TimelineFails, BootAfterPoll,
        vars, pollVars, serverVars, refreshVars, loadVars

-----------------------------------------------------------------------------
(* The theorems *)

LEMMA NextIInv == IInv /\ [Next]_vars => IInv'
  <1> SUFFICES ASSUME IInv, [Next]_vars PROVE IInv'
    OBVIOUS
  <1>1. TypeOK /\ PastAnswers /\ PollLoop /\ NextBatch /\ BatchComplete /\ LastLoad
    BY DEF IInv
  <1>2. TypeOK' /\ PastAnswers' /\ PollLoop' /\ NextBatch' /\ BatchComplete' /\ LastLoad'
    BY <1>1, NextTypeOK, NextPast, PollLoopStep, NextBatchStep, BatchCompleteStep, LastLoadStep
  <1>3. ASSUME Faults = {} PROVE PollsFirst' /\ AnnouncedShown'
    <2>1. PollsFirst
      BY <1>3 DEF IInv
    <2> QED BY <1>1, <1>3, <2>1, PollsFirstStep, AnnouncedShownStep
  <1> QED BY <1>2, <1>3 DEF IInv

\* The inductive invariant holds in every behaviour.
THEOREM LiveUpdatesInvariant == Spec => []IInv
  <1> QED BY InitIInv, NextIInv, PTL DEF Spec

\* The variables keep their types.
THEOREM LiveUpdatesTypeOK == Spec => []TypeOK
  <1>1. IInv => TypeOK
    BY DEF IInv
  <1> QED BY <1>1, LiveUpdatesInvariant, PTL

\* The poll loop of a visible page is exactly one timer or one poll, that of a
\* hidden page none, with every fault.
THEOREM LiveUpdatesOneLoop == Spec => []OneLoop
  <1>1. ASSUME IInv PROVE OneLoop
    <2>1. PollLoop
      BY <1>1 DEF IInv
    <2>2. CASE Current(polls) = {}
      <3>1. Cardinality(Current(polls)) = 0
        BY <2>2, FS_EmptySet
      <3>2. visible <=> pollTimer
        BY <2>1, <2>2, Zenon DEF PollLoop
      <3> QED BY <3>1, <3>2 DEF OneLoop
    <2>3. CASE Current(polls) # {}
      <3>1. PICK p : p \in Current(polls)
        BY <2>3
      <3>2. Current(polls) = {p}
        BY <2>1, <3>1 DEF PollLoop
      <3>3. Cardinality(Current(polls)) = 1
        BY <3>2, FS_Singleton
      <3>4. visible /\ ~pollTimer
        BY <2>1, <2>3, Zenon DEF PollLoop
      <3> QED BY <3>3, <3>4 DEF OneLoop
    <2> QED BY <2>2, <2>3
  <1> QED BY <1>1, LiveUpdatesInvariant, PTL

\* Batches are dispatched in order, each once, without a gap between two cursors.
THEOREM LiveUpdatesNextBatch == Spec => []NextBatch
  <1>1. IInv => NextBatch
    BY DEF IInv
  <1> QED BY <1>1, LiveUpdatesInvariant, PTL

\* Unless the first poll fails or a timeline does, what the dispatched events
\* announced is shown or on its way, through restarts and lost history.
THEOREM LiveUpdatesAnnouncedShown ==
  ASSUME Faults = {}
  PROVE  Spec => []AnnouncedShown
  <1>1. IInv => AnnouncedShown
    BY DEF IInv
  <1> QED BY <1>1, LiveUpdatesInvariant, PTL

\* The page never replaces its timeline by an older one or by one of a day that
\* is not selected any more, with every fault.
THEOREM LiveUpdatesNeverOlder == Spec => NeverOlder
  <1>1. ASSUME IInv, [Next]_vars
        PROVE  [shown'.version >= shown.version /\ (shown' # shown => shown'.day = day)]_vars
    <2>1. shown.version \in Nat /\ \A l \in loads : l.version \in Nat
      BY <1>1 DEF IInv, TypeOK, Loads
    <2>2. CASE UNCHANGED shown
      BY <2>1, <2>2
    <2>3. ASSUME NEW l \in loads, TimelineAnswered(l)
          PROVE  shown'.version >= shown.version /\ (shown' # shown => shown'.day = day)
      BY <1>1, <2>1, <2>3 DEF TimelineAnswered, IInv, LastLoad, Current
    <2> QED
      BY <1>1, <2>2, <2>3
      DEF Next, ServerStep, PollStep, LoadStep, Write, EmitProgress, Emit, ServePoll,
          ServeTimeline, Restart, PollAnswered, PollFails, PollAborted, PollAgain, Hide, Show,
          RefreshDue, CamerasLoaded, InitialLoad, OpenDay, TimelineFails, vars, loadVars
  <1> QED BY <1>1, LiveUpdatesInvariant, PTL DEF Spec, NeverOlder

=============================================================================
