------------------------ MODULE PlaybackClockProofs ------------------------
(***************************************************************************)
(* Proofs about PlaybackClock: its inductive invariants, and with them,    *)
(* for any cameras, timeline, tolerances and faults, that every barrier    *)
(* has a deadline and is left only with aligned sources; and, for streams  *)
(* or at most two native files, that no source is forgotten.               *)
(***************************************************************************)
EXTENDS PlaybackClock, FiniteSetTheorems, WellFoundedInduction, TLAPS

-----------------------------------------------------------------------------
(* Folds over the cameras in any order *)

Picked(s) == CHOOSE x \in s : TRUE
Rest(s) == s \ {Picked(s)}

\* f applies O to the elements of the subsets of S, one after the other.
Folds(f, O, b, S) ==
  f = [s \in SUBSET S |-> IF s = {} THEN b ELSE O[<<Picked(s), f[Rest(s)]>>]]

LEMMA RestSmaller ==
  ASSUME NEW S, NEW s \in SUBSET S, s # {}
  PROVE  /\ Picked(s) \in s /\ Rest(s) \in SUBSET S /\ Rest(s) # s /\ Rest(s) \subseteq s
         /\ Picked(s) \notin Rest(s) /\ s = Rest(s) \cup {Picked(s)}
         /\ <<Rest(s), s>> \in StrictSubsetOrdering(S)
  <1>1. Picked(s) \in s
    BY DEF Picked
  <1> QED BY <1>1 DEF Rest, StrictSubsetOrdering

\* Of the subsets with a property that is given by a set, one is smallest.
LEMMA SmallestSubset ==
  ASSUME NEW S, IsFiniteSet(S), NEW D, D \subseteq SUBSET S, D # {}
  PROVE  \E s \in D : \A t \in D : ~ (<<t, s>> \in StrictSubsetOrdering(S))
  <1>1. IsWellFoundedOn(StrictSubsetOrdering(S), SUBSET S)
    BY FS_StrictSubsetOrderingWellFounded, FS_FiniteSubsetsOfFinite
  <1> QED BY <1>1, WFMin

LEMMA FoldStays ==
  ASSUME NEW S, IsFiniteSet(S), NEW J, NEW f, f[{}] \in J[{}],
         \A s \in SUBSET S : (s # {} /\ f[Rest(s)] \in J[Rest(s)]) => f[s] \in J[s]
  PROVE  \A s \in SUBSET S : f[s] \in J[s]
  <1> DEFINE D == {s \in SUBSET S : f[s] \notin J[s]}
  <1>1. ASSUME D # {} PROVE FALSE
    <2>1. D \subseteq SUBSET S
      OBVIOUS
    <2> HIDE DEF D
    <2>2. PICK s \in D : \A t \in D : ~ (<<t, s>> \in StrictSubsetOrdering(S))
      BY <1>1, <2>1, SmallestSubset
    <2>3. s \in SUBSET S /\ f[s] \notin J[s] /\ s # {}
      BY DEF D
    <2>4. Rest(s) \in SUBSET S /\ Rest(s) \notin D
      BY <2>2, <2>3, RestSmaller
    <2> QED BY <2>3, <2>4 DEF D
  <1> QED BY <1>1

LEMMA FoldUnique ==
  ASSUME NEW S, IsFiniteSet(S), NEW O, NEW b, NEW f, NEW g, Folds(f, O, b, S), Folds(g, O, b, S)
  PROVE  f = g
  <1> DEFINE J == [s \in SUBSET S |-> {g[s]}]
  <1>1. \A s \in SUBSET S :
          f[s] = (IF s = {} THEN b ELSE O[<<Picked(s), f[Rest(s)]>>])
          /\ g[s] = (IF s = {} THEN b ELSE O[<<Picked(s), g[Rest(s)]>>])
    BY DEF Folds
  <1>2. f[{}] \in J[{}]
    BY <1>1
  <1>3. ASSUME NEW s \in SUBSET S, s # {}, f[Rest(s)] \in J[Rest(s)] PROVE f[s] \in J[s]
    <2>1. Rest(s) \in SUBSET S
      BY <1>3, RestSmaller
    <2>2. f[Rest(s)] = g[Rest(s)]
      BY <1>3, <2>1
    <2> QED BY <1>1, <1>3, <2>2
  <1>4. \A s \in SUBSET S : f[s] = g[s]
    <2> HIDE DEF J
    <2>1. \A s \in SUBSET S : f[s] \in J[s]
      BY <1>2, <1>3, FoldStays
    <2> QED BY <2>1 DEF J
  <1> QED BY <1>4 DEF Folds

LEMMA FoldRestricts ==
  ASSUME NEW S, NEW T \in SUBSET S, NEW O, NEW b, NEW f, Folds(f, O, b, S),
         NEW g, g = [u \in SUBSET T |-> f[u]]
  PROVE  Folds(g, O, b, T)
  <1>1. ASSUME NEW s \in SUBSET T
        PROVE  g[s] = IF s = {} THEN b ELSE O[<<Picked(s), g[Rest(s)]>>]
    <2>1. s \in SUBSET S /\ f[s] = (IF s = {} THEN b ELSE O[<<Picked(s), f[Rest(s)]>>])
      BY DEF Folds
    <2>2. s # {} => Rest(s) \in SUBSET T
      BY RestSmaller
    <2> QED BY <2>1, <2>2
  <1>2. g = [s \in SUBSET T |-> IF s = {} THEN b ELSE O[<<Picked(s), g[Rest(s)]>>]]
    BY <1>1
  <1> QED BY <1>2 DEF Folds

\* Such a function exists for every finite set: from those for its proper subsets
\* the one for the set is put together.
LEMMA FoldExists ==
  ASSUME NEW S, IsFiniteSet(S), NEW O, NEW b
  PROVE  \E f : Folds(f, O, b, S)
  <1> DEFINE D == {s \in SUBSET S : ~ \E f : Folds(f, O, b, s)}
  <1>1. ASSUME D # {} PROVE FALSE
    <2>1. D \subseteq SUBSET S
      OBVIOUS
    <2> HIDE DEF D
    <2>2. PICK s \in D : \A t \in D : ~ (<<t, s>> \in StrictSubsetOrdering(S))
      BY <1>1, <2>1, SmallestSubset
    <2>3. s \in SUBSET S /\ ~ \E f : Folds(f, O, b, s)
      BY DEF D
    <2> DEFINE F(t) == CHOOSE f : Folds(f, O, b, t)
               g == [t \in SUBSET s |-> IF t = s /\ s # {} THEN O[<<Picked(s), F(Rest(s))[Rest(s)]>>]
                                                           ELSE F(t)[t]]
    <2>4. ASSUME NEW t \in SUBSET s, t # s PROVE Folds(F(t), O, b, t) /\ IsFiniteSet(t)
      <3>1. t \in SUBSET S /\ <<t, s>> \in StrictSubsetOrdering(S)
        BY <2>3, <2>4 DEF StrictSubsetOrdering
      <3>2. t \notin D
        BY <2>2, <3>1
      <3>3. \E f : Folds(f, O, b, t)
        BY <3>1, <3>2 DEF D
      <3> QED BY <3>1, <3>3, FS_Subset
    <2> HIDE DEF F
    <2>5. ASSUME NEW t \in SUBSET s, t # s, t # {}
          PROVE  F(t)[t] = O[<<Picked(t), F(Rest(t))[Rest(t)]>>]
      <3>1. Rest(t) \in SUBSET t /\ Rest(t) # s
        BY <2>5, RestSmaller
      <3>2. Folds(F(t), O, b, t) /\ Folds(F(Rest(t)), O, b, Rest(t)) /\ IsFiniteSet(Rest(t))
        BY <2>4, <2>5, <3>1
      <3> DEFINE h == [u \in SUBSET Rest(t) |-> F(t)[u]]
      <3>0. h = [u \in SUBSET Rest(t) |-> F(t)[u]]
        OBVIOUS
      <3> HIDE DEF h
      <3>3. Folds(h, O, b, Rest(t))
        BY <3>0, <3>1, <3>2, FoldRestricts
      <3>4. h = F(Rest(t))
        BY <3>2, <3>3, FoldUnique
      <3>5. F(t)[Rest(t)] = F(Rest(t))[Rest(t)]
        BY <3>4 DEF h
      <3>6. F(t)[t] = O[<<Picked(t), F(t)[Rest(t)]>>]
        BY <2>5, <3>2 DEF Folds
      <3> QED BY <3>5, <3>6
    <2>6. ASSUME NEW t \in SUBSET s
          PROVE  g[t] = IF t = {} THEN b ELSE O[<<Picked(t), g[Rest(t)]>>]
      <3>1. CASE t = {} /\ s # {}
        <4>1. Folds(F({}), O, b, {})
          BY <2>4, <3>1
        <4>2. F({})[{}] = b
          BY <4>1 DEF Folds
        <4> QED BY <3>1, <4>2
      <3>2. CASE t # {}
        <4>1. Rest(t) \in SUBSET s /\ Rest(t) # s
          BY <3>2, RestSmaller
        <4>2. g[Rest(t)] = F(Rest(t))[Rest(t)]
          BY <4>1
        <4>3. g[t] = O[<<Picked(t), F(Rest(t))[Rest(t)]>>]
          BY <2>5, <3>2
        <4> QED BY <3>2, <4>2, <4>3
      <3>3. CASE s = {}
        <4> DEFINE e == [u \in SUBSET {} |-> b]
        <4>1. \A u \in SUBSET {} : u = {}
          OBVIOUS
        <4>2. e = [u \in SUBSET {} |-> IF u = {} THEN b ELSE O[<<Picked(u), e[Rest(u)]>>]]
          BY <4>1
        <4>3. Folds(e, O, b, {})
          BY <4>2 DEF Folds
        <4> QED BY <2>3, <3>3, <4>3
      <3> QED BY <3>1, <3>2, <3>3
    <2>7. Folds(g, O, b, s)
      BY <2>6 DEF Folds
    <2> QED BY <2>3, <2>7
  <1> QED BY <1>1

-----------------------------------------------------------------------------
(* Numbers and the timeline *)

LEMMA MaxExists ==
  ASSUME NEW S, IsFiniteSet(S), S # {}, S \subseteq Nat
  PROVE  Max(S) \in S /\ \A y \in S : Max(S) >= y
  <1> DEFINE D == {s \in SUBSET S : s # {} /\ ~ \E x \in s : \A y \in s : x >= y}
  <1>1. ASSUME D # {} PROVE FALSE
    <2>1. D \subseteq SUBSET S
      OBVIOUS
    <2> HIDE DEF D
    <2>2. PICK s \in D : \A t \in D : ~ (<<t, s>> \in StrictSubsetOrdering(S))
      BY <1>1, <2>1, SmallestSubset
    <2>3. s \in SUBSET S /\ s # {} /\ ~ \E x \in s : \A y \in s : x >= y
      BY DEF D
    <2> DEFINE z == Picked(s)
               r == Rest(s)
    <2>4. z \in s /\ r \in SUBSET S /\ s = r \cup {z} /\ <<r, s>> \in StrictSubsetOrdering(S)
      BY <2>3, RestSmaller
    <2> HIDE DEF z, r
    <2>5. r = {} \/ \E x \in r : \A y \in r : x >= y
      BY <2>2, <2>4 DEF D
    <2>6. r # {}
      BY <2>3, <2>4
    <2>7. PICK x \in r : \A y \in r : x >= y
      BY <2>5, <2>6
    <2>8. x \in Nat /\ z \in Nat /\ x \in s /\ \A y \in s : y \in Nat
      BY <2>3, <2>4
    <2>9. (\A y \in s : x >= y) \/ (\A y \in s : z >= y)
      BY <2>4, <2>7, <2>8
    <2> QED BY <2>3, <2>4, <2>8, <2>9
  <1>2. S \notin D
    BY <1>1
  <1>3. \E x \in S : \A y \in S : x >= y
    BY <1>2
  <1> QED BY <1>3 DEF Max

LEMMA MinExists ==
  ASSUME NEW S, IsFiniteSet(S), S # {}, S \subseteq Nat
  PROVE  Min(S) \in S /\ \A y \in S : Min(S) <= y
  <1> DEFINE D == {s \in SUBSET S : s # {} /\ ~ \E x \in s : \A y \in s : x <= y}
  <1>1. ASSUME D # {} PROVE FALSE
    <2>1. D \subseteq SUBSET S
      OBVIOUS
    <2> HIDE DEF D
    <2>2. PICK s \in D : \A t \in D : ~ (<<t, s>> \in StrictSubsetOrdering(S))
      BY <1>1, <2>1, SmallestSubset
    <2>3. s \in SUBSET S /\ s # {} /\ ~ \E x \in s : \A y \in s : x <= y
      BY DEF D
    <2> DEFINE z == Picked(s)
               r == Rest(s)
    <2>4. z \in s /\ r \in SUBSET S /\ s = r \cup {z} /\ <<r, s>> \in StrictSubsetOrdering(S)
      BY <2>3, RestSmaller
    <2> HIDE DEF z, r
    <2>5. r = {} \/ \E x \in r : \A y \in r : x <= y
      BY <2>2, <2>4 DEF D
    <2>6. r # {}
      BY <2>3, <2>4
    <2>7. PICK x \in r : \A y \in r : x <= y
      BY <2>5, <2>6
    <2>8. x \in Nat /\ z \in Nat /\ x \in s /\ \A y \in s : y \in Nat
      BY <2>3, <2>4
    <2>9. (\A y \in s : x <= y) \/ (\A y \in s : z <= y)
      BY <2>4, <2>7, <2>8
    <2> QED BY <2>3, <2>4, <2>8, <2>9
  <1>2. S \notin D
    BY <1>1
  <1>3. \E x \in S : \A y \in S : x <= y
    BY <1>2
  <1> QED BY <1>3 DEF Min

USE PlaybackClockAssumption

LEMMA SegmentFacts ==
  /\ \A s \in Segments : /\ s[1] \in Cameras /\ s[2] \in Nat /\ s[3] \in Nat /\ s[2] < s[3]
                         /\ s[2] \in Times /\ s[3] \in Times
  /\ Times \subseteq Nat /\ 0 \in Times /\ IsFiniteSet(Times)
  /\ \A t \in Times : ByWall(t) \in Times
  /\ \E m \in Nat : Times = 0..m
  /\ \E s \in Segments : s[3] = Max(Times)
  <1> DEFINE ends == {s[3] : s \in Segments}
             m == Max(ends)
  <1>1. \A s \in Segments : s[1] \in Cameras /\ s[2] \in Nat /\ s[3] \in Nat /\ s[2] < s[3]
    OBVIOUS
  <1>2. ends \subseteq Nat /\ ends # {} /\ IsFiniteSet(ends)
    <2>1. [s \in Segments |-> s[3]] \in Surjection(Segments, ends)
      BY DEF Surjection
    <2>2. IsFiniteSet(ends)
      BY <2>1, FS_Surjection
    <2> QED BY <1>1, <2>2
  <1>3. m \in ends /\ \A y \in ends : m >= y
    <2> HIDE DEF ends
    <2> QED BY <1>2, MaxExists
  <1>4. Times = 0..m /\ m \in Nat
    BY <1>2, <1>3 DEF Times
  <1>5. \A s \in Segments : s[3] <= m
    BY <1>3
  <1> HIDE DEF ends, m
  <1>6. \A s \in Segments : s[2] \in Times /\ s[3] \in Times
    BY <1>1, <1>4, <1>5
  <1>7. IsFiniteSet(Times)
    <2>1. 0 \in Int /\ m \in Int
      BY <1>4
    <2> QED BY <1>4, <2>1, FS_Interval
  <1>8. Times \subseteq Nat /\ 0 \in Times
    BY <1>4
  <1>9. Max(Times) = m
    <2>1. Max(Times) \in Times /\ \A y \in Times : Max(Times) >= y
      BY <1>7, <1>8, MaxExists
    <2>2. m \in Times
      BY <1>4
    <2> QED BY <1>4, <2>1, <2>2
  <1>10. \A t \in Times : ByWall(t) \in Times
    BY <1>4, <1>9 DEF ByWall
  <1>11. \E s \in Segments : s[3] = Max(Times)
    BY <1>3, <1>9 DEF ends
  <1> QED BY <1>1, <1>4, <1>6, <1>7, <1>8, <1>10, <1>11

LEMMA FindType ==
  ASSUME NEW c, NEW t
  PROVE  FindRecording(c, t) \in Segments \cup {None}
  BY DEF FindRecording

\* A recording found at a time is of that camera and covers that time.
LEMMA FindFacts ==
  ASSUME NEW c, NEW t, FindRecording(c, t) # None
  PROVE  LET r == FindRecording(c, t)
         IN r \in Segments /\ r[1] = c /\ r[2] <= t /\ t < r[3]
  BY DEF FindRecording

\* At the end of the timeline nothing is recorded.
LEMMA EndOfTimeline ==
  /\ Max(Times) \in Times /\ \A t \in Times : t <= Max(Times)
  /\ \A c : FindRecording(c, Max(Times)) = None
  <1>1. Times \subseteq Nat /\ Times # {} /\ IsFiniteSet(Times)
    BY SegmentFacts
  <1>2. Max(Times) \in Times /\ \A t \in Times : Max(Times) >= t
    BY <1>1, MaxExists
  <1> DEFINE m == Max(Times)
  <1> HIDE DEF m
  <1>3. m \in Times /\ \A t \in Times : m >= t /\ t \in Nat
    BY <1>1, <1>2, SegmentFacts DEF m
  <1>4. ASSUME NEW c, FindRecording(c, m) # None PROVE FALSE
    <2> DEFINE r == FindRecording(c, m)
    <2>1. r \in Segments /\ m < r[3]
      BY <1>4, FindFacts
    <2>2. r[3] \in Times
      BY <2>1, SegmentFacts
    <2> HIDE DEF r
    <2> QED BY <1>3, <2>1, <2>2
  <1> QED BY <1>3, <1>4 DEF m

-----------------------------------------------------------------------------
(* Cells *)

\* What a handler makes of a cell without new data for it: the same recording,
\* not held anew, and a source that is ready was so before, at the same position.
Follows(x, y) ==
  /\ y.rec = x.rec /\ (x.failed => y.failed) /\ (y.held => x.held)
  /\ Ready(y) => (Ready(x) /\ y.pos = x.pos /\ y.data = x.data /\ y.played = x.played)

LEMMA FollowsTransitive ==
  ASSUME NEW x, NEW y, NEW z, Follows(x, y), Follows(y, z)
  PROVE  Follows(x, z)
  BY DEF Follows

LEMMA FollowsItself == ASSUME NEW x PROVE Follows(x, x)
  BY DEF Follows

LEMMA BlankSound ==
  /\ CellSound(Blank) /\ ~Ready(Blank)
  /\ \A r \in Segments : CellSound([Blank EXCEPT !.rec = r, !.failed = TRUE])
  <1>1. 0 \in Times /\ 0 \in 0..MaxRestarts
    BY SegmentFacts
  <1>2. Blank \in Videos
    BY <1>1 DEF Blank, Videos, Data
  <1>3. Blank.rec = None /\ Blank.data = "none" /\ Blank.seeking = FALSE /\ Blank.play = "paused"
        /\ Blank.played = FALSE
    BY DEF Blank
  <1> HIDE DEF Blank
  <1>4. ASSUME NEW r \in Segments PROVE CellSound([Blank EXCEPT !.rec = r, !.failed = TRUE])
    <2> DEFINE y == [Blank EXCEPT !.rec = r, !.failed = TRUE]
    <2>1. y \in Videos
      BY <1>2 DEF Videos
    <2>2. y.data = "none" /\ y.seeking = FALSE /\ y.play = "paused"
      BY <1>2, <1>3 DEF Videos
    <2> QED BY <2>1, <2>2 DEF CellSound
  <1> QED BY <1>2, <1>3, <1>4 DEF CellSound, Ready

LEMMA TargetType ==
  ASSUME NEW p \in Pages, NEW c \in Cameras, p.v[c].rec \in Segments
  PROVE  Target(p, c) \in Times /\ Target(p, c) <= p.v[c].rec[3]
  <1>1. p.time \in Times /\ p.v[c].rec[3] \in Times /\ Times \subseteq Nat
    BY SegmentFacts DEF Pages
  <1> QED BY <1>1 DEF Target

LEMMA SourceSound ==
  ASSUME NEW p \in Pages, NEW c \in Cameras
  PROVE  /\ CellSound(Source(p, c)) /\ ~Ready(Source(p, c))
         /\ Source(p, c).rec = FindRecording(c, p.time)
         /\ Source(p, c).data \in {"none", "loading"} /\ ~Source(p, c).held
  <1> DEFINE rec == FindRecording(c, p.time)
             old == p.v[c]
             y == [Blank EXCEPT !.rec = rec, !.data = "loading",
                     !.pos = IF p.transport = "native" THEN rec[2] ELSE p.time,
                     !.cold = ~p.playing,
                     !.reloaded = IF old.rec = rec THEN old.reloaded ELSE NoTime,
                     !.restarts = IF old.rec = rec THEN old.restarts ELSE 0]
  <1>1. old \in Videos /\ p.time \in Times /\ p.playing \in BOOLEAN
    BY DEF Pages
  <1>2. old.reloaded \in Times \cup {NoTime} /\ old.restarts \in 0..MaxRestarts
    BY <1>1 DEF Videos
  <1>3. Blank \in Videos /\ CellSound(Blank) /\ ~Ready(Blank)
    BY BlankSound DEF CellSound
  <1>4. Blank.rec = None /\ Blank.data = "none" /\ Blank.seeking = FALSE /\ Blank.play = "paused"
        /\ Blank.played = FALSE /\ Blank.failed = FALSE /\ (Blank.held = FALSE)
    BY DEF Blank
  <1>5. CASE rec = None
    <2>1. Source(p, c) = Blank
      BY <1>5 DEF Source
    <2> QED BY <1>3, <1>4, <1>5, <2>1
  <1>6. CASE rec # None /\ rec \in p.broken
    <2>1. Source(p, c) = [Blank EXCEPT !.rec = rec, !.failed = TRUE]
      BY <1>6 DEF Source
    <2>2. rec \in Segments
      BY <1>6, FindType
    <2> HIDE DEF Blank, rec
    <2>3. CellSound(Source(p, c))
      BY <2>1, <2>2, BlankSound
    <2>4. Source(p, c).rec = rec /\ Source(p, c).data = "none" /\ (Source(p, c).held = FALSE)
      BY <1>3, <1>4, <2>1 DEF Videos
    <2> QED BY <2>3, <2>4 DEF Ready, rec
  <1>7. CASE rec # None /\ rec \notin p.broken
    <2>1. Source(p, c) = y
      BY <1>7 DEF Source
    <2>2. rec \in Segments /\ rec[2] \in Times
      BY <1>7, FindType, SegmentFacts
    <2>3. 0 \in 0..MaxRestarts
      OBVIOUS
    <2> HIDE DEF Blank, rec, old
    <2>4. y \in Videos
      <3> DEFINE at == IF p.transport = "native" THEN rec[2] ELSE p.time
                 cold == ~p.playing
                 reloaded == IF old.rec = rec THEN old.reloaded ELSE NoTime
                 restarts == IF old.rec = rec THEN old.restarts ELSE 0
      <3>1. at \in Times /\ cold \in BOOLEAN /\ reloaded \in Times \cup {NoTime}
            /\ restarts \in 0..MaxRestarts
        BY <1>1, <1>2, <2>2, <2>3
      <3>2. y = [Blank EXCEPT !.rec = rec, !.data = "loading", !.pos = at, !.cold = cold,
                              !.reloaded = reloaded, !.restarts = restarts]
        OBVIOUS
      <3> HIDE DEF at, cold, reloaded, restarts, y
      <3> QED BY <1>3, <2>2, <3>1, <3>2 DEF Videos, Data
    <2>5. y.rec = rec /\ y.data = "loading" /\ y.seeking = FALSE /\ y.play = "paused" /\ y.failed = FALSE
          /\ (y.held = FALSE) /\ y.pos = (IF p.transport = "native" THEN rec[2] ELSE p.time)
      BY <1>3, <1>4 DEF Videos
    <2> HIDE DEF y
    <2>7. y.pos <= rec[3]
      <3>1. rec[2] < rec[3] /\ p.time < rec[3] /\ rec[2] \in Nat /\ rec[3] \in Nat /\ p.time \in Nat
        BY <1>1, <1>7, <2>2, FindFacts, SegmentFacts DEF rec
      <3> QED BY <2>5, <3>1
    <2>6. CellSound(y)
      BY <1>7, <2>4, <2>5, <2>7 DEF CellSound
    <2> QED BY <2>1, <2>5, <2>6 DEF Ready, rec
  <1> QED BY <1>5, <1>6, <1>7

LEMMA SoughtSound ==
  ASSUME NEW p \in Pages, NEW c \in Cameras, CellSound(p.v[c])
  PROVE  /\ CellSound(Sought(p, c)) /\ Follows(p.v[c], Sought(p, c))
         /\ Sought(p, c).failed = p.v[c].failed /\ Sought(p, c).played = p.v[c].played
         /\ (Sought(p, c).held = p.v[c].held) /\ Sought(p, c).data \in {p.v[c].data, "bare"}
         /\ p.v[c].data # "ended" => Sought(p, c).data = p.v[c].data
         /\ Sought(p, c).data = "ended" => p.v[c].data = "ended"
         /\ Sought(p, c).play = p.v[c].play
  <1> DEFINE x == p.v[c]
             y == [x EXCEPT !.pos = Target(p, c), !.seeking = TRUE,
                            !.data = IF @ = "ended" THEN "bare" ELSE @]
  <1>1. x \in Videos
    BY DEF Pages
  <1>2. CASE Sought(p, c) = x
    BY <1>2, FollowsItself
  <1>3. CASE Sought(p, c) # x
    <2>1. Sought(p, c) = y /\ x.data \notin {"none", "loading", "gone"}
      BY <1>3 DEF Sought
    <2>2. x.rec \in Segments /\ x.rec # None /\ ~x.failed
      BY <1>1, <2>1 DEF CellSound, Videos
    <2>3. Target(p, c) \in Times /\ Target(p, c) <= x.rec[3]
      BY <2>2, TargetType
    <2> DEFINE t == Target(p, c)
    <2> HIDE DEF t
    <2>4. y = [x EXCEPT !.pos = t, !.seeking = TRUE, !.data = IF @ = "ended" THEN "bare" ELSE @]
      BY DEF t
    <2> HIDE DEF x, y
    <2>5. y \in Videos
      BY <1>1, <2>3, <2>4 DEF Videos, Data, t
    <2>6. y.rec = x.rec /\ y.failed = x.failed /\ y.played = x.played /\ y.play = x.play /\ y.seeking = TRUE
          /\ (y.held = x.held) /\ y.pos = t
          /\ y.data = (IF x.data = "ended" THEN "bare" ELSE x.data)
      BY <1>1, <2>4 DEF Videos
    <2>9. y.data # "ended" /\ y.pos <= y.rec[3] /\ (x.data = "ended" => x.played)
      BY <2>3, <2>6 DEF t, CellSound, x
    <2>7. CellSound(y)
      BY <2>2, <2>5, <2>6, <2>9 DEF CellSound, x
    <2>8. Follows(x, y)
      BY <2>6 DEF Follows, Ready
    <2> QED BY <2>1, <2>6, <2>7, <2>8 DEF x
  <1> QED BY <1>2, <1>3

\* A source that is only positioned is asked for the same.
Persists(x, y) ==
  /\ y.rec = x.rec /\ (y.failed = x.failed) /\ y.play = x.play
  /\ (y.played = x.played) /\ (y.held = x.held) /\ y.data \in {x.data, "bare"}

\* The same media in another state: what a handler does to a cell in place; apart
\* from the drift, none holds a source.
Alters(x, y) ==
  /\ y \in Videos
  /\ y.rec = x.rec /\ (y.failed = x.failed) /\ y.data = x.data /\ y.pos = x.pos
  /\ (y.seeking = x.seeking) /\ (y.played = x.played)
  /\ y.play \in {x.play, "paused"} \/ (y.play \in {"asked", "strict"} /\ x.rec # None /\ ~x.failed)

Reshapes(x, y) == Alters(x, y) /\ (y.held => x.held)

LEMMA AlteredSound ==
  ASSUME NEW x, NEW y, CellSound(x), Alters(x, y)
  PROVE  CellSound(y)
  BY DEF Alters, CellSound

LEMMA ReshapedSound ==
  ASSUME NEW x, NEW y, CellSound(x), Reshapes(x, y)
  PROVE  CellSound(y) /\ Follows(x, y)
  BY AlteredSound DEF Reshapes, Alters, Follows, Ready

LEMMA ReloadedSound ==
  ASSUME NEW p \in Pages, NEW c \in Cameras, p.v[c].rec \in Segments, ~p.v[c].failed, MayReload(p, c)
  PROVE  /\ CellSound(Reloaded(p, c)) /\ ~Ready(Reloaded(p, c)) /\ Follows(p.v[c], Reloaded(p, c))
         /\ ~Reloaded(p, c).held
  <1> DEFINE s == Source(p, c)
             t == Target(p, c)
             y == [s EXCEPT !.warming = TRUE, !.cold = FALSE, !.reloaded = t]
  <1>1. CellSound(s) /\ ~Ready(s) /\ s.rec = p.v[c].rec /\ ~s.held
    BY SourceSound DEF MayReload
  <1>2. t \in Times
    BY TargetType
  <1>3. Reloaded(p, c) = y
    BY DEF Reloaded
  <1> HIDE DEF s, t
  <1>4. s \in Videos
    BY <1>1 DEF CellSound
  <1>5. y \in Videos
    BY <1>2, <1>4 DEF Videos
  <1>6. y.rec = s.rec /\ (y.failed = s.failed) /\ y.data = s.data /\ (y.seeking = s.seeking)
        /\ y.play = s.play /\ (y.played = s.played) /\ (y.held = s.held) /\ y.pos = s.pos
    BY <1>4 DEF Videos
  <1> HIDE DEF y
  <1>7. CellSound(y) /\ ~Ready(y)
    BY <1>1, <1>5, <1>6 DEF CellSound, Ready
  <1> QED BY <1>1, <1>3, <1>6, <1>7 DEF Follows

\* A source that has come to its end stays there, unless it fails.
Lasts(x, y) == x.data = "ended" /\ ~y.failed => y.data = "ended" /\ (y.played = x.played)

LEMMA BarredSound ==
  ASSUME NEW p \in Pages, NEW c \in Active(p), CellSound(p.v[c])
  PROVE  /\ CellSound(Barred(p, c)) /\ Follows(p.v[c], Barred(p, c))
         /\ Lasts(p.v[c], Barred(p, c)) /\ ~Barred(p, c).held
  <1> DEFINE o == p.v[c]
             x == [o EXCEPT !.held = FALSE, !.play = "paused"]
             y1 == [x EXCEPT !.warming = FALSE]
             y2 == [x EXCEPT !.warming = TRUE, !.cold = FALSE]
             y3 == [x EXCEPT !.warming = TRUE, !.cold = FALSE, !.play = "asked"]
  <1>1. c \in Cameras /\ o \in Videos /\ o.rec # None /\ ~o.failed /\ o.rec \in Segments
    BY DEF Active, Pages, Videos
  <1>2. \/ Barred(p, c) = y1 \/ Barred(p, c) = y2 \/ Barred(p, c) = y3
        \/ (MayReload(p, c) /\ Barred(p, c) = Reloaded(p, c))
    BY DEF Barred
  <1> HIDE DEF o
  <1>3. /\ Reshapes(o, y1) /\ Reshapes(o, y2) /\ Reshapes(o, y3)
        /\ (y1.held = FALSE) /\ (y2.held = FALSE) /\ (y3.held = FALSE)
    BY <1>1 DEF Reshapes, Alters, Videos
  <1>6. o.data = "ended" => Barred(p, c) = y1
    <2>1. o.data = "ended" => Ready(x)
      BY <1>1 DEF CellSound, Ready, o, Videos
    <2> QED BY <2>1 DEF Barred, o
  <1> HIDE DEF x, y1, y2, y3
  <1>4. ASSUME NEW y, Reshapes(o, y) PROVE CellSound(y) /\ Follows(o, y) /\ Lasts(o, y)
    <2>1. Lasts(o, y)
      BY <1>4 DEF Reshapes, Alters, Lasts
    <2> QED BY <1>4, <2>1, ReshapedSound DEF o
  <1>5. MayReload(p, c) => (CellSound(Reloaded(p, c)) /\ Follows(o, Reloaded(p, c)) /\ ~Reloaded(p, c).held)
    BY <1>1, ReloadedSound DEF o
  <1>7. Lasts(o, Barred(p, c))
    BY <1>3, <1>4, <1>6 DEF Lasts
  <1> QED BY <1>2, <1>3, <1>4, <1>5, <1>7 DEF o

LEMMA AskedSound ==
  ASSUME NEW x, CellSound(x), x.rec # None, ~x.failed
  PROVE  CellSound(Asked(x)) /\ Follows(x, Asked(x)) /\ Reshapes(x, Asked(x))
  <1>1. x \in Videos
    BY DEF CellSound
  <1> DEFINE a == IF x.play = "running" THEN x.play ELSE "asked"
  <1>2. Asked(x) = [x EXCEPT !.play = a] /\ a \in {x.play, "asked"}
        /\ a \in {"paused", "asked", "strict", "running"}
    BY <1>1 DEF Asked, Videos
  <1> HIDE DEF a
  <1>3. Reshapes(x, [x EXCEPT !.play = a])
    BY <1>1, <1>2 DEF Reshapes, Alters, Videos
  <1> QED BY <1>2, <1>3, ReshapedSound

\* Everything but the cells is the same.
Alike(p, q) ==
  /\ q.transport = p.transport /\ (q.playing = p.playing) /\ q.time = p.time
  /\ (q.barrier = p.barrier) /\ (q.timed = p.timed) /\ (q.late = p.late)
  /\ (q.tick = p.tick) /\ q.broken = p.broken /\ q.retried = p.retried

\* The page with another cell.
Put(p, c, y) == [p EXCEPT !.v[c] = y]

LEMMA PutType ==
  ASSUME NEW p \in Pages, NEW c \in Cameras, NEW y \in Videos
  PROVE  Put(p, c, y) \in Pages /\ Put(p, c, y).v[c] = y
  BY DEF Pages, Put

LEMMA PutRest ==
  ASSUME NEW p \in Pages, NEW c, NEW y
  PROVE  Alike(p, Put(p, c, y)) /\ \A d \in Cameras : d # c => Put(p, c, y).v[d] = p.v[d]
  BY DEF Pages, Put, Alike

LEMMA WarmedSound ==
  ASSUME NEW p \in Pages, NEW c \in Active(p), CellSound(p.v[c]), NEW how
  PROVE  CellSound(Warmed(p, c, how)) /\ Follows(p.v[c], Warmed(p, c, how))
  <1> DEFINE o == p.v[c]
             x == [o EXCEPT !.warming = TRUE]
             held == [o EXCEPT !.play = "paused"]
             ph == [p EXCEPT !.v[c] = held]
             px == [p EXCEPT !.v[c] = x]
             sh == Sought(ph, c)
             sx == Sought(px, c)
             pulse == [Asked(x) EXCEPT !.pulsed = TRUE]
             wait == [x EXCEPT !.play = "paused"]
  <1>1. c \in Cameras /\ o \in Videos /\ o.rec # None /\ ~o.failed /\ o.rec \in Segments
    BY DEF Active, Pages, Videos
  <1>2. \/ Warmed(p, c, how) = o \/ Warmed(p, c, how) = sh \/ Warmed(p, c, how) = held
        \/ (MayReload(p, c) /\ Warmed(p, c, how) = Reloaded(p, c))
        \/ Warmed(p, c, how) = Asked(sx) \/ Warmed(p, c, how) = pulse \/ Warmed(p, c, how) = wait
    BY DEF Warmed
  <1> HIDE DEF o
  <1>3. Reshapes(o, x) /\ Reshapes(o, held) /\ Reshapes(o, wait)
    BY <1>1 DEF Reshapes, Alters, Videos
  <1> HIDE DEF x, held, wait
  <1>4. ASSUME NEW y, Reshapes(o, y) PROVE CellSound(y) /\ Follows(o, y) /\ y.rec # None /\ ~y.failed /\ y \in Videos
    BY <1>1, <1>4, ReshapedSound DEF o, Reshapes, Alters
  <1>5. MayReload(p, c) => (CellSound(Reloaded(p, c)) /\ Follows(o, Reloaded(p, c)))
    BY <1>1, ReloadedSound DEF o
  <1>6. CellSound(sh) /\ Follows(o, sh)
    <2>0. ph = Put(p, c, held) /\ held \in Videos
      BY <1>3, <1>4 DEF Put
    <2> HIDE DEF ph
    <2>1. ph \in Pages /\ ph.v[c] = held
      BY ONLY <1>1, <2>0, p \in Pages, PutType
    <2>2. CellSound(sh) /\ Follows(held, sh)
      BY <1>1, <1>3, <1>4, <2>1, SoughtSound
    <2> QED BY <1>3, <1>4, <2>2, FollowsTransitive
  <1>7. CellSound(Asked(sx)) /\ Follows(o, Asked(sx))
    <2>0. px = Put(p, c, x) /\ x \in Videos
      BY <1>3, <1>4 DEF Put
    <2> HIDE DEF px
    <2>1. px \in Pages /\ px.v[c] = x
      BY ONLY <1>1, <2>0, p \in Pages, PutType
    <2>2. CellSound(sx) /\ Follows(x, sx) /\ (sx.failed = x.failed)
      BY <1>1, <1>3, <1>4, <2>1, SoughtSound
    <2>3. sx.rec # None /\ ~sx.failed
      BY <1>3, <1>4, <2>2 DEF Follows
    <2> HIDE DEF sx
    <2>4. CellSound(Asked(sx)) /\ Follows(sx, Asked(sx))
      BY <2>2, <2>3, AskedSound
    <2> QED BY <1>3, <1>4, <2>2, <2>4, FollowsTransitive
  <1>8. CellSound(pulse) /\ Follows(o, pulse)
    <2>1. CellSound(Asked(x)) /\ Follows(x, Asked(x))
      BY <1>3, <1>4, AskedSound
    <2> DEFINE a == Asked(x)
    <2>2. a \in Videos
      BY <2>1 DEF CellSound
    <2> HIDE DEF a
    <2>3. Reshapes(a, [a EXCEPT !.pulsed = TRUE])
      BY <2>2 DEF Reshapes, Alters, Videos
    <2>4. CellSound(pulse) /\ Follows(a, pulse)
      BY <2>1, <2>3, ReshapedSound DEF a
    <2> QED BY <1>3, <1>4, <2>1, <2>4, FollowsTransitive DEF a
  <1> QED BY <1>2, <1>3, <1>4, <1>5, <1>6, <1>7, <1>8, FollowsItself DEF o

-----------------------------------------------------------------------------
(* Pages *)

Typed(p) == p \in Pages /\ \A c \in Cameras : CellSound(p.v[c])

\* The sources that go on do so in the state they were in.
GoesOn(x, y) ==
  y.failed \/ (/\ y.play = x.play /\ (y.played = x.played) /\ (y.held = x.held)
               /\ y.pos = x.pos /\ y.data = x.data)

\* What a handler makes of the page where no source gets new data or another
\* recording and the clock stands still; outside the barrier it only fails sources.
Steady(p, q) ==
  /\ q.transport = p.transport /\ (q.playing = p.playing) /\ q.time = p.time
  /\ p.barrier => q.barrier
  /\ \A c \in Cameras : Follows(p.v[c], q.v[c]) /\ Lasts(p.v[c], q.v[c])
  /\ ~q.barrier => \A c \in Cameras : GoesOn(p.v[c], q.v[c])
  /\ HeldFit(p) => HeldFit(q)

LEMMA SteadyTransitive ==
  ASSUME NEW p, NEW q, NEW r, Steady(p, q), Steady(q, r)
  PROVE  Steady(p, r)
  <1>1. ASSUME NEW c \in Cameras PROVE Follows(p.v[c], r.v[c]) /\ Lasts(p.v[c], r.v[c])
    <2> DEFINE x == p.v[c]
               y == q.v[c]
               z == r.v[c]
    <2>1. Follows(x, y) /\ Follows(y, z) /\ Lasts(x, y) /\ Lasts(y, z)
      BY DEF Steady
    <2> HIDE DEF x, y, z
    <2>2. Follows(x, z)
      BY <2>1, FollowsTransitive
    <2>3. Lasts(x, z)
      BY <2>1 DEF Lasts, Follows
    <2> QED BY <2>2, <2>3 DEF x, z
  <1>2. ASSUME ~r.barrier, NEW c \in Cameras PROVE GoesOn(p.v[c], r.v[c])
    BY <1>2 DEF Steady, GoesOn, Follows
  <1> QED BY <1>1, <1>2 DEF Steady

LEMMA SteadyItself == ASSUME NEW p PROVE Steady(p, p)
  BY FollowsItself DEF Steady, GoesOn, Lasts

LEMMA SteadyActive ==
  ASSUME NEW p, NEW q, Steady(p, q)
  PROVE  Active(q) \subseteq Active(p)
  BY DEF Steady, Follows, Active

LEMMA ActiveType ==
  ASSUME NEW p \in Pages
  PROVE  /\ Active(p) \subseteq Cameras /\ IsFiniteSet(Active(p))
         /\ \A c \in Active(p) : p.v[c].rec \in Segments /\ p.v[c].rec # None /\ ~p.v[c].failed
  <1>1. Active(p) \subseteq Cameras
    BY DEF Active
  <1> QED BY <1>1, FS_Subset DEF Active, Pages, Videos

\* Each, with the cells it makes given.
Cells(p, h) == IF h = p.v THEN p ELSE [p EXCEPT !.v = h]

LEMMA CellsType ==
  ASSUME NEW p \in Pages, NEW h \in [Cameras -> Videos]
  PROVE  Cells(p, h) \in Pages /\ Cells(p, h).v = h /\ Alike(p, Cells(p, h))
  BY DEF Cells, Alike, Pages

LEMMA CellsSound ==
  ASSUME NEW p \in Pages, NEW h, h = [c \in Cameras |-> h[c]], \A c \in Cameras : CellSound(h[c])
  PROVE  Typed(Cells(p, h)) /\ Cells(p, h).v = h /\ Alike(p, Cells(p, h))
  <1>1. \A c \in Cameras : h[c] \in Videos
    BY DEF CellSound
  <1>2. h \in [Cameras -> Videos]
    BY <1>1
  <1> QED BY <1>2, CellsType DEF Typed

LEMMA EnterBarrierSound ==
  ASSUME NEW p, Typed(p)
  PROVE  LET q == EnterBarrier(p)
         IN /\ Typed(q) /\ Steady(p, q) /\ (q.late = p.late)
            /\ p.playing => (q.barrier /\ q.timed)
            /\ ~p.playing => q = p
  <1> DEFINE b == [p EXCEPT !.barrier = TRUE, !.timed = TRUE]
             S == {c \in Active(p) : ~Spared(p, c)}
             h == [c \in Cameras |-> IF c \in S THEN Barred(p, c) ELSE b.v[c]]
  <1>1. p \in Pages
    BY DEF Typed
  <1>2. CASE ~p.playing
    BY <1>2, SteadyItself DEF EnterBarrier
  <1>3. CASE p.playing
    <2>1. EnterBarrier(p) = Cells(b, h)
      BY <1>3 DEF EnterBarrier, Each, Cells
    <2>2. b \in Pages /\ b.v = p.v /\ b.transport = p.transport /\ (b.playing = p.playing)
          /\ b.time = p.time /\ (b.late = p.late) /\ (b.barrier = TRUE) /\ (b.timed = TRUE)
      BY <1>1 DEF Pages
    <2>3. h = [c \in Cameras |-> h[c]]
      OBVIOUS
    <2>4. ASSUME NEW c \in Cameras
          PROVE  /\ CellSound(h[c]) /\ Follows(p.v[c], h[c]) /\ Lasts(p.v[c], h[c])
                 /\ HeldFit(p) => ~h[c].held
      <3>1. h[c] = IF c \in S THEN Barred(p, c) ELSE p.v[c]
        BY <2>2
      <3>2. c \in S => c \in Active(p)
        OBVIOUS
      <3>3. CellSound(p.v[c])
        BY DEF Typed
      <3>4. c \notin S /\ HeldFit(p) => ~p.v[c].held
        BY DEF HeldFit, Spared
      <3> HIDE DEF h, S
      <3>5. CASE c \in S
        BY <1>1, <3>1, <3>2, <3>3, <3>5, BarredSound
      <3>6. CASE c \notin S
        BY <3>1, <3>3, <3>4, <3>6, FollowsItself DEF Lasts
      <3> QED BY <3>5, <3>6
    <2> HIDE DEF h, b
    <2>5. Typed(Cells(b, h)) /\ Cells(b, h).v = h /\ Alike(b, Cells(b, h))
      BY <2>2, <2>3, <2>4, CellsSound
    <2> DEFINE q == Cells(b, h)
    <2>6. (q.barrier = TRUE) /\ q.v = h /\ q.transport = p.transport /\ (q.playing = p.playing)
          /\ q.time = p.time /\ (q.late = p.late) /\ (q.timed = TRUE)
      BY <2>2, <2>5 DEF Alike
    <2> HIDE DEF q
    <2>7. HeldFit(p) => HeldFit(q)
      BY <2>4, <2>6 DEF HeldFit
    <2>8. Steady(p, q)
      BY <2>4, <2>6, <2>7 DEF Steady
    <2> QED BY <1>3, <2>1, <2>5, <2>6, <2>8 DEF q
  <1> QED BY <1>2, <1>3

LEMMA CoherentTyped == ASSUME NEW p PROVE Coherent(p) <=> (Typed(p) /\ (p.barrier => p.playing /\ p.timed))
  BY DEF Coherent, Typed

LEMMA EnterBarrierCoherent ==
  ASSUME NEW p, Typed(p), ~p.playing => ~p.barrier
  PROVE  Coherent(EnterBarrier(p))
  BY EnterBarrierSound, CoherentTyped DEF Steady

LEMMA StoppedSound ==
  ASSUME NEW p, Typed(p)
  PROVE  LET q == Stopped(p)
         IN /\ Coherent(q) /\ ~q.playing /\ ~q.barrier
            /\ q.transport = p.transport /\ q.time = p.time
            /\ \A c \in Cameras : Alters(p.v[c], q.v[c]) /\ ~q.v[c].held
  <1> DEFINE b == [Finished(p) EXCEPT !.tick = FALSE, !.playing = FALSE, !.barrier = FALSE]
             h == [c \in Cameras |-> IF c \in Cameras
                                     THEN [p.v[c] EXCEPT !.warming = FALSE, !.held = FALSE,
                                                         !.play = "paused", !.cold = TRUE]
                                     ELSE b.v[c]]
  <1>1. p \in Pages
    BY DEF Typed
  <1>2. Stopped(p) = Cells(b, h)
    BY DEF Stopped, Each, Cells
  <1>3. b \in Pages /\ b.v = p.v /\ b.transport = p.transport /\ (b.playing = FALSE)
        /\ b.time = p.time /\ (b.barrier = FALSE)
    BY <1>1 DEF Finished, Pages
  <1>4. h = [c \in Cameras |-> h[c]]
    OBVIOUS
  <1>5. ASSUME NEW c \in Cameras PROVE CellSound(h[c]) /\ Alters(p.v[c], h[c]) /\ ~h[c].held
    <2> DEFINE o == p.v[c]
               y == [o EXCEPT !.warming = FALSE, !.held = FALSE, !.play = "paused", !.cold = TRUE]
    <2>1. h[c] = y
      OBVIOUS
    <2>2. CellSound(o)
      BY DEF Typed
    <2>3. o \in Videos
      BY <2>2 DEF CellSound
    <2> HIDE DEF o
    <2>4. Alters(o, y) /\ (y.held = FALSE)
      BY <2>3 DEF Alters, Videos
    <2> HIDE DEF y, h
    <2>5. CellSound(y)
      BY <2>2, <2>4, AlteredSound
    <2> QED BY <2>1, <2>4, <2>5 DEF o
  <1> HIDE DEF h, b
  <1>6. Typed(Cells(b, h)) /\ Cells(b, h).v = h /\ Alike(b, Cells(b, h))
    BY <1>3, <1>4, <1>5, CellsSound
  <1> QED BY <1>2, <1>3, <1>5, <1>6, CoherentTyped DEF Alike

LEMMA ResetSound ==
  ASSUME NEW p, Typed(p)
  PROVE  LET q == Reset(p)
         IN /\ Coherent(q) /\ ~q.barrier /\ (q.playing = p.playing)
            /\ q.transport = p.transport /\ q.time = p.time
            /\ \A c \in Cameras : Alters(p.v[c], q.v[c]) /\ ~q.v[c].held
  <1> DEFINE b == [Finished(p) EXCEPT !.barrier = FALSE, !.retried = {}]
             h == [c \in Cameras |-> IF c \in Cameras
                                     THEN [p.v[c] EXCEPT !.held = FALSE, !.pulsed = FALSE, !.restarts = 0,
                                                         !.reloaded = NoTime]
                                     ELSE b.v[c]]
  <1>1. p \in Pages
    BY DEF Typed
  <1>2. Reset(p) = Cells(b, h)
    BY DEF Reset, Each, Cells
  <1>3. b \in Pages /\ b.v = p.v /\ b.transport = p.transport /\ (b.playing = p.playing)
        /\ b.time = p.time /\ (b.barrier = FALSE)
    BY <1>1 DEF Finished, Pages
  <1>4. h = [c \in Cameras |-> h[c]]
    OBVIOUS
  <1>5. ASSUME NEW c \in Cameras PROVE CellSound(h[c]) /\ Alters(p.v[c], h[c]) /\ ~h[c].held
    <2> DEFINE o == p.v[c]
               y == [o EXCEPT !.held = FALSE, !.pulsed = FALSE, !.restarts = 0, !.reloaded = NoTime]
    <2>1. h[c] = y
      OBVIOUS
    <2>2. CellSound(o)
      BY DEF Typed
    <2>3. o \in Videos
      BY <2>2 DEF CellSound
    <2> HIDE DEF o
    <2>4. 0 \in 0..MaxRestarts
      OBVIOUS
    <2>5. Alters(o, y) /\ (y.held = FALSE)
      BY <2>3, <2>4 DEF Alters, Videos
    <2> HIDE DEF y, h
    <2>6. CellSound(y)
      BY <2>2, <2>5, AlteredSound
    <2> QED BY <2>1, <2>5, <2>6 DEF o
  <1> HIDE DEF h, b
  <1>6. Typed(Cells(b, h)) /\ Cells(b, h).v = h /\ Alike(b, Cells(b, h))
    BY <1>3, <1>4, <1>5, CellsSound
  <1> QED BY <1>2, <1>3, <1>5, <1>6, CoherentTyped DEF Alike

-----------------------------------------------------------------------------
(* Showing recordings, and moving the clock *)

LEMMA SourceSought ==
  ASSUME NEW p \in Pages, NEW c \in Cameras, p.v[c].data \in {"none", "loading"}
  PROVE  Sought(p, c) = p.v[c]
  BY DEF Sought

LEMMA PositionedSound ==
  ASSUME NEW p, Typed(p)
  PROVE  LET q == Positioned(p)
         IN /\ Typed(q) /\ Alike(p, q)
            /\ \A c \in Cameras : /\ q.v[c] = p.v[c] \/ q.v[c] = Sought(p, c)
                                  /\ Follows(p.v[c], q.v[c]) /\ Persists(p.v[c], q.v[c])
                                  /\ p.v[c].data # "ended" => q.v[c].data = p.v[c].data
                                  /\ p.v[c].data \in {"none", "loading"} => q.v[c] = p.v[c]
  <1> DEFINE h == [c \in Cameras |-> IF c \in Active(p) THEN Sought(p, c) ELSE p.v[c]]
  <1>1. p \in Pages
    BY DEF Typed
  <1>2. Positioned(p) = Cells(p, h)
    BY DEF Positioned, Each, Cells
  <1>3. h = [c \in Cameras |-> h[c]]
    OBVIOUS
  <1>4. ASSUME NEW c \in Cameras
        PROVE  /\ CellSound(h[c]) /\ (h[c] = p.v[c] \/ h[c] = Sought(p, c))
               /\ Follows(p.v[c], h[c]) /\ Persists(p.v[c], h[c])
               /\ p.v[c].data # "ended" => h[c].data = p.v[c].data
               /\ p.v[c].data \in {"none", "loading"} => h[c] = p.v[c]
    <2>1. h[c] = p.v[c] \/ h[c] = Sought(p, c)
      OBVIOUS
    <2>2. CellSound(p.v[c])
      BY DEF Typed
    <2> HIDE DEF h
    <2>3. /\ CellSound(Sought(p, c)) /\ Follows(p.v[c], Sought(p, c))
          /\ Persists(p.v[c], Sought(p, c))
          /\ p.v[c].data # "ended" => Sought(p, c).data = p.v[c].data
      BY <1>1, <2>2, SoughtSound DEF Persists, Follows
    <2>4. p.v[c].data \in {"none", "loading"} => Sought(p, c) = p.v[c]
      BY <1>1, SourceSought
    <2>5. Persists(p.v[c], p.v[c])
      BY DEF Persists
    <2> QED BY <2>1, <2>2, <2>3, <2>4, <2>5, FollowsItself
  <1> HIDE DEF h
  <1>5. Typed(Cells(p, h)) /\ Cells(p, h).v = h /\ Alike(p, Cells(p, h))
    BY <1>1, <1>3, <1>4, CellsSound
  <1> QED BY <1>2, <1>4, <1>5

LEMMA RenderSound ==
  ASSUME NEW p, Typed(p), NEW S, S \subseteq Cameras
  PROVE  LET q == Render(p, S)
         IN /\ Typed(q) /\ Alike(p, q)
            /\ \A c \in S : q.v[c].rec = FindRecording(c, p.time) /\ ~Ready(q.v[c]) /\ ~q.v[c].held
            /\ \A c \in Cameras \ S :
                 /\ Follows(p.v[c], q.v[c]) /\ Persists(p.v[c], q.v[c])
                 /\ p.v[c].data # "ended" => q.v[c].data = p.v[c].data
  <1> DEFINE h == [c \in Cameras |-> IF c \in S THEN Source(p, c) ELSE p.v[c]]
             m == Cells(p, h)
             q == Positioned(m)
  <1>1. p \in Pages
    BY DEF Typed
  <1>2. Render(p, S) = q
    BY DEF Render, Each, Cells
  <1>3. h = [c \in Cameras |-> h[c]]
    OBVIOUS
  <1>4. \A c \in Cameras : h[c] = IF c \in S THEN Source(p, c) ELSE p.v[c]
    OBVIOUS
  <1> HIDE DEF h
  <1>5. ASSUME NEW c \in S
        PROVE  /\ CellSound(h[c]) /\ ~Ready(h[c]) /\ h[c].rec = FindRecording(c, p.time)
               /\ h[c].data \in {"none", "loading"} /\ ~h[c].held
    BY <1>1, <1>4, SourceSound
  <1>6. \A c \in Cameras : CellSound(h[c])
    BY <1>4, <1>5 DEF Typed
  <1>7. Typed(m) /\ m.v = h /\ Alike(p, m)
    BY <1>1, <1>3, <1>6, CellsSound
  <1> HIDE DEF m
  <1>8. /\ Typed(q) /\ Alike(m, q)
        /\ \A c \in Cameras : /\ Follows(h[c], q.v[c]) /\ Persists(h[c], q.v[c])
                              /\ h[c].data # "ended" => q.v[c].data = h[c].data
                              /\ h[c].data \in {"none", "loading"} => q.v[c] = h[c]
    BY <1>7, PositionedSound
  <1> HIDE DEF q
  <1>9. Alike(p, q)
    BY <1>7, <1>8 DEF Alike
  <1>10. ASSUME NEW c \in S PROVE q.v[c].rec = FindRecording(c, p.time) /\ ~Ready(q.v[c]) /\ ~q.v[c].held
    BY <1>5, <1>8
  <1>11. ASSUME NEW c \in Cameras \ S
         PROVE  /\ Follows(p.v[c], q.v[c]) /\ Persists(p.v[c], q.v[c])
                /\ p.v[c].data # "ended" => q.v[c].data = p.v[c].data
    BY <1>4, <1>8
  <1> QED BY <1>2, <1>8, <1>9, <1>10, <1>11

LEMMA FollowSound ==
  ASSUME NEW p, Coherent(p)
  PROVE  LET q == Follow(p)
         IN /\ Coherent(q) /\ (q.playing = p.playing) /\ (p.barrier => q.barrier)
            /\ q.transport = p.transport
  <1> DEFINE r == Render(p, Changed(p))
  <1>1. Typed(p) /\ (p.barrier => p.playing /\ p.timed)
    BY CoherentTyped
  <1>2. Typed(r) /\ Alike(p, r)
    <2>1. Changed(p) \subseteq Cameras
      BY DEF Changed
    <2> QED BY <1>1, <2>1, RenderSound
  <1>3. Follow(p) = p \/ Follow(p) = r \/ Follow(p) = EnterBarrier(r)
    BY DEF Follow
  <1> HIDE DEF r
  <1>4. Coherent(r) /\ (r.barrier => r.playing)
    BY <1>1, <1>2, CoherentTyped DEF Alike
  <1>5. Coherent(EnterBarrier(r))
    BY <1>2, <1>4, EnterBarrierCoherent
  <1>6. Steady(r, EnterBarrier(r))
    BY <1>2, EnterBarrierSound
  <1> QED BY <1>2, <1>3, <1>4, <1>5, <1>6 DEF Alike, Steady

LEMMA LaterType ==
  ASSUME NEW p \in Pages, Later(p) # {}
  PROVE  Min(Later(p)) \in Times
  <1>1. Later(p) \subseteq Times
    BY SegmentFacts DEF Later
  <1>2. IsFiniteSet(Later(p)) /\ Later(p) \subseteq Nat
    BY <1>1, SegmentFacts, FS_Subset
  <1> QED BY <1>1, <1>2, MinExists

LEMMA TimeType ==
  ASSUME NEW p, Coherent(p), NEW t \in Times, NEW q, q = [p EXCEPT !.time = t]
  PROVE  /\ Coherent(q) /\ q.v = p.v /\ q.transport = p.transport /\ (q.playing = p.playing)
         /\ (q.barrier = p.barrier) /\ (q.timed = p.timed) /\ q.time = t
  <1>1. p \in Pages
    BY DEF Coherent
  <1>2. q \in Pages /\ q.v = p.v /\ q.transport = p.transport /\ (q.playing = p.playing)
        /\ (q.barrier = p.barrier) /\ (q.timed = p.timed) /\ q.time = t
    BY <1>1 DEF Pages
  <1> QED BY <1>2 DEF Coherent

LEMMA SkippedSound ==
  ASSUME NEW p, Coherent(p), Recorded(p) \/ Later(p) # {}
  PROVE  LET q == Skipped(p)
         IN /\ Coherent(q) /\ q.v = p.v /\ q.transport = p.transport
            /\ (q.playing = p.playing) /\ (q.barrier = p.barrier)
  <1>1. p \in Pages
    BY DEF Coherent
  <1>2. CASE Recorded(p)
    BY <1>2 DEF Skipped
  <1>3. CASE ~Recorded(p)
    <2> DEFINE t == Min(Later(p))
               q == [p EXCEPT !.time = t]
    <2>1. t \in Times
      BY <1>1, <1>3, LaterType
    <2>2. Skipped(p) = q
      BY <1>3 DEF Skipped
    <2>3. q = [p EXCEPT !.time = t]
      OBVIOUS
    <2> HIDE DEF q, t
    <2> QED BY <2>1, <2>2, <2>3, TimeType
  <1> QED BY <1>2, <1>3

LEMMA ReconcileSound ==
  ASSUME NEW p, Coherent(p)
  PROVE  LET q == Reconcile(p)
         IN /\ Coherent(q)
            /\ q.playing => p.playing /\ (p.barrier => q.barrier)
            /\ q.transport = p.transport
  <1>1. CASE ~Recorded(p) /\ Later(p) = {}
    <2>1. Reconcile(p) = Stopped(p)
      BY <1>1 DEF Reconcile
    <2> QED BY <2>1, StoppedSound, CoherentTyped
  <1>2. CASE Recorded(p) \/ Later(p) # {}
    <2> DEFINE s == Skipped(p)
    <2>1. Reconcile(p) = Follow(s)
      BY <1>2 DEF Reconcile
    <2>2. Coherent(s) /\ s.transport = p.transport /\ (s.playing = p.playing) /\ (s.barrier = p.barrier)
      BY <1>2, SkippedSound
    <2> HIDE DEF s
    <2>3. LET q == Follow(s)
          IN /\ Coherent(q) /\ (q.playing = s.playing) /\ (s.barrier => q.barrier)
             /\ q.transport = s.transport
      BY <2>2, FollowSound
    <2> QED BY <2>1, <2>2, <2>3
  <1> QED BY <1>1, <1>2

LEMMA PutSound ==
  ASSUME NEW p, Typed(p), NEW c \in Cameras, NEW y, CellSound(y)
  PROVE  /\ Typed(Put(p, c, y)) /\ Alike(p, Put(p, c, y))
         /\ Put(p, c, y).v[c] = y
         /\ \A d \in Cameras : d # c => Put(p, c, y).v[d] = p.v[d]
         /\ Coherent(p) => Coherent(Put(p, c, y))
  <1>1. p \in Pages /\ y \in Videos
    BY DEF Typed, CellSound
  <1> DEFINE q == Put(p, c, y)
  <1>2. /\ q \in Pages /\ Alike(p, q) /\ q.v[c] = y
        /\ \A d \in Cameras : d # c => q.v[d] = p.v[d]
    BY <1>1, PutType, PutRest
  <1> HIDE DEF q
  <1>3. \A d \in Cameras : CellSound(q.v[d])
    BY <1>2 DEF Typed
  <1>4. Typed(q)
    BY <1>2, <1>3 DEF Typed
  <1> QED BY <1>2, <1>4, CoherentTyped DEF q, Alike

\* The clock at the end of recording c's cell shows, or later.
LEMMA VideoEndedSound ==
  ASSUME NEW p, Coherent(p), NEW c \in Cameras, p.v[c].rec \in Segments
  PROVE  LET q == VideoEnded(p, c)
         IN /\ Coherent(q)
            /\ q.playing => p.playing /\ (p.barrier => q.barrier)
            /\ q.transport = p.transport
  <1> DEFINE o == p.v[c]
             y == [o EXCEPT !.over = TRUE]
             t == IF p.time > p.v[c].rec[3] THEN p.time ELSE p.v[c].rec[3]
             a == Put(p, c, y)
             b == [a EXCEPT !.time = t]
  <1>1. p \in Pages /\ Typed(p)
    BY CoherentTyped DEF Typed
  <1>2. CASE p.v[c].over
    BY <1>2 DEF VideoEnded
  <1>3. CASE ~p.v[c].over
    <2>1. CellSound(o)
      BY <1>1 DEF Typed
    <2>2. t \in Times
      BY <1>1, SegmentFacts DEF Pages
    <2>3. VideoEnded(p, c) = Reconcile(b)
      BY <1>1, <1>3 DEF VideoEnded, Put, Pages, Videos
    <2> HIDE DEF o, t
    <2>4. Reshapes(o, y)
      BY <2>1 DEF Reshapes, Alters, Videos, CellSound
    <2> HIDE DEF y
    <2>5. CellSound(y)
      BY <2>1, <2>4, ReshapedSound
    <2>6. Coherent(a) /\ Alike(p, a)
      BY <1>1, <2>5, PutSound
    <2>7. b = [a EXCEPT !.time = t]
      OBVIOUS
    <2> HIDE DEF a, b
    <2>8. /\ Coherent(b) /\ b.transport = a.transport /\ (b.playing = a.playing)
          /\ (b.barrier = a.barrier)
      BY <2>2, <2>6, <2>7, TimeType
    <2>9. LET q == Reconcile(b)
          IN /\ Coherent(q)
             /\ q.playing => b.playing /\ (b.barrier => q.barrier)
             /\ q.transport = b.transport
      BY <2>8, ReconcileSound
    <2> QED BY <2>3, <2>6, <2>8, <2>9 DEF Alike
  <1> QED BY <1>2, <1>3

-----------------------------------------------------------------------------
(* One tick *)

\* The results of a fold stay where its steps lead.
LEMMA FoldWithin ==
  ASSUME NEW S, IsFiniteSet(S), NEW O, NEW J, NEW b, b \in J[{}],
         \A s \in SUBSET S : s # {} => \A x \in J[Rest(s)] : O[<<Picked(s), x>>] \in J[s]
  PROVE  \E f : Folds(f, O, b, S) /\ \A s \in SUBSET S : f[s] \in J[s]
  <1>1. PICK f : Folds(f, O, b, S)
    BY FoldExists
  <1>2. \A s \in SUBSET S : f[s] = (IF s = {} THEN b ELSE O[<<Picked(s), f[Rest(s)]>>])
    BY <1>1 DEF Folds
  <1>3. f[{}] \in J[{}]
    BY <1>2
  <1>4. \A s \in SUBSET S : (s # {} /\ f[Rest(s)] \in J[Rest(s)]) => f[s] \in J[s]
    BY <1>2
  <1>5. \A s \in SUBSET S : f[s] \in J[s]
    BY <1>3, <1>4, FoldStays
  <1> QED BY <1>1, <1>5

LEMMA FailSound ==
  ASSUME NEW p, Typed(p), NEW c \in Cameras, p.v[c].rec \in Segments
  PROVE  LET q == Fail(p, c)
         IN /\ Typed(q) /\ Steady(p, q)
            /\ (q.barrier = p.barrier) /\ (q.timed = p.timed) /\ (q.late = p.late)
            /\ \A d \in Cameras : d # c => q.v[d] = p.v[d]
            /\ Coherent(p) => Coherent(q)
  <1> DEFINE r == p.v[c].rec
             y == [Blank EXCEPT !.rec = r, !.failed = TRUE]
             q == [p EXCEPT !.broken = @ \cup {r}, !.v[c] = y]
  <1>1. p \in Pages
    BY DEF Typed
  <1>2. CellSound(y) /\ y.rec = r /\ (y.failed = TRUE) /\ y.data = "none" /\ (y.held = FALSE)
    BY BlankSound DEF Blank
  <1>3. y \in Videos
    BY <1>2 DEF CellSound
  <1>4. Fail(p, c) = q
    BY DEF Fail
  <1>5. r \in Segments
    OBVIOUS
  <1> HIDE DEF y, r
  <1>6. /\ q \in Pages
        /\ q.v[c] = y /\ \A d \in Cameras : d # c => q.v[d] = p.v[d]
    BY <1>1, <1>3, <1>5 DEF Pages
  <1>7. /\ q.transport = p.transport /\ (q.playing = p.playing) /\ q.time = p.time
        /\ (q.barrier = p.barrier) /\ (q.timed = p.timed) /\ (q.late = p.late)
    BY <1>1 DEF Pages
  <1> HIDE DEF q
  <1>8. Typed(q)
    BY <1>2, <1>6 DEF Typed
  <1>9. Follows(p.v[c], y)
    BY <1>2 DEF Follows, Ready, r
  <1>10. Steady(p, q)
    <2>1. ASSUME NEW d \in Cameras
          PROVE  Follows(p.v[d], q.v[d]) /\ Lasts(p.v[d], q.v[d]) /\ GoesOn(p.v[d], q.v[d])
      BY <1>2, <1>6, <1>9, FollowsItself DEF GoesOn, Lasts
    <2>2. HeldFit(p) => HeldFit(q)
      BY <1>2, <1>6, <1>7 DEF HeldFit, Active
    <2> QED BY <1>7, <2>1, <2>2 DEF Steady
  <1> QED BY <1>4, <1>6, <1>7, <1>8, <1>10, CoherentTyped

LEMMA FrozenSound ==
  ASSUME NEW p, Coherent(p), p.playing, NEW c \in Cameras
  PROVE  LET q == Frozen(p, c)
         IN Coherent(q) /\ Steady(p, q) /\ (p.barrier => q = p)
  <1> DEFINE a == Put(p, c, Reloaded(p, c))
  <1>1. Typed(p) /\ (p.barrier => (p.playing /\ p.timed)) /\ p \in Pages
    BY CoherentTyped DEF Typed
  <1>2. Watched(p, c) => (p.v[c].rec \in Segments /\ ~p.v[c].failed)
    BY <1>1 DEF Watched, Typed, CellSound, Videos
  <1>3. \/ Frozen(p, c) = p
        \/ ~p.barrier /\ Frozen(p, c) = EnterBarrier(p)
        \/ ~p.barrier /\ Watched(p, c) /\ MayReload(p, c) /\ Frozen(p, c) = EnterBarrier(a)
        \/ ~p.barrier /\ Watched(p, c) /\ Frozen(p, c) = Fail(p, c)
    BY DEF Frozen, Watched, Put
  <1> HIDE DEF a
  <1>4. Coherent(EnterBarrier(p)) /\ Steady(p, EnterBarrier(p))
    BY <1>1, EnterBarrierCoherent, EnterBarrierSound
  <1>5. ASSUME Watched(p, c) PROVE Coherent(Fail(p, c)) /\ Steady(p, Fail(p, c))
    BY <1>1, <1>2, <1>5, FailSound
  <1>6. ASSUME Watched(p, c), MayReload(p, c) PROVE Coherent(EnterBarrier(a)) /\ Steady(p, EnterBarrier(a))
    <2>1. CellSound(Reloaded(p, c)) /\ Follows(p.v[c], Reloaded(p, c)) /\ ~Reloaded(p, c).held
          /\ Lasts(p.v[c], Reloaded(p, c))
      BY <1>1, <1>2, <1>6, ReloadedSound DEF Lasts, Watched
    <2>2. /\ Typed(a) /\ Alike(p, a) /\ a.v[c] = Reloaded(p, c)
          /\ \A d \in Cameras : d # c => a.v[d] = p.v[d]
      BY <1>1, <1>2, <2>1, PutSound DEF a
    <2> DEFINE q == EnterBarrier(a)
    <2>3. ASSUME NEW d \in Cameras
          PROVE  Follows(p.v[d], a.v[d]) /\ Lasts(p.v[d], a.v[d])
      BY <2>1, <2>2, FollowsItself DEF Lasts
    <2>4. Coherent(q) /\ Steady(a, q) /\ q.barrier
      BY <1>1, <2>2, EnterBarrierCoherent, EnterBarrierSound DEF Alike
    <2> HIDE DEF q
    <2>5. ASSUME NEW d \in Cameras
          PROVE  Follows(p.v[d], q.v[d]) /\ Lasts(p.v[d], q.v[d])
      <3> DEFINE x == p.v[d]
                 y == a.v[d]
                 z == q.v[d]
      <3>1. Follows(x, y) /\ Lasts(x, y) /\ Follows(y, z) /\ Lasts(y, z)
        BY <2>3, <2>4 DEF Steady
      <3> HIDE DEF x, y, z
      <3>2. Follows(x, z) /\ Lasts(x, z)
        BY <3>1, FollowsTransitive DEF Lasts, Follows
      <3> QED BY <3>2 DEF x, z
    <2>6. HeldFit(p) => HeldFit(a)
      BY <2>1, <2>2 DEF HeldFit, Alike, Active
    <2>7. Steady(p, q)
      BY <2>2, <2>4, <2>5, <2>6 DEF Alike, Steady
    <2> QED BY <2>4, <2>7 DEF q
  <1> QED BY <1>3, <1>4, <1>5, <1>6, SteadyItself

LEMMA ProgressFoldSound ==
  ASSUME NEW p, Coherent(p), p.playing
  PROVE  LET q == FoldSet(LAMBDA c, acc : Frozen(acc, c), p, Active(p))
         IN Coherent(q) /\ Steady(p, q) /\ (p.barrier => q = p)
  <1> DEFINE S == Active(p)
             N(q) == Coherent(q) /\ Steady(p, q) /\ (p.barrier => q = p)
             W == {q \in Pages : N(q)}
             J == [s \in SUBSET S |-> W]
             O == [z \in S \X Pages |-> Frozen(z[2], z[1])]
             is(f) == f = [s \in SUBSET S |-> IF s = {} THEN p ELSE Frozen(f[Rest(s)], Picked(s))]
             g == CHOOSE f : is(f)
  <1>1. FoldSet(LAMBDA c, acc : Frozen(acc, c), p, Active(p)) = g[S]
    BY DEF FoldSet, MapThenFoldSet, Rest, Picked
  <1>3. S \subseteq Cameras /\ IsFiniteSet(S) /\ p \in Pages /\ N(p)
    BY ActiveType, SteadyItself DEF Coherent
  <1>4. ASSUME NEW s \in SUBSET S, s # {}, NEW x \in W
        PROVE  Frozen(x, Picked(s)) \in W /\ O[<<Picked(s), x>>] = Frozen(x, Picked(s))
    <2>1. Picked(s) \in S /\ Picked(s) \in Cameras
      BY <1>3, <1>4, RestSmaller
    <2>2. N(x) /\ x \in Pages
      OBVIOUS
    <2> DEFINE y == Frozen(x, Picked(s))
    <2>0. x.playing
      BY <2>2 DEF Steady
    <2>3. Coherent(y) /\ Steady(x, y) /\ (x.barrier => y = x)
      BY <2>0, <2>1, <2>2, FrozenSound
    <2> HIDE DEF y
    <2>4. N(y)
      BY <2>2, <2>3, SteadyTransitive
    <2>5. y \in W
      BY <2>4 DEF Coherent
    <2>6. O[<<Picked(s), x>>] = Frozen(x, Picked(s))
      BY <2>1, <2>2
    <2> QED BY <2>5, <2>6 DEF y
  <1>5. p \in W
    BY <1>3
  <1> HIDE DEF S, W, O
  <1>j. {} \in SUBSET S /\ \A s \in SUBSET S : J[s] = W /\ (s # {} => Rest(s) \in SUBSET S)
    BY RestSmaller
  <1> HIDE DEF J
  <1>6. PICK f : Folds(f, O, p, S) /\ \A s \in SUBSET S : f[s] \in J[s]
    <2>1. p \in J[{}]
      BY <1>5, <1>j
    <2>2. \A s \in SUBSET S : s # {} => \A x \in J[Rest(s)] : O[<<Picked(s), x>>] \in J[s]
      BY <1>4, <1>j
    <2> QED BY <1>3, <2>1, <2>2, FoldWithin
  <1>7. is(f)
    <2>1. ASSUME NEW s \in SUBSET S, s # {}
          PROVE  O[<<Picked(s), f[Rest(s)]>>] = Frozen(f[Rest(s)], Picked(s))
      <3>1. f[Rest(s)] \in W
        BY <1>6, <1>j, <2>1
      <3> QED BY <1>4, <2>1, <3>1
    <2> QED BY <1>6, <2>1 DEF Folds
  <1>8. is(g)
    BY <1>7
  <1> HIDE DEF g
  <1>9. \A s \in SUBSET S : g[s] = IF s = {} THEN p ELSE Frozen(g[Rest(s)], Picked(s))
    BY <1>8
  <1>10. g[S] \in W
    <2>1. g[{}] \in J[{}]
      BY <1>5, <1>9, <1>j
    <2>2. \A s \in SUBSET S : (s # {} /\ g[Rest(s)] \in J[Rest(s)]) => g[s] \in J[s]
      BY <1>4, <1>9, <1>j
    <2>3. \A s \in SUBSET S : g[s] \in J[s]
      BY <1>3, <2>1, <2>2, FoldStays
    <2> QED BY <1>j, <2>3
  <1> QED BY <1>1, <1>10 DEF W

LEMMA AlikeSteady ==
  ASSUME NEW p, NEW q, Alike(p, q),
         \A c \in Cameras : Follows(p.v[c], q.v[c]) /\ Lasts(p.v[c], q.v[c]),
         p.barrier \/ \A c \in Cameras : GoesOn(p.v[c], q.v[c]) /\ (q.v[c].failed = p.v[c].failed)
  PROVE  Steady(p, q)
  <1>1. ASSUME HeldFit(p) PROVE HeldFit(q)
    <2>1. CASE p.barrier
      BY <1>1, <2>1 DEF HeldFit, Follows
    <2>2. CASE \A c \in Cameras : GoesOn(p.v[c], q.v[c]) /\ (q.v[c].failed = p.v[c].failed)
      BY <1>1, <2>2 DEF HeldFit, Follows, Alike, Active
    <2> QED BY <2>1, <2>2
  <1> QED BY <1>1 DEF Alike, Steady

LEMMA WatchedAnewSound ==
  ASSUME NEW p, Typed(p)
  PROVE  Typed(WatchedAnew(p)) /\ Alike(p, WatchedAnew(p)) /\ Steady(p, WatchedAnew(p))
  <1> DEFINE h == [c \in Cameras |-> IF c \in Cameras THEN [p.v[c] EXCEPT !.still = "no", !.moved = FALSE]
                                                      ELSE p.v[c]]
  <1>1. p \in Pages
    BY DEF Typed
  <1>2. WatchedAnew(p) = Cells(p, h)
    BY DEF WatchedAnew, Each, Cells
  <1>3. h = [c \in Cameras |-> h[c]]
    OBVIOUS
  <1>4. ASSUME NEW c \in Cameras
        PROVE  /\ CellSound(h[c]) /\ Follows(p.v[c], h[c]) /\ Lasts(p.v[c], h[c])
               /\ GoesOn(p.v[c], h[c]) /\ (h[c].failed = p.v[c].failed)
    <2> DEFINE o == p.v[c]
               y == [o EXCEPT !.still = "no", !.moved = FALSE]
    <2>1. h[c] = y
      OBVIOUS
    <2>2. CellSound(o)
      BY DEF Typed
    <2>3. o \in Videos
      BY <2>2 DEF CellSound
    <2> HIDE DEF o
    <2>4. Reshapes(o, y) /\ GoesOn(o, y) /\ Lasts(o, y) /\ (y.failed = o.failed)
      BY <2>3 DEF Reshapes, Alters, GoesOn, Lasts, Videos
    <2> HIDE DEF y, h
    <2>5. CellSound(y) /\ Follows(o, y)
      BY <2>2, <2>4, ReshapedSound
    <2> QED BY <2>1, <2>4, <2>5 DEF o
  <1> HIDE DEF h
  <1>5. Typed(Cells(p, h)) /\ Cells(p, h).v = h /\ Alike(p, Cells(p, h))
    BY <1>1, <1>3, <1>4, CellsSound
  <1> QED BY <1>2, <1>4, <1>5, AlikeSteady

LEMMA ProgressedSound ==
  ASSUME NEW p, Coherent(p), p.playing
  PROVE  LET q == Progressed(p)
         IN Coherent(q) /\ Steady(p, q)
  <1> DEFINE r == FoldSet(LAMBDA c, acc : Frozen(acc, c), p, Active(p))
  <1>1. Coherent(r) /\ Steady(p, r)
    BY ProgressFoldSound
  <1>2. Progressed(p) = WatchedAnew(r)
    BY DEF Progressed
  <1> HIDE DEF r
  <1>3. Typed(WatchedAnew(r)) /\ Alike(r, WatchedAnew(r)) /\ Steady(r, WatchedAnew(r))
    BY <1>1, CoherentTyped, WatchedAnewSound
  <1>4. Coherent(WatchedAnew(r))
    BY <1>1, <1>3, CoherentTyped DEF Alike
  <1> QED BY <1>1, <1>2, <1>3, <1>4, SteadyTransitive

LEMMA FailAllSound ==
  ASSUME NEW p, Typed(p), NEW S, S \subseteq Active(p)
  PROVE  LET q == FailAll(p, S)
         IN Typed(q) /\ Steady(p, q) /\ (q.barrier = p.barrier)
  <1> DEFINE N(q) == Typed(q) /\ Steady(p, q) /\ (q.barrier = p.barrier)
             W == {q \in Pages : N(q)}
             J == [s \in SUBSET S |-> W]
             O == [z \in S \X Pages |-> Fail(z[2], z[1])]
             is(f) == f = [s \in SUBSET S |-> IF s = {} THEN p ELSE Fail(f[Rest(s)], Picked(s))]
             g == CHOOSE f : is(f)
  <1>1. FailAll(p, S) = g[S]
    BY DEF FailAll, FoldSet, MapThenFoldSet, Rest, Picked
  <1>2. S \subseteq Cameras /\ IsFiniteSet(S) /\ p \in Pages /\ N(p)
        /\ \A c \in S : p.v[c].rec \in Segments
    <2>1. p \in Pages
      BY DEF Typed
    <2>2. S \subseteq Cameras /\ IsFiniteSet(S) /\ \A c \in S : p.v[c].rec \in Segments
      BY <2>1, ActiveType, FS_Subset
    <2> QED BY <2>1, <2>2, SteadyItself
  <1>3. ASSUME NEW s \in SUBSET S, s # {}, NEW x \in W
        PROVE  Fail(x, Picked(s)) \in W /\ O[<<Picked(s), x>>] = Fail(x, Picked(s))
    <2>1. Picked(s) \in S /\ Picked(s) \in Cameras
      BY <1>2, <1>3, RestSmaller
    <2>2. N(x) /\ x \in Pages
      OBVIOUS
    <2>3. x.v[Picked(s)].rec \in Segments
      BY <1>2, <2>1, <2>2 DEF Steady, Follows
    <2> DEFINE y == Fail(x, Picked(s))
    <2>4. Typed(y) /\ Steady(x, y) /\ (y.barrier = x.barrier)
      BY <2>1, <2>2, <2>3, FailSound
    <2> HIDE DEF y
    <2>5. N(y)
      BY <2>2, <2>4, SteadyTransitive
    <2>6. y \in W
      BY <2>5 DEF Typed
    <2>7. O[<<Picked(s), x>>] = Fail(x, Picked(s))
      BY <2>1, <2>2
    <2> QED BY <2>6, <2>7 DEF y
  <1>4. p \in W
    BY <1>2
  <1> HIDE DEF W, O
  <1>5. {} \in SUBSET S /\ \A s \in SUBSET S : J[s] = W /\ (s # {} => Rest(s) \in SUBSET S)
    BY RestSmaller
  <1> HIDE DEF J
  <1>6. PICK f : Folds(f, O, p, S) /\ \A s \in SUBSET S : f[s] \in J[s]
    <2>1. p \in J[{}]
      BY <1>4, <1>5
    <2>2. \A s \in SUBSET S : s # {} => \A x \in J[Rest(s)] : O[<<Picked(s), x>>] \in J[s]
      BY <1>3, <1>5
    <2> QED BY <1>2, <2>1, <2>2, FoldWithin
  <1>7. is(f)
    <2>1. ASSUME NEW s \in SUBSET S, s # {}
          PROVE  O[<<Picked(s), f[Rest(s)]>>] = Fail(f[Rest(s)], Picked(s))
      <3>1. f[Rest(s)] \in W
        BY <1>5, <1>6, <2>1
      <3> QED BY <1>3, <2>1, <3>1
    <2> QED BY <1>6, <2>1 DEF Folds
  <1>8. is(g)
    BY <1>7
  <1> HIDE DEF g
  <1>9. \A s \in SUBSET S : g[s] = IF s = {} THEN p ELSE Fail(g[Rest(s)], Picked(s))
    BY <1>8
  <1>10. g[S] \in W
    <2>1. g[{}] \in J[{}]
      BY <1>4, <1>5, <1>9
    <2>2. \A s \in SUBSET S : (s # {} /\ g[Rest(s)] \in J[Rest(s)]) => g[s] \in J[s]
      BY <1>3, <1>5, <1>9
    <2>3. \A s \in SUBSET S : g[s] \in J[s]
      BY <1>2, <2>1, <2>2, FoldStays
    <2> QED BY <1>5, <2>3
  <1> QED BY <1>1, <1>10 DEF W

LEMMA FinishedSound ==
  ASSUME NEW p, Typed(p)
  PROVE  LET q == Finished(p)
         IN /\ Typed(q) /\ Steady(p, q) /\ q.v = p.v
            /\ (q.barrier = p.barrier) /\ (q.timed = FALSE)
  <1>1. p \in Pages
    BY DEF Typed
  <1> DEFINE q == Finished(p)
  <1>2. /\ q \in Pages /\ q.v = p.v /\ q.transport = p.transport /\ (q.playing = p.playing)
        /\ q.time = p.time /\ (q.barrier = p.barrier) /\ (q.timed = FALSE)
    BY <1>1 DEF Finished, Pages
  <1> HIDE DEF q
  <1>3. Typed(q)
    BY <1>2 DEF Typed
  <1>4. HeldFit(p) => HeldFit(q)
    BY <1>2 DEF HeldFit, Active
  <1>5. Steady(p, q)
    BY <1>2, <1>4, FollowsItself DEF Steady, GoesOn, Lasts
  <1> QED BY <1>2, <1>3, <1>5 DEF q

\* What the deadline of a recovery leaves: a barrier without deadline only when
\* nothing is left that could be waited for.
LEMMA ExpiredSound ==
  ASSUME NEW p, Coherent(p), p.playing
  PROVE  LET q == Expired(p)
         IN Typed(q) /\ Steady(p, q) /\ (q.barrier => (q.timed \/ Active(q) = {}))
  <1> DEFINE waiting == {c \in Active(p) : Waiting(p, c)}
             failed == {c \in waiting : ~Delivering(p, c)}
             r == FailAll(p, failed)
             f == Finished(r)
  <1>1. Expired(p) = p \/ Expired(p) = Surviving(f)
    BY DEF Expired
  <1>2. failed \subseteq Active(p)
    OBVIOUS
  <1> HIDE DEF failed
  <1>3. Typed(r) /\ Steady(p, r)
    BY <1>2, CoherentTyped, FailAllSound
  <1> HIDE DEF r
  <1>4. Typed(f) /\ Steady(r, f)
    BY <1>3, FinishedSound
  <1> HIDE DEF f
  <1>5. Steady(p, f) /\ f.playing
    <2>1. Steady(p, f)
      BY <1>3, <1>4, SteadyTransitive
    <2> QED BY <2>1 DEF Steady
  <1>6. CASE Expired(p) = p
    BY <1>6, SteadyItself, CoherentTyped
  <1>7. CASE Expired(p) = Surviving(f) /\ Active(f) = {}
    BY <1>4, <1>5, <1>7 DEF Surviving
  <1>8. CASE Expired(p) = Surviving(f) /\ Active(f) # {}
    <2>1. Expired(p) = EnterBarrier(f)
      BY <1>8 DEF Surviving
    <2>2. Typed(EnterBarrier(f)) /\ Steady(f, EnterBarrier(f)) /\ EnterBarrier(f).timed
      BY <1>4, <1>5, EnterBarrierSound
    <2> QED BY <1>5, <2>1, <2>2, SteadyTransitive
  <1> QED BY <1>1, <1>6, <1>7, <1>8

\* What has ended is not looked after with the others.
LEMMA NoneEnded ==
  ASSUME NEW p, Typed(p), EndedVideos(p) = {}, NEW c \in Active(p)
  PROVE  p.v[c].data # "ended"
  BY DEF EndedVideos, Typed, CellSound, Active

LEMMA WarmSound ==
  ASSUME NEW p, Typed(p), EndedVideos(p) = {}, NEW cam, NEW how
  PROVE  LET q == Warm(p, cam, how)
         IN Typed(q) /\ Alike(p, q) /\ Steady(p, q)
  <1> DEFINE h == [c \in Cameras |-> IF c \in Active(p) THEN Warmed(p, c, IF c = cam THEN how ELSE "hold")
                                                        ELSE p.v[c]]
  <1>1. p \in Pages
    BY DEF Typed
  <1>2. CASE ~p.barrier
    BY <1>2, SteadyItself DEF Warm, Alike
  <1>3. CASE p.barrier
    <2>1. Warm(p, cam, how) = Cells(p, h)
      BY <1>3 DEF Warm, Each, Cells
    <2>2. h = [c \in Cameras |-> h[c]]
      OBVIOUS
    <2>3. ASSUME NEW c \in Cameras
          PROVE  CellSound(h[c]) /\ Follows(p.v[c], h[c]) /\ Lasts(p.v[c], h[c])
      <3> DEFINE w == IF c = cam THEN how ELSE "hold"
      <3>1. h[c] = IF c \in Active(p) THEN Warmed(p, c, w) ELSE p.v[c]
        OBVIOUS
      <3>2. CellSound(p.v[c])
        BY DEF Typed
      <3>3. c \in Active(p) => p.v[c].data # "ended"
        BY NoneEnded
      <3> HIDE DEF h, w
      <3>4. CellSound(h[c]) /\ Follows(p.v[c], h[c])
        BY <1>1, <3>1, <3>2, WarmedSound, FollowsItself
      <3>5. Lasts(p.v[c], h[c])
        BY <3>1, <3>3 DEF Lasts
      <3> QED BY <3>4, <3>5
    <2> HIDE DEF h
    <2>4. Typed(Cells(p, h)) /\ Cells(p, h).v = h /\ Alike(p, Cells(p, h))
      BY <1>1, <2>2, <2>3, CellsSound
    <2> DEFINE q == Cells(p, h)
    <2>5. Typed(q) /\ Alike(p, q) /\ \A c \in Cameras : Follows(p.v[c], q.v[c]) /\ Lasts(p.v[c], q.v[c])
      BY <2>3, <2>4
    <2> HIDE DEF q
    <2>6. Steady(p, q)
      BY <1>3, <2>5, AlikeSteady
    <2> QED BY <2>1, <2>5, <2>6 DEF q
  <1> QED BY <1>2, <1>3

LEMMA RestartedSound ==
  ASSUME NEW p, Typed(p), NEW c \in Cameras, p.v[c].rec \in Segments
  PROVE  LET q == Restarted(p, c)
         IN /\ Typed(q) /\ q.transport = p.transport /\ (q.playing = p.playing)
            /\ (q.barrier = p.barrier) /\ (q.timed = p.timed)
            /\ \A d \in Cameras : d # c => q.v[d] = p.v[d]
            /\ q.v[c].held => p.v[c].held
  <1>1. p \in Pages /\ p.v[c] \in Videos
    BY DEF Typed, CellSound
  <1>2. CASE p.v[c].restarts = MaxRestarts
    BY <1>2, FailSound DEF Restarted, Steady, Follows
  <1>3. CASE p.v[c].restarts # MaxRestarts
    <2> DEFINE o == p.v[c]
               n == p.v[c].restarts + 1
               a == Put(p, c, [o EXCEPT !.restarts = n])
               q == Put(p, c, Source(a, c))
    <2>1. o.restarts \in 0..MaxRestarts /\ MaxRestarts \in Nat
      BY <1>1 DEF Videos
    <2>2. n \in 0..MaxRestarts
      BY <1>3, <2>1
    <2>3. Restarted(p, c) = q
      BY <1>1, <1>3 DEF Restarted, Put, Pages, Videos
    <2> HIDE DEF n
    <2>4. [o EXCEPT !.restarts = n] \in Videos
      BY <1>1, <2>2 DEF Videos
    <2>5. a \in Pages
      BY <1>1, <2>4, PutType
    <2> HIDE DEF a
    <2>6. CellSound(Source(a, c)) /\ ~Source(a, c).held
      BY <2>5, SourceSound
    <2>7. /\ Typed(q) /\ Alike(p, q) /\ q.v[c] = Source(a, c)
          /\ \A d \in Cameras : d # c => q.v[d] = p.v[d]
      BY <2>6, PutSound
    <2> HIDE DEF q
    <2> QED BY <2>3, <2>6, <2>7 DEF Alike
  <1> QED BY <1>2, <1>3

LEMMA RestartFoldSound ==
  ASSUME NEW p, Typed(p), NEW S, S \subseteq Active(p)
  PROVE  LET q == FoldSet(LAMBDA c, acc : Restarted(acc, c), p, S)
         IN /\ Typed(q) /\ q.transport = p.transport /\ (q.playing = p.playing)
            /\ (q.barrier = p.barrier) /\ (q.timed = p.timed)
            /\ \A d \in Cameras : q.v[d].held => p.v[d].held
  <1> DEFINE N(q) == /\ Typed(q) /\ q.transport = p.transport /\ (q.playing = p.playing)
                     /\ (q.barrier = p.barrier) /\ (q.timed = p.timed)
                     /\ \A d \in Cameras : q.v[d].held => p.v[d].held
             L(s, q) == \A d \in Cameras : d \notin s => q.v[d] = p.v[d]
             J == [s \in SUBSET S |-> {q \in Pages : N(q) /\ L(s, q)}]
             O == [z \in S \X Pages |-> Restarted(z[2], z[1])]
             is(f) == f = [s \in SUBSET S |-> IF s = {} THEN p ELSE Restarted(f[Rest(s)], Picked(s))]
             g == CHOOSE f : is(f)
  <1>1. FoldSet(LAMBDA c, acc : Restarted(acc, c), p, S) = g[S]
    BY DEF FoldSet, MapThenFoldSet, Rest, Picked
  <1>2. S \subseteq Cameras /\ IsFiniteSet(S) /\ p \in Pages /\ N(p)
        /\ \A c \in S : p.v[c].rec \in Segments
    <2>1. p \in Pages
      BY DEF Typed
    <2>2. S \subseteq Cameras /\ IsFiniteSet(S) /\ \A c \in S : p.v[c].rec \in Segments
      BY <2>1, ActiveType, FS_Subset
    <2> QED BY <2>1, <2>2
  <1>3. ASSUME NEW s \in SUBSET S, s # {}, NEW x \in Pages, N(x), L(Rest(s), x)
        PROVE  LET y == Restarted(x, Picked(s))
               IN y \in Pages /\ N(y) /\ L(s, y) /\ O[<<Picked(s), x>>] = y
    <2>1. Picked(s) \in S /\ Picked(s) \in Cameras /\ Picked(s) \notin Rest(s) /\ s = Rest(s) \cup {Picked(s)}
      BY <1>2, <1>3, RestSmaller
    <2>2. x.v[Picked(s)].rec \in Segments
      BY <1>2, <1>3, <2>1
    <2> DEFINE y == Restarted(x, Picked(s))
    <2>3. /\ Typed(y) /\ y.transport = x.transport /\ (y.playing = x.playing)
          /\ (y.barrier = x.barrier) /\ (y.timed = x.timed)
          /\ \A d \in Cameras : d # Picked(s) => y.v[d] = x.v[d]
          /\ y.v[Picked(s)].held => x.v[Picked(s)].held
      BY <1>3, <2>1, <2>2, RestartedSound
    <2>4. O[<<Picked(s), x>>] = y
      BY <1>3, <2>1
    <2> HIDE DEF y, O
    <2>5. N(y) /\ y \in Pages
      BY <1>3, <2>3 DEF Typed
    <2>6. L(s, y)
      BY <1>3, <2>1, <2>3
    <2> QED BY <2>4, <2>5, <2>6 DEF y
  <1>4. p \in Pages /\ N(p) /\ L({}, p)
    BY <1>2
  <1> HIDE DEF O
  <1>5. /\ {} \in SUBSET S
        /\ \A s \in SUBSET S : /\ \A q : q \in J[s] <=> (q \in Pages /\ N(q) /\ L(s, q))
                               /\ s # {} => Rest(s) \in SUBSET S
    BY RestSmaller
  <1> HIDE DEF J, N, L
  <1>6. PICK f : Folds(f, O, p, S) /\ \A s \in SUBSET S : f[s] \in J[s]
    <2>1. p \in J[{}]
      BY <1>4, <1>5
    <2>2. \A s \in SUBSET S : s # {} => \A x \in J[Rest(s)] : O[<<Picked(s), x>>] \in J[s]
      BY <1>3, <1>5
    <2> QED BY <1>2, <2>1, <2>2, FoldWithin
  <1>7. is(f)
    <2>1. ASSUME NEW s \in SUBSET S, s # {}
          PROVE  O[<<Picked(s), f[Rest(s)]>>] = Restarted(f[Rest(s)], Picked(s))
      <3>1. f[Rest(s)] \in J[Rest(s)]
        BY <1>5, <1>6, <2>1
      <3> QED BY <1>3, <1>5, <2>1, <3>1
    <2> QED BY <1>6, <2>1 DEF Folds
  <1>8. is(g)
    BY <1>7
  <1> HIDE DEF g
  <1>9. \A s \in SUBSET S : g[s] = IF s = {} THEN p ELSE Restarted(g[Rest(s)], Picked(s))
    BY <1>8
  <1>10. N(g[S])
    <2>1. g[{}] \in J[{}]
      BY <1>4, <1>5, <1>9
    <2>2. \A s \in SUBSET S : (s # {} /\ g[Rest(s)] \in J[Rest(s)]) => g[s] \in J[s]
      BY <1>3, <1>5, <1>9
    <2>3. \A s \in SUBSET S : g[s] \in J[s]
      BY <1>2, <2>1, <2>2, FoldStays
    <2> QED BY <1>5, <2>3
  <1> QED BY <1>1, <1>10 DEF N

LEMMA AlignSound ==
  ASSUME NEW p, Coherent(p), p.barrier
  PROVE  LET q == Align(p)
         IN /\ Coherent(q) /\ q.barrier /\ q.playing /\ q.transport = p.transport
            /\ p.transport = "native" /\ EndedVideos(p) = {} => Steady(p, q)
            /\ \A c \in Cameras : q.v[c].held => p.v[c].held
  <1>1. Typed(p) /\ p \in Pages /\ p.playing /\ p.timed
    BY CoherentTyped DEF Typed
  <1>2. CASE p.transport = "native"
    <2> DEFINE h == [c \in Cameras |-> IF c \in Unaligned(p) THEN Sought(p, c) ELSE p.v[c]]
    <2>1. Align(p) = Cells(p, h)
      BY <1>2 DEF Align, Each, Cells
    <2>2. h = [c \in Cameras |-> h[c]]
      OBVIOUS
    <2>3. \A c \in Cameras : h[c] = p.v[c] \/ h[c] = Sought(p, c)
      OBVIOUS
    <2> HIDE DEF h
    <2>4. ASSUME NEW c \in Cameras
          PROVE  /\ CellSound(h[c]) /\ Follows(p.v[c], h[c])
                 /\ EndedVideos(p) = {} => Lasts(p.v[c], h[c])
      <3>1. CellSound(p.v[c]) /\ (p.v[c].rec = None \/ p.v[c].failed => p.v[c].data # "ended")
        BY <1>1 DEF Typed, CellSound
      <3>2. CellSound(h[c]) /\ Follows(p.v[c], h[c])
        BY <1>1, <2>3, <3>1, SoughtSound, FollowsItself
      <3>3. EndedVideos(p) = {} => p.v[c].data # "ended"
        BY <1>1, <3>1, NoneEnded DEF Active
      <3> QED BY <3>2, <3>3 DEF Lasts
    <2> DEFINE q == Cells(p, h)
    <2>5. Typed(q) /\ Alike(p, q) /\ q.v = h
      BY <1>1, <2>2, <2>4, CellsSound
    <2> HIDE DEF q
    <2>6. EndedVideos(p) = {} => Steady(p, q)
      BY <1>1, <2>4, <2>5, AlikeSteady
    <2>7. \A c \in Cameras : q.v[c].held => p.v[c].held
      BY <2>4, <2>5 DEF Follows
    <2> QED BY <1>1, <2>1, <2>5, <2>6, <2>7, CoherentTyped DEF Alike, q
  <1>3. CASE p.transport # "native"
    <2> DEFINE q == FoldSet(LAMBDA c, acc : Restarted(acc, c), p, Unaligned(p))
               b == [q EXCEPT !.barrier = FALSE]
    <2>1. Align(p) = q \/ Align(p) = EnterBarrier(b)
      BY <1>3 DEF Align
    <2>2. /\ Typed(q) /\ q.transport = p.transport /\ (q.playing = p.playing)
          /\ (q.barrier = p.barrier) /\ (q.timed = p.timed)
          /\ \A c \in Cameras : q.v[c].held => p.v[c].held
      <3>1. Unaligned(p) \subseteq Active(p)
        BY DEF Unaligned
      <3> QED BY <1>1, <3>1, RestartFoldSound
    <2> HIDE DEF q
    <2>3. b \in Pages /\ b.v = q.v /\ (b.playing = q.playing) /\ b.transport = q.transport
      BY <2>2 DEF Typed, Pages
    <2> HIDE DEF b
    <2>4. Typed(b)
      BY <2>2, <2>3 DEF Typed
    <2> DEFINE e == EnterBarrier(b)
    <2>5. Coherent(e) /\ e.barrier /\ e.playing /\ Steady(b, e)
      BY <1>1, <2>2, <2>3, <2>4, EnterBarrierSound, EnterBarrierCoherent DEF Steady
    <2> HIDE DEF e
    <2>6. e.transport = p.transport /\ \A c \in Cameras : e.v[c].held => p.v[c].held
      BY <2>2, <2>3, <2>5 DEF Steady, Follows
    <2>7. CASE Align(p) = q
      BY <1>1, <1>3, <2>2, <2>7, CoherentTyped
    <2>8. CASE Align(p) = e
      BY <1>3, <2>5, <2>6, <2>8
    <2> QED BY <2>1, <2>7, <2>8 DEF e
  <1> QED BY <1>2, <1>3

\* The page with its cells in another state.
Reshaped(p, q) ==
  /\ q.transport = p.transport /\ (q.playing = p.playing)
  /\ \A c \in Cameras : Alters(p.v[c], q.v[c])

LEMMA LeaveSound ==
  ASSUME NEW p, Typed(p)
  PROVE  LET q == Leave(p)
         IN /\ Coherent(q) /\ ~q.barrier /\ Reshaped(p, q) /\ q.time = p.time
            /\ \A c \in Cameras : /\ (q.v[c].held = p.v[c].held)
                                  /\ c \in Active(p) => q.v[c].play = "strict"
  <1> DEFINE b == [Finished(p) EXCEPT !.barrier = FALSE]
             h == [c \in Cameras |-> IF c \in Active(p) THEN [p.v[c] EXCEPT !.warming = FALSE, !.play = "strict"]
                                                        ELSE b.v[c]]
  <1>1. p \in Pages
    BY DEF Typed
  <1>2. Leave(p) = Cells(b, h)
    BY DEF Leave, Each, Cells
  <1>3. b \in Pages /\ b.v = p.v /\ b.transport = p.transport /\ (b.playing = p.playing)
        /\ b.time = p.time /\ (b.barrier = FALSE)
    BY <1>1 DEF Finished, Pages
  <1>4. h = [c \in Cameras |-> h[c]]
    OBVIOUS
  <1>5. ASSUME NEW c \in Cameras
        PROVE  /\ CellSound(h[c]) /\ Alters(p.v[c], h[c]) /\ (h[c].held = p.v[c].held)
               /\ c \in Active(p) => h[c].play = "strict"
    <2> DEFINE o == p.v[c]
               y == [o EXCEPT !.warming = FALSE, !.play = "strict"]
    <2>1. h[c] = IF c \in Active(p) THEN y ELSE o
      BY <1>3
    <2>2. CellSound(o)
      BY DEF Typed
    <2>3. o \in Videos
      BY <2>2 DEF CellSound
    <2>4. c \in Active(p) => (o.rec # None /\ ~o.failed)
      BY DEF Active
    <2> HIDE DEF o, h
    <2>5. Alters(o, o)
      BY <2>3 DEF Alters
    <2>6. c \in Active(p) => Alters(o, y) /\ (y.held = o.held) /\ y.play = "strict"
      BY <2>3, <2>4 DEF Alters, Videos
    <2> HIDE DEF y
    <2>7. Alters(o, h[c]) /\ (h[c].held = o.held) /\ (c \in Active(p) => h[c].play = "strict")
      BY <2>1, <2>5, <2>6
    <2> QED BY <2>2, <2>7, AlteredSound DEF o
  <1> HIDE DEF h, b
  <1>6. Typed(Cells(b, h)) /\ Cells(b, h).v = h /\ Alike(b, Cells(b, h))
    BY <1>3, <1>4, <1>5, CellsSound
  <1> QED BY <1>2, <1>3, <1>5, <1>6, CoherentTyped DEF Alike, Reshaped

LEMMA SynchronizedSound ==
  ASSUME NEW p, Typed(p)
  PROVE  LET q == Synchronized(p)
         IN /\ Typed(q) /\ Alike(p, q) /\ Reshaped(p, q)
            /\ \A c \in Cameras : q.v[c] # p.v[c] =>
                 /\ c \in Active(p) /\ Compared(p)
                 /\ \/ /\ Drifted(p) /\ q.v[c].held
                       /\ p.v[c].pos > Min(Positions(p)) + (Spread \div 2)
                    \/ p.v[c].held /\ ~q.v[c].held
  <1> DEFINE first == Min(Positions(p))
             leads(x) == x.pos > first + (Spread \div 2)
             caught(x) == x.pos <= first + (Spread \div 4)
             sync(x) == IF Drifted(p) /\ leads(x) THEN [x EXCEPT !.held = TRUE, !.play = "paused"]
                        ELSE IF x.held /\ (~Drifted(p) \/ caught(x))
                        THEN [Asked(x) EXCEPT !.held = FALSE]
                        ELSE x
             h == [c \in Cameras |-> IF c \in Active(p) THEN sync(p.v[c]) ELSE p.v[c]]
  <1>1. p \in Pages
    BY DEF Typed
  <1>2. Synchronized(p) = p \/ (Compared(p) /\ Synchronized(p) = Cells(p, h))
    BY DEF Synchronized, Each, Cells
  <1>3. h = [c \in Cameras |-> h[c]]
    OBVIOUS
  <1>4. ASSUME NEW c \in Cameras
        PROVE  /\ CellSound(h[c]) /\ Alters(p.v[c], h[c])
               /\ h[c] # p.v[c] =>
                    /\ c \in Active(p)
                    /\ \/ Drifted(p) /\ h[c].held /\ leads(p.v[c])
                       \/ p.v[c].held /\ ~h[c].held
    <2> DEFINE o == p.v[c]
               a == Asked(o)
               y == [o EXCEPT !.held = TRUE, !.play = "paused"]
               z == [a EXCEPT !.held = FALSE]
    <2>1. \/ h[c] = o
          \/ c \in Active(p) /\ h[c] = y /\ Drifted(p) /\ leads(o)
          \/ c \in Active(p) /\ h[c] = z /\ (o.held = TRUE)
      <3>1. p.v[c].held \in BOOLEAN
        BY <1>1 DEF Pages, Videos
      <3> QED BY <3>1
    <2>2. CellSound(o)
      BY DEF Typed
    <2>3. o \in Videos
      BY <2>2 DEF CellSound
    <2>4. c \in Active(p) => (o.rec # None /\ ~o.failed)
      BY DEF Active
    <2> HIDE DEF o, h
    <2>5. Alters(o, o) /\ Alters(o, y) /\ (y.held = TRUE)
      BY <2>3 DEF Alters, Videos
    <2>6. c \in Active(p) => Alters(o, a)
      BY <2>2, <2>4, AskedSound DEF Reshapes
    <2> HIDE DEF a, y
    <2>7. c \in Active(p) => Alters(o, z) /\ (z.held = FALSE)
      BY <2>6 DEF Alters, Videos
    <2> HIDE DEF z, leads
    <2>8. Alters(o, h[c])
      BY <2>1, <2>5, <2>7
    <2>9. h[c] # o => /\ c \in Active(p)
                      /\ \/ Drifted(p) /\ h[c].held /\ leads(o)
                         \/ o.held /\ ~h[c].held
      BY <2>1, <2>5, <2>7
    <2> QED BY <2>2, <2>8, <2>9, AlteredSound DEF o
  <1>5. \A c \in Cameras : Alters(p.v[c], p.v[c])
    BY DEF Alters, Typed, CellSound
  <1> HIDE DEF h
  <1>6. Typed(Cells(p, h)) /\ Cells(p, h).v = h /\ Alike(p, Cells(p, h))
    BY <1>1, <1>3, <1>4, CellsSound
  <1>7. CASE Synchronized(p) = p
    BY <1>5, <1>7 DEF Alike, Reshaped
  <1>8. CASE Compared(p) /\ Synchronized(p) = Cells(p, h)
    BY <1>4, <1>6, <1>8 DEF Alike, Reshaped
  <1> QED BY <1>2, <1>7, <1>8

LEMMA PositionsType ==
  ASSUME NEW p, Typed(p), Active(p) # {}
  PROVE  /\ Min(Positions(p)) \in Times /\ Max(Positions(p)) \in Times /\ Median(p) \in Times
         /\ Positions(p) # {} /\ Positions(p) \subseteq Times
  <1> DEFINE P == Positions(p)
  <1>1. p \in Pages
    BY DEF Typed
  <1>2. P # {} /\ P \subseteq Times
    BY <1>1, ActiveType DEF Positions, Pages, Videos
  <1>3. IsFiniteSet(P) /\ P \subseteq Nat
    BY <1>2, SegmentFacts, FS_Subset
  <1>4. Median(p) = (Max(P) + Min(P)) \div 2
    BY DEF Median
  <1> HIDE DEF P
  <1>5. Max(P) \in P /\ Min(P) \in P
    BY <1>2, <1>3, MaxExists, MinExists
  <1> DEFINE a == Max(P)
             b == Min(P)
  <1>6. a \in Times /\ b \in Times
    BY <1>2, <1>5
  <1>7. PICK m \in Nat : Times = 0..m
    BY SegmentFacts
  <1> HIDE DEF a, b
  <1>8. (a + b) \div 2 \in Times
    <2>1. m \in Nat /\ a \in 0..m /\ b \in 0..m
      BY <1>6, <1>7
    <2>2. (a + b) \div 2 \in 0..m
      BY ONLY <2>1
    <2> QED BY <1>7, <2>2
  <1> QED BY <1>2, <1>4, <1>6, <1>8 DEF a, b, P

LEMMA AdvancedSound ==
  ASSUME NEW p, Coherent(p)
  PROVE  LET q == Advanced(p)
         IN Coherent(q) /\ Reshaped(p, q) /\ (q.barrier = p.barrier)
  <1> DEFINE s == Synchronized(p)
  <1>1. Typed(p) /\ p \in Pages /\ p.time \in Times
    BY CoherentTyped DEF Typed, Pages
  <1>2. Typed(s) /\ Alike(p, s) /\ Reshaped(p, s)
    BY <1>1, SynchronizedSound
  <1>3. Coherent(s)
    BY <1>2, CoherentTyped DEF Alike
  <1>4. Reshaped(p, p)
    BY <1>1 DEF Reshaped, Alters, Typed, CellSound
  <1>5. CASE Active(p) = {}
    <2> DEFINE t == ByWall(p.time)
               q == [p EXCEPT !.time = t]
    <2>1. t \in Times
      BY <1>1, SegmentFacts
    <2>2. Advanced(p) = q
      BY <1>5 DEF Advanced
    <2>3. q = [p EXCEPT !.time = t]
      OBVIOUS
    <2> HIDE DEF t, q
    <2>4. /\ Coherent(q) /\ q.v = p.v /\ q.transport = p.transport /\ (q.playing = p.playing)
          /\ (q.barrier = p.barrier)
      BY <2>1, <2>3, TimeType
    <2> QED BY <1>4, <2>2, <2>4 DEF Reshaped
  <1>6. CASE Active(p) # {}
    <2> DEFINE t == IF Drifted(p) THEN Max({s.time, Min(Positions(p))}) ELSE Median(p)
               q == [s EXCEPT !.time = t]
    <2>1. Min(Positions(p)) \in Times /\ Median(p) \in Times
      BY <1>1, <1>6, PositionsType
    <2>2. Max({s.time, Min(Positions(p))}) \in Times
      <3> DEFINE D == {s.time, Min(Positions(p))}
      <3>1. D # {} /\ D \subseteq Times
        BY <1>1, <1>2, <2>1 DEF Alike
      <3> HIDE DEF D
      <3>2. IsFiniteSet(D) /\ D \subseteq Nat
        BY <3>1, SegmentFacts, FS_Subset
      <3>3. Max(D) \in D
        BY <3>1, <3>2, MaxExists
      <3> QED BY <3>1, <3>3 DEF D
    <2>3. t \in Times
      BY <2>1, <2>2
    <2>4. Advanced(p) = q
      BY <1>6 DEF Advanced
    <2>5. q = [s EXCEPT !.time = t]
      OBVIOUS
    <2> HIDE DEF t, q, s
    <2>6. /\ Coherent(q) /\ q.v = s.v /\ q.transport = s.transport /\ (q.playing = s.playing)
          /\ (q.barrier = s.barrier)
      BY <1>3, <2>3, <2>5, TimeType
    <2> QED BY <1>2, <2>4, <2>6 DEF Reshaped, Alike
  <1> QED BY <1>5, <1>6

LEMMA RunSound ==
  ASSUME NEW p, Coherent(p)
  PROVE  Coherent(Run(p))
  <1>1. Run(p) = EnterBarrier(p) \/ Run(p) = Reconcile(Advanced(p))
    BY DEF Run
  <1>2. Coherent(EnterBarrier(p))
    BY CoherentTyped, EnterBarrierCoherent
  <1>3. Coherent(Reconcile(Advanced(p)))
    BY AdvancedSound, ReconcileSound
  <1> QED BY <1>1, <1>2, <1>3

LEMMA JudgeSound ==
  ASSUME NEW p, Typed(p), p.playing, p.barrier => (p.timed \/ Active(p) = {})
  PROVE  Coherent(Judge(p))
  <1>1. Unaligned(p) \subseteq Active(p)
    BY DEF Unaligned
  <1>2. \/ Judge(p) = p /\ p.barrier /\ Active(p) # {}
        \/ Judge(p) = EnterBarrier(p)
        \/ Judge(p) = Align(p) /\ p.barrier /\ Active(p) # {}
        \/ Judge(p) = Run(Leave(p))
        \/ Judge(p) = Run(p) /\ ~p.barrier
    BY <1>1 DEF Judge
  <1>3. (~p.barrier \/ Active(p) # {}) => Coherent(p)
    BY CoherentTyped
  <1>4. Coherent(EnterBarrier(p))
    BY EnterBarrierCoherent
  <1>5. Coherent(Run(Leave(p)))
    BY LeaveSound, RunSound
  <1> QED BY <1>2, <1>3, <1>4, <1>5, AlignSound, RunSound

LEMMA ServeSound ==
  ASSUME NEW p, Typed(p), p.playing, p.barrier => (p.timed \/ Active(p) = {}), NEW cam, NEW how
  PROVE  Coherent(Serve(p, cam, how))
  <1>1. CASE EndedVideos(p) # {}
    <2> DEFINE c == CHOOSE c \in EndedVideos(p) : TRUE
    <2>1. Serve(p, cam, how) = VideoEnded(p, c)
      BY <1>1 DEF Serve
    <2>2. c \in Active(p)
      BY <1>1 DEF EndedVideos
    <2> HIDE DEF c
    <2>3. c \in Cameras /\ p.v[c].rec \in Segments /\ Coherent(p)
      BY <2>2, ActiveType, CoherentTyped DEF Typed
    <2> QED BY <2>1, <2>3, VideoEndedSound
  <1>2. CASE EndedVideos(p) = {}
    <2> DEFINE w == Warm(p, cam, how)
    <2>1. Serve(p, cam, how) = Judge(w)
      BY <1>2 DEF Serve
    <2>2. Typed(w) /\ Alike(p, w) /\ Steady(p, w)
      BY <1>2, WarmSound
    <2> HIDE DEF w
    <2>3. Active(w) \subseteq Active(p)
      BY <2>2, SteadyActive
    <2>4. w.playing /\ (w.barrier => (w.timed \/ Active(w) = {}))
      BY <2>2, <2>3 DEF Alike
    <2> QED BY <2>1, <2>2, <2>4, JudgeSound
  <1> QED BY <1>1, <1>2

LEMMA ScheduledSound ==
  ASSUME NEW p, Coherent(p)
  PROVE  LET q == Scheduled(p)
         IN /\ Coherent(q) /\ q.v = p.v /\ (q.playing = p.playing) /\ (q.barrier = p.barrier)
            /\ (q.timed = p.timed)
  <1> DEFINE q == Scheduled(p)
  <1>1. p \in Pages
    BY DEF Coherent
  <1>2. q \in Pages /\ q.v = p.v /\ (q.playing = p.playing) /\ (q.barrier = p.barrier) /\ (q.timed = p.timed)
    BY <1>1 DEF Scheduled, Pages
  <1> HIDE DEF q
  <1>3. Coherent(q)
    BY <1>2 DEF Coherent
  <1> QED BY <1>2, <1>3 DEF q

\* What a tick of a playing page finds before it looks at the sources.
LEMMA ServedSound ==
  ASSUME NEW p, Coherent(p), p.playing
  PROVE  LET q == Expired(Progressed(p))
         IN /\ Typed(q) /\ Steady(p, q) /\ q.playing
            /\ q.barrier => (q.timed \/ Active(q) = {})
  <1> DEFINE r == Progressed(p)
  <1>1. Coherent(r) /\ Steady(p, r)
    BY ProgressedSound
  <1> HIDE DEF r
  <1>2. r.playing
    BY <1>1 DEF Steady
  <1> DEFINE q == Expired(r)
  <1>3. Typed(q) /\ Steady(r, q) /\ (q.barrier => (q.timed \/ Active(q) = {}))
    BY <1>1, <1>2, ExpiredSound
  <1> HIDE DEF q
  <1>4. Steady(p, q)
    BY <1>1, <1>3, SteadyTransitive
  <1>5. q.playing
    BY <1>4 DEF Steady
  <1> QED BY <1>3, <1>4, <1>5 DEF q, r

LEMMA TickSound ==
  ASSUME NEW p, Coherent(p), p.playing, NEW cam, NEW how
  PROVE  Coherent(Tick(p, cam, how))
  BY ServedSound, ServeSound, ScheduledSound DEF Tick

-----------------------------------------------------------------------------
(* The end of the barrier *)

\* Reconcile of a page without barrier that goes on without one: no recording
\* has started, and the cells whose recordings have ended are the only others
\* that changed.
LEMMA ReconcileLeaves ==
  ASSUME NEW p, Coherent(p), NEW q, q = Reconcile(p), q.playing, ~q.barrier, NEW c \in Active(q)
  PROVE  /\ c \in Active(p) /\ (p.v[c].data = "ready" => q.v[c].data = "ready")
         /\ p.v[c].seeking \/ ~q.v[c].seeking
            \/ \E d \in Cameras : p.v[d].rec # None /\ q.v[d].rec = None
  <1> DEFINE s == Skipped(p)
             r == Render(s, Changed(s))
  <1>1. ~(~Recorded(p) /\ Later(p) = {})
    <2>1. ASSUME ~Recorded(p) /\ Later(p) = {} PROVE FALSE
      <3>1. q = Stopped(p)
        BY <2>1 DEF Reconcile
      <3> QED BY <3>1, StoppedSound, CoherentTyped
    <2> QED BY <2>1
  <1>2. q = Follow(s)
    BY <1>1 DEF Reconcile
  <1>3. Coherent(s) /\ s.v = p.v
    BY <1>1, SkippedSound
  <1> HIDE DEF s
  <1>4. CASE Changed(s) = {}
    <2>1. q = s
      BY <1>2, <1>4 DEF Follow
    <2>2. Active(q) = Active(p)
      BY <1>3, <2>1 DEF Active
    <2> QED BY <1>3, <2>1, <2>2
  <1>5. CASE Changed(s) # {}
    <2>1. Typed(s) /\ Changed(s) \subseteq Cameras
      BY <1>3, CoherentTyped DEF Changed
    <2>2. /\ Typed(r) /\ Alike(s, r)
          /\ \A d \in Changed(s) : r.v[d].rec = FindRecording(d, s.time) /\ ~Ready(r.v[d])
          /\ \A d \in Cameras \ Changed(s) :
               /\ Follows(s.v[d], r.v[d])
               /\ s.v[d].data # "ended" => r.v[d].data = s.v[d].data
      BY <2>1, RenderSound
    <2>3. q = r \/ q = EnterBarrier(r)
      BY <1>2, <1>5 DEF Follow
    <2>4. (\A d \in Changed(s) : FindRecording(d, s.time) = None) \/ q = EnterBarrier(r)
      BY <1>2, <1>5 DEF Follow
    <2> HIDE DEF r
    <2>5. q # EnterBarrier(r)
      <3>1. r.playing => EnterBarrier(r).barrier
        BY <2>2, EnterBarrierSound
      <3>2. ~r.playing => EnterBarrier(r) = r
        BY <2>2, EnterBarrierSound
      <3> QED BY <3>1, <3>2
    <2>6. q = r /\ \A d \in Changed(s) : q.v[d].rec = None
      BY <2>2, <2>3, <2>4, <2>5
    <2>7. c \in Cameras /\ c \notin Changed(s) /\ q.v[c].rec # None /\ ~q.v[c].failed
      BY <2>6 DEF Active
    <2>8. /\ q.v[c].rec = s.v[c].rec /\ ~s.v[c].failed
          /\ s.v[c].data # "ended" => q.v[c].data = s.v[c].data
      BY <2>2, <2>6, <2>7 DEF Follows
    <2>9. c \in Active(p) /\ (p.v[c].data = "ready" => q.v[c].data = "ready")
      BY <1>3, <2>7, <2>8 DEF Active
    <2>10. PICK d \in Changed(s) : TRUE
      BY <1>5
    <2>11. d \in Cameras /\ q.v[d].rec = None /\ s.v[d].rec # None
      <3>1. d \in Cameras /\ s.v[d].rec # FindRecording(d, s.time)
        BY DEF Changed
      <3>2. q.v[d].rec = FindRecording(d, s.time) /\ q.v[d].rec = None
        BY <2>2, <2>6
      <3> QED BY <3>1, <3>2
    <2> QED BY <1>3, <2>9, <2>11
  <1> QED BY <1>4, <1>5

LEMMA RunLeaves ==
  ASSUME NEW p, Coherent(p), p.playing, NEW q, q = Run(p), q.playing, ~q.barrier, NEW c \in Active(q)
  PROVE  /\ c \in Active(p) /\ (p.v[c].data = "ready" => q.v[c].data = "ready")
         /\ p.v[c].seeking \/ ~q.v[c].seeking
            \/ \E d \in Cameras : p.v[d].rec # None /\ q.v[d].rec = None
  <1> DEFINE a == Advanced(p)
  <1>1. q = Reconcile(a)
    <2>1. EnterBarrier(p).barrier
      BY CoherentTyped, EnterBarrierSound
    <2>2. q = EnterBarrier(p) \/ q = Reconcile(a)
      BY DEF Run
    <2> QED BY <2>1, <2>2
  <1>2. Coherent(a) /\ Reshaped(p, a)
    BY AdvancedSound
  <1> HIDE DEF a
  <1>3. /\ c \in Active(a) /\ (a.v[c].data = "ready" => q.v[c].data = "ready")
        /\ a.v[c].seeking \/ ~q.v[c].seeking
           \/ \E d \in Cameras : a.v[d].rec # None /\ q.v[d].rec = None
    BY <1>1, <1>2, ReconcileLeaves
  <1>4. \A d \in Cameras : /\ a.v[d].rec = p.v[d].rec /\ (a.v[d].failed = p.v[d].failed)
                           /\ a.v[d].data = p.v[d].data /\ (a.v[d].seeking = p.v[d].seeking)
    BY <1>2 DEF Reshaped, Alters
  <1>5. c \in Active(p) /\ c \in Cameras
    BY <1>3, <1>4 DEF Active
  <1> QED BY <1>3, <1>4, <1>5

\* A tick that leaves the barrier finds every source it leaves playing ready and
\* aligned, and goes on with it.
LEMMA TickLeaves ==
  ASSUME NEW p, Coherent(p), p.barrier, NEW cam, NEW how, NEW q, q = Tick(p, cam, how),
         q.playing, ~q.barrier, NEW c \in Active(q)
  PROVE  /\ c \in Active(p) /\ Ready(p.v[c]) /\ q.v[c].data = "ready"
         /\ ~Misaligned(p, c) \/ AtTail(p, c)
         /\ q.v[c].seeking => \E d \in Cameras : p.v[d].rec # None /\ q.v[d].rec = None
  <1> DEFINE e == Expired(Progressed(p))
             w == Warm(e, cam, how)
             l == Leave(w)
             f == Serve(e, cam, how)
  <1>1. p.playing /\ p.timed /\ p \in Pages
    BY DEF Coherent
  <1>2. Typed(e) /\ Steady(p, e) /\ e.playing /\ (e.barrier => (e.timed \/ Active(e) = {}))
    BY <1>1, ServedSound
  <1>3. q = Scheduled(f)
    BY DEF Tick
  <1> HIDE DEF e
  <1>4. e.barrier
    BY <1>2 DEF Steady
  <1>5. Coherent(f)
    BY <1>2, ServeSound
  <1>6. q.v = f.v /\ f.playing /\ ~f.barrier
    BY <1>3, <1>5, ScheduledSound
  <1>7. EndedVideos(e) = {}
    <2>1. ASSUME EndedVideos(e) # {} PROVE FALSE
      <3> DEFINE x == CHOOSE x \in EndedVideos(e) : TRUE
      <3>1. f = VideoEnded(e, x)
        BY <2>1 DEF Serve
      <3>2. x \in Active(e)
        BY <2>1 DEF EndedVideos
      <3> HIDE DEF x
      <3>3. x \in Cameras /\ e.v[x].rec \in Segments /\ Coherent(e)
        BY <1>2, <3>2, ActiveType, CoherentTyped DEF Typed
      <3>4. f.playing => (e.playing /\ (e.barrier => f.barrier))
        BY <3>1, <3>3, VideoEndedSound
      <3> QED BY <1>4, <1>6, <3>4
    <2> QED BY <2>1
  <1>8. f = Judge(w)
    BY <1>7 DEF Serve
  <1>9. Typed(w) /\ Alike(e, w) /\ Steady(e, w)
    BY <1>2, <1>7, WarmSound
  <1> HIDE DEF w, f
  <1>10. Steady(p, w) /\ w.playing /\ w.barrier
    <2>1. Steady(p, w)
      BY <1>2, <1>9, SteadyTransitive
    <2> QED BY <1>2, <1>4, <1>9, <2>1 DEF Alike
  <1>11. f = Run(l) /\ (\A x \in Active(w) : Ready(w.v[x])) /\ Unaligned(w) = {}
    <2>1. \/ f = w
          \/ f = Align(w) /\ Unaligned(w) # {}
          \/ f = Run(l) /\ (\A x \in Active(w) : Ready(w.v[x])) /\ Unaligned(w) = {}
      BY <1>8, <1>10 DEF Judge
    <2>2. Unaligned(w) # {} => Coherent(w)
      <3>1. Active(w) \subseteq Active(e) /\ Unaligned(w) \subseteq Active(w)
        BY <1>9, SteadyActive DEF Unaligned
      <3>2. Unaligned(w) # {} => w.timed
        BY <1>2, <1>4, <1>9, <3>1 DEF Alike
      <3> QED BY <1>9, <1>10, <3>2, CoherentTyped
    <2>3. Unaligned(w) # {} => Align(w).barrier
      BY <1>10, <2>2, AlignSound
    <2> QED BY <1>6, <1>10, <2>1, <2>3
  <1>12. Coherent(l) /\ Reshaped(w, l)
    BY <1>9, LeaveSound
  <1> HIDE DEF l
  <1>13. l.playing
    BY <1>10, <1>12 DEF Reshaped
  <1>14. c \in Active(f)
    BY <1>6 DEF Active
  <1>15. /\ c \in Active(l) /\ (l.v[c].data = "ready" => f.v[c].data = "ready")
         /\ l.v[c].seeking \/ ~f.v[c].seeking
            \/ \E d \in Cameras : l.v[d].rec # None /\ f.v[d].rec = None
    BY <1>6, <1>11, <1>12, <1>13, <1>14, RunLeaves
  <1>16. \A d \in Cameras : /\ l.v[d].rec = w.v[d].rec /\ (l.v[d].failed = w.v[d].failed)
                            /\ l.v[d].data = w.v[d].data /\ (l.v[d].seeking = w.v[d].seeking)
    BY <1>12 DEF Reshaped, Alters
  <1>17. c \in Active(w) /\ c \in Cameras
    BY <1>15, <1>16 DEF Active
  <1>18. Ready(w.v[c]) /\ (~Misaligned(w, c) \/ AtTail(w, c))
    BY <1>11, <1>17 DEF Unaligned
  <1>19. /\ Ready(p.v[c]) /\ w.v[c].pos = p.v[c].pos /\ w.v[c].rec = p.v[c].rec
         /\ w.time = p.time /\ w.transport = p.transport
         /\ Ready(e.v[c]) /\ w.v[c].data = e.v[c].data /\ (w.v[c].played = e.v[c].played)
    BY <1>2, <1>9, <1>10, <1>17, <1>18 DEF Steady, Follows
  <1>20. c \in Active(p) /\ c \in Active(e)
    BY <1>9, <1>10, <1>17, SteadyActive
  <1>21. w.v[c].data = "ready"
    <2>1. w.v[c].data \in {"ready", "ended"}
      BY <1>18 DEF Ready
    <2>2. ASSUME w.v[c].data = "ended" PROVE FALSE
      <3>1. CellSound(e.v[c])
        BY <1>2, <1>17 DEF Typed
      <3>2. e.v[c].data = "ended" /\ e.v[c].played
        BY <1>19, <2>2, <3>1 DEF CellSound
      <3> QED BY <1>7, <1>20, <3>2 DEF EndedVideos
    <2> QED BY <2>1, <2>2
  <1>22. ~Misaligned(p, c) \/ AtTail(p, c)
    BY <1>18, <1>19 DEF Misaligned, Distance, Target, AtTail
  <1>23. f.v[c].data = "ready"
    BY <1>15, <1>16, <1>17, <1>21
  <1>24. ASSUME f.v[c].seeking PROVE \E d \in Cameras : p.v[d].rec # None /\ f.v[d].rec = None
    <2>1. ~l.v[c].seeking
      BY <1>16, <1>17, <1>18 DEF Ready
    <2>2. PICK d \in Cameras : l.v[d].rec # None /\ f.v[d].rec = None
      BY <1>15, <1>24, <2>1
    <2>3. p.v[d].rec # None
      BY <1>10, <1>16, <2>2 DEF Steady, Follows
    <2> QED BY <2>2, <2>3
  <1> QED BY <1>6, <1>19, <1>20, <1>22, <1>23, <1>24

-----------------------------------------------------------------------------
(* The actions *)

\* The barrier is left and playback goes on.
Leaving == page.barrier /\ ~page'.barrier /\ page'.playing

\* What an action other than a tick does: it never takes the barrier down.
Keeps == Coherent(page') /\ ~Leaving

LEMMA SetPlaying ==
  ASSUME NEW p, Typed(p), NEW q, q = [p EXCEPT !.playing = TRUE]
  PROVE  Typed(q) /\ q.v = p.v /\ (q.playing = TRUE) /\ (q.barrier = p.barrier) /\ (q.timed = p.timed)
  <1>1. p \in Pages
    BY DEF Typed
  <1>2. q \in Pages /\ q.v = p.v /\ (q.playing = TRUE) /\ (q.barrier = p.barrier) /\ (q.timed = p.timed)
    BY <1>1 DEF Pages
  <1> QED BY <1>2 DEF Typed

\* What a tick may leave behind.
LEMMA Ticked ==
  ASSUME NEW p, NEW q, q \in Ticks(p)
  PROVE  \E cam \in Cameras, how \in Hows : q = Tick(p, cam, how)
  <1> DEFINE first == CHOOSE c \in Cameras : TRUE
  <1>1. first \in Cameras
    OBVIOUS
  <1> HIDE DEF first
  <1>2. CASE q = Tick(p, first, "hold")
    BY <1>1, <1>2 DEF Hows
  <1>3. CASE \E c \in Active(p), how \in Hows \ {"hold"} : q = Tick(p, c, how)
    BY <1>3 DEF Active
  <1> QED BY <1>2, <1>3 DEF Ticks, first

\* The first tick may leave the barrier at once, with sources that were ready.
LEMMA StartingSound ==
  ASSUME NEW p, Typed(p), Starting(p)
  PROVE  /\ Coherent(page')
         /\ (page'.playing /\ ~page'.barrier) => \A c \in Active(page') : Ready(p.v[c])
  <1> DEFINE a == [p EXCEPT !.playing = TRUE]
             b == EnterBarrier(a)
  <1>1. Typed(a) /\ a.v = p.v /\ (a.playing = TRUE)
    BY SetPlaying
  <1>2. PICK cam \in Cameras, how \in Hows : page' = Tick(b, cam, how)
    BY Ticked DEF Starting
  <1> HIDE DEF a
  <1>3. Coherent(b) /\ Steady(a, b) /\ b.barrier /\ b.playing
    BY <1>1, EnterBarrierSound, EnterBarrierCoherent DEF Steady
  <1> HIDE DEF b
  <1>4. Coherent(page')
    BY <1>2, <1>3, TickSound
  <1>5. ASSUME page'.playing, ~page'.barrier, NEW c \in Active(page') PROVE Ready(p.v[c])
    <2>1. Ready(b.v[c]) /\ c \in Active(b)
      BY <1>2, <1>3, <1>5, TickLeaves
    <2>2. c \in Cameras
      BY <2>1 DEF Active
    <2>3. Follows(a.v[c], b.v[c])
      BY <1>3, <2>2 DEF Steady
    <2> QED BY <1>1, <2>1, <2>3 DEF Follows
  <1> QED BY <1>4, <1>5

LEMMA InitSound == Init => ClockInv
  <1> SUFFICES ASSUME Init PROVE ClockInv
    OBVIOUS
  <1>1. PICK tr \in Transports, t \in {s[2] : s \in Segments} :
          page = Render([transport |-> tr, playing |-> FALSE, time |-> t,
                         barrier |-> FALSE, timed |-> FALSE, late |-> FALSE,
                         tick |-> FALSE, broken |-> {}, retried |-> {},
                         v |-> [c \in Cameras |-> Blank]], Cameras)
    BY DEF Init
  <1> DEFINE p == [transport |-> tr, playing |-> FALSE, time |-> t,
                   barrier |-> FALSE, timed |-> FALSE, late |-> FALSE,
                   tick |-> FALSE, broken |-> {}, retried |-> {},
                   v |-> [c \in Cameras |-> Blank]]
  <1>2. t \in Times
    BY SegmentFacts
  <1>3. Blank \in Videos /\ CellSound(Blank)
    BY BlankSound DEF CellSound
  <1>4. p \in Pages /\ (p.barrier = FALSE) /\ \A c \in Cameras : p.v[c] = Blank
    BY <1>2, <1>3 DEF Pages
  <1> HIDE DEF p
  <1>5. Typed(p)
    BY <1>3, <1>4 DEF Typed
  <1>6. Typed(Render(p, Cameras)) /\ Alike(p, Render(p, Cameras))
    BY <1>5, RenderSound
  <1>7. page = Render(p, Cameras)
    BY <1>1 DEF p
  <1>8. Coherent(page)
    BY <1>4, <1>6, <1>7, CoherentTyped DEF Alike
  <1>9. acts = 0 /\ faults = 0 /\ MaxActs \in Nat /\ MaxFaults \in Nat
    BY DEF Init
  <1> QED BY <1>8, <1>9 DEF ClockInv

LEMMA PlaySound == ASSUME Coherent(page), Play PROVE Keeps
  <1> DEFINE failed == {c \in Cameras : page.v[c].failed}
             gone == {c \in Cameras : page.v[c].data = "gone"}
                     \cup (IF page.transport = "mp4" THEN failed ELSE {})
             p == [Reset(page) EXCEPT !.broken = {}]
             q == IF gone # {} THEN Render(p, Cameras)
                  ELSE IF failed # {} THEN Render(p, failed \cup Changed(p)) ELSE p
             b == [q EXCEPT !.playing = TRUE]
             r == Reconcile(b)
  <1>1. /\ ~page.playing
        /\ Starting(q) \/ (r.playing /\ Starting(r)) \/ (~r.playing /\ page' = r)
    BY DEF Play, Goes
  <1>2. ~page.barrier
    BY <1>1 DEF Coherent
  <1>3. Typed(p) /\ (p.barrier = FALSE)
    <2> DEFINE z == Reset(page)
    <2>1. Coherent(z) /\ ~z.barrier
      BY CoherentTyped, ResetSound
    <2>2. z \in Pages
      BY <2>1 DEF Coherent
    <2>3. p = [z EXCEPT !.broken = {}]
      OBVIOUS
    <2> HIDE DEF z, p
    <2>4. p \in Pages /\ p.v = z.v /\ (p.barrier = z.barrier) /\ p.barrier \in BOOLEAN
      BY <2>2, <2>3 DEF Pages
    <2> QED BY <2>1, <2>4 DEF Coherent, Typed
  <1>4. failed \cup Changed(p) \subseteq Cameras
    BY DEF Changed
  <1>5. q = p \/ q = Render(p, Cameras) \/ q = Render(p, failed \cup Changed(p))
    OBVIOUS
  <1> HIDE DEF p, q, failed
  <1>6. Typed(q) /\ (q.barrier = FALSE)
    BY <1>3, <1>4, <1>5, RenderSound DEF Alike
  <1>7. Typed(b) /\ (b.barrier = FALSE)
    BY <1>6, SetPlaying
  <1> HIDE DEF b
  <1>8. Coherent(r)
    BY <1>7, CoherentTyped, ReconcileSound
  <1> HIDE DEF r
  <1>9. Coherent(page')
    BY <1>1, <1>6, <1>8, StartingSound, CoherentTyped
  <1> QED BY <1>2, <1>9 DEF Keeps, Leaving

LEMMA StopSound == ASSUME Coherent(page), Stop PROVE Keeps
  <1>1. page' = Stopped(page)
    BY DEF Stop, Goes
  <1> QED BY <1>1, CoherentTyped, StoppedSound DEF Keeps, Leaving

LEMMA SeekSound == ASSUME Coherent(page), NEW t \in Times, Seek(t) PROVE Keeps
  <1> DEFINE s == Stopped(page)
             r == Reset(s)
             p == [r EXCEPT !.time = t]
             S == IF p.transport = "mp4" THEN Cameras ELSE Changed(p)
  <1>1. page' = Render(p, S)
    BY DEF Seek, Goes
  <1>2. Coherent(s) /\ ~s.playing
    BY CoherentTyped, StoppedSound
  <1> HIDE DEF s
  <1>3. Coherent(r) /\ ~r.playing
    BY <1>2, CoherentTyped, ResetSound
  <1>4. p = [r EXCEPT !.time = t]
    OBVIOUS
  <1>5. S \subseteq Cameras
    BY DEF Changed
  <1> HIDE DEF r, p, S
  <1>6. Coherent(p) /\ ~p.playing
    BY <1>3, <1>4, TimeType
  <1>7. Typed(page') /\ Alike(p, page')
    BY <1>1, <1>5, <1>6, CoherentTyped, RenderSound
  <1>8. Coherent(page') /\ ~page'.playing
    BY <1>6, <1>7, CoherentTyped DEF Alike
  <1> QED BY <1>8 DEF Keeps, Leaving

LEMMA ReloadSound == ASSUME Coherent(page), NEW tr \in Transports, Reload(tr)
                     PROVE  Coherent(page') /\ (Leaving => Active(page') = {})
  <1> DEFINE z == Reset(page)
             reset == [z EXCEPT !.tick = FALSE]
             h == [c \in Cameras |-> IF c \in Cameras THEN [reset.v[c] EXCEPT !.play = "paused"] ELSE reset.v[c]]
             paused == Cells(reset, h)
             p == IF tr = page.transport THEN paused ELSE [paused EXCEPT !.transport = tr, !.broken = {}]
             q == Render(p, Cameras)
  <1>1. IF page.playing THEN Starting(q) ELSE page' = q
    BY DEF Reload, Each, Goes, Cells
  <1>2. Coherent(z) /\ ~z.barrier /\ (z.playing = page.playing)
    BY CoherentTyped, ResetSound
  <1>3. z \in Pages
    BY <1>2 DEF Coherent
  <1> HIDE DEF z
  <1>4. reset \in Pages /\ reset.v = z.v /\ (reset.barrier = z.barrier) /\ (reset.playing = z.playing)
    BY <1>3 DEF Pages
  <1>5. h = [c \in Cameras |-> h[c]]
    OBVIOUS
  <1> HIDE DEF reset
  <1>6. ASSUME NEW c \in Cameras PROVE CellSound(h[c])
    <2> DEFINE o == reset.v[c]
               y == [o EXCEPT !.play = "paused"]
    <2>1. h[c] = y
      OBVIOUS
    <2>2. CellSound(o)
      BY <1>2, <1>4 DEF Coherent
    <2> HIDE DEF o, h
    <2>3. Reshapes(o, y)
      BY <2>2 DEF Reshapes, Alters, Videos, CellSound
    <2> HIDE DEF y
    <2> QED BY <2>1, <2>2, <2>3, ReshapedSound
  <1> HIDE DEF h
  <1>7. Typed(paused) /\ Alike(reset, paused)
    BY <1>4, <1>5, <1>6, CellsSound
  <1> HIDE DEF paused
  <1>8. Typed(p) /\ (p.barrier = paused.barrier)
    <2>1. paused \in Pages
      BY <1>7 DEF Typed
    <2>2. p \in Pages /\ p.v = paused.v /\ (p.barrier = paused.barrier)
      BY <2>1 DEF Pages
    <2> HIDE DEF p
    <2> QED BY <1>7, <2>2 DEF Typed
  <1> HIDE DEF p
  <1>9. ~p.barrier
    BY <1>2, <1>4, <1>7, <1>8 DEF Alike
  <1>10. /\ Typed(q) /\ Alike(p, q) /\ \A c \in Cameras : ~Ready(q.v[c])
    BY <1>8, RenderSound
  <1> HIDE DEF q
  <1>11. CASE page.playing
    <2>1. /\ Coherent(page')
          /\ (page'.playing /\ ~page'.barrier) => \A c \in Active(page') : Ready(q.v[c])
      BY <1>1, <1>10, <1>11, StartingSound
    <2>2. Active(page') \subseteq Cameras
      BY DEF Active
    <2> QED BY <1>10, <2>1, <2>2 DEF Leaving
  <1>12. CASE ~page.playing
    <2>1. page' = q /\ ~page.barrier
      BY <1>1, <1>12 DEF Coherent
    <2> QED BY <1>9, <1>10, <2>1, CoherentTyped DEF Alike, Leaving
  <1> QED BY <1>11, <1>12

LEMMA PutKeeps ==
  ASSUME Coherent(page), NEW c \in Cameras, NEW y, CellSound(y)
  PROVE  /\ Coherent(Put(page, c, y)) /\ Alike(page, Put(page, c, y)) /\ Put(page, c, y).v[c] = y
         /\ page' = Put(page, c, y) => Keeps
         /\ page' = EnterBarrier(Put(page, c, y)) => Keeps
  <1> DEFINE q == Put(page, c, y)
  <1>1. Coherent(q) /\ Alike(page, q) /\ q.v[c] = y
    BY CoherentTyped, PutSound
  <1> HIDE DEF q
  <1>2. page' = q => Keeps
    BY <1>1 DEF Alike, Keeps, Leaving
  <1>3. page' = EnterBarrier(q) => Keeps
    <2>1. Coherent(EnterBarrier(q)) /\ Steady(q, EnterBarrier(q))
      BY <1>1, CoherentTyped, EnterBarrierCoherent, EnterBarrierSound
    <2> QED BY <1>1, <2>1 DEF Alike, Steady, Keeps, Leaving
  <1> QED BY <1>1, <1>2, <1>3 DEF q

\* The cell's own media: what its fields may become.
LEMMA CellFacts ==
  ASSUME Coherent(page), NEW c \in Cameras
  PROVE  /\ page \in Pages /\ page.v[c] \in Videos /\ CellSound(page.v[c])
         /\ page.v[c].rec # None => page.v[c].rec \in Segments
  BY DEF Coherent, CellSound, Videos

LEMMA ClockTickSound == ASSUME Coherent(page), ClockTick
                        PROVE  Coherent(page') /\ (Leaving => page.playing)
  <1>1. CASE page.playing
    <2>1. PICK c \in Cameras, how \in Hows : page' = Tick(page, c, how)
      BY <1>1, Ticked DEF ClockTick
    <2> QED BY <1>1, <2>1, TickSound
  <1>2. CASE ~page.playing
    <2>1. page' = [page EXCEPT !.tick = FALSE]
      BY <1>2 DEF ClockTick, Goes
    <2>2. page \in Pages
      BY DEF Coherent
    <2>3. page' \in Pages /\ page'.v = page.v /\ (page'.playing = page.playing)
          /\ (page'.barrier = page.barrier) /\ (page'.timed = page.timed)
      BY <2>1, <2>2 DEF Pages
    <2> QED BY <1>2, <2>3 DEF Coherent, Leaving
  <1> QED BY <1>1, <1>2

LEMMA RecoveryAgesSound == ASSUME Coherent(page), RecoveryAges PROVE Keeps
  <1>1. page' = [page EXCEPT !.late = TRUE]
    BY DEF RecoveryAges, Goes
  <1>2. page \in Pages
    BY DEF Coherent
  <1>3. page' \in Pages /\ page'.v = page.v /\ (page'.playing = page.playing)
        /\ (page'.barrier = page.barrier) /\ (page'.timed = page.timed)
    BY <1>1, <1>2 DEF Pages
  <1> QED BY <1>3 DEF Coherent, Keeps, Leaving

LEMMA StandsStillSound == ASSUME Coherent(page), NEW c \in Cameras, StandsStill(c) PROVE Keeps
  <1> DEFINE x == page.v[c]
             y1 == [x EXCEPT !.still = "idle"]
             y2 == [x EXCEPT !.still = "busy"]
  <1>1. page \in Pages /\ x \in Videos /\ CellSound(x)
    BY CellFacts
  <1>2. page' = Put(page, c, y1) \/ page' = Put(page, c, y2)
    BY <1>1 DEF StandsStill, Goes, Put, Pages, Videos
  <1> HIDE DEF x
  <1>3. Reshapes(x, y1) /\ Reshapes(x, y2)
    BY <1>1 DEF Reshapes, Alters, Videos
  <1> HIDE DEF y1, y2
  <1> QED BY <1>1, <1>2, <1>3, ReshapedSound, PutKeeps

LEMMA PausedReleaseSound == ASSUME Coherent(page), NEW c \in Cameras, PausedRelease(c) PROVE Keeps
  <1> DEFINE x == page.v[c]
             y == [x EXCEPT !.data = "gone", !.still = "no", !.frozen = FALSE]
  <1>1. page \in Pages /\ x \in Videos /\ CellSound(x)
    BY CellFacts
  <1>2. page' = Put(page, c, y) /\ x.rec # None /\ ~x.failed
    BY <1>1 DEF PausedRelease, Goes, Put, Active
  <1> HIDE DEF x
  <1>3. CellSound(y)
    BY <1>1, <1>2 DEF CellSound, Videos, Data
  <1> HIDE DEF y
  <1> QED BY <1>2, <1>3, PutKeeps

LEMMA MetadataSound == ASSUME Coherent(page), NEW c \in Cameras, Metadata(c) PROVE Keeps
  <1> DEFINE x == page.v[c]
             y(d) == [x EXCEPT !.data = d]
             z == [x EXCEPT !.data = "bare", !.warming = FALSE]
             p(d) == Put(page, c, y(d))
  <1>1. page \in Pages /\ x \in Videos /\ CellSound(x)
    BY CellFacts
  <1>2. /\ x.data = "loading"
        /\ \/ \E d \in {"bare", "fed"} : page' = Put(p(d), c, Sought(p(d), c))
           \/ page' = EnterBarrier(Put(page, c, z))
    <2>1. \A d : [page EXCEPT !.v[c].data = d] = p(d)
      BY <1>1 DEF Put
    <2>2. [p("bare") EXCEPT !.v[c].warming = FALSE] = Put(page, c, z)
      BY <1>1 DEF Put, Pages, Videos
    <2> HIDE DEF p
    <2> QED BY <2>1, <2>2 DEF Metadata, Goes, Put
  <1> HIDE DEF x
  <1>3. CellSound(z)
    BY <1>1, <1>2 DEF CellSound, Videos, Data
  <1>4. ASSUME NEW d \in {"bare", "fed"} PROVE CellSound(y(d))
    BY <1>1, <1>2 DEF CellSound, Videos, Data
  <1> HIDE DEF z
  <1>5. CASE page' = EnterBarrier(Put(page, c, z))
    BY <1>3, <1>5, PutKeeps
  <1>6. ASSUME NEW d \in {"bare", "fed"}, page' = Put(p(d), c, Sought(p(d), c)) PROVE Keeps
    <2> DEFINE m == y(d)
               q == p(d)
    <2>1. CellSound(m)
      BY <1>4
    <2>2. Coherent(q) /\ Alike(page, q) /\ q.v[c] = m
      <3> HIDE DEF y
      <3> QED BY <2>1, PutKeeps
    <2>3. page' = Put(q, c, Sought(q, c))
      BY <1>6
    <2> HIDE DEF m, q
    <2>4. CellSound(Sought(q, c))
      BY <2>1, <2>2, SoughtSound DEF Coherent
    <2> DEFINE r == Put(q, c, Sought(q, c))
    <2>5. Coherent(r) /\ Alike(q, r)
      BY <2>2, <2>4, PutSound, CoherentTyped
    <2> HIDE DEF r
    <2> QED BY <2>2, <2>3, <2>5 DEF r, Alike, Keeps, Leaving
  <1> QED BY <1>2, <1>5, <1>6

LEMMA DataArrivesSound == ASSUME Coherent(page), NEW c \in Cameras, DataArrives(c) PROVE Keeps
  <1> DEFINE x == page.v[c]
             d == IF Ahead(x) THEN "ready" ELSE "low"
             y == [x EXCEPT !.data = d]
  <1>1. page \in Pages /\ x \in Videos /\ CellSound(x)
    BY CellFacts
  <1>2. page' = Put(page, c, y) /\ x.data \in {"bare", "fed", "low", "dry"} /\ d \in {"low", "ready"}
    BY <1>1 DEF DataArrives, Goes, Put
  <1> HIDE DEF x, d
  <1>3. CellSound(y)
    BY <1>1, <1>2 DEF CellSound, Videos, Data
  <1> HIDE DEF y
  <1> QED BY <1>2, <1>3, PutKeeps

LEMMA DriesSound == ASSUME Coherent(page), NEW c \in Cameras, Dries(c) PROVE Keeps
  <1> DEFINE x == page.v[c]
             d == IF Ahead(x) THEN "dry" ELSE "bare"
             y == [x EXCEPT !.data = d]
  <1>1. page \in Pages /\ x \in Videos /\ CellSound(x)
    BY CellFacts
  <1>2. page' = Put(page, c, y) /\ x.data \in {"fed", "low"} /\ d \in {"bare", "dry"}
    BY <1>1 DEF Dries, Goes, Put
  <1> HIDE DEF x, d
  <1>3. CellSound(y)
    BY <1>1, <1>2 DEF CellSound, Videos, Data
  <1> HIDE DEF y
  <1> QED BY <1>2, <1>3, PutKeeps

LEMMA SeekedSound == ASSUME Coherent(page), NEW c \in Cameras, Seeked(c) PROVE Keeps
  <1> DEFINE x == page.v[c]
             y == [x EXCEPT !.seeking = FALSE, !.moved = TRUE]
             z == [x EXCEPT !.seeking = FALSE, !.data = "bare"]
  <1>1. page \in Pages /\ x \in Videos /\ CellSound(x)
    BY CellFacts
  <1>2. (page' = Put(page, c, y) \/ page' = Put(page, c, z)) /\ x.seeking
    BY <1>1 DEF Seeked, Goes, Put
  <1> HIDE DEF x
  <1>3. x.rec # None /\ ~x.failed /\ (x.play = "running" => x.played)
        /\ x.data # "ended" /\ x.pos <= x.rec[3]
    BY <1>1, <1>2 DEF CellSound
  <1>4. /\ y \in Videos /\ y.rec = x.rec /\ (y.failed = x.failed) /\ y.data = x.data
        /\ y.play = x.play /\ (y.played = x.played) /\ y.pos = x.pos
        /\ z \in Videos /\ z.rec = x.rec /\ (z.failed = x.failed) /\ z.data = "bare"
        /\ z.play = x.play /\ (z.played = x.played) /\ z.pos = x.pos
    BY <1>1 DEF Videos, Data
  <1> HIDE DEF y, z
  <1>5. CellSound(y) /\ CellSound(z)
    BY <1>3, <1>4 DEF CellSound
  <1> QED BY <1>2, <1>5, PutKeeps

LEMMA PlayingSound == ASSUME Coherent(page), NEW c \in Cameras, Playing(c) PROVE Keeps
  <1> DEFINE x == page.v[c]
             goes == ~page.barrier \/ (x.warming /\ page.transport = "native")
             to == IF goes THEN "running" ELSE "paused"
             y == [x EXCEPT !.played = TRUE, !.moved = TRUE, !.play = to]
  <1>1. page \in Pages /\ x \in Videos /\ CellSound(x)
    BY CellFacts
  <1>2. page' = Put(page, c, y) /\ x.data \in {"low", "dry", "ready"} /\ to \in {"running", "paused"}
    BY <1>1 DEF Playing, Ahead, Goes, Put
  <1> HIDE DEF x, to
  <1>3. CellSound(y)
    BY <1>1, <1>2 DEF CellSound, Videos
  <1> HIDE DEF y
  <1> QED BY <1>2, <1>3, PutKeeps

LEMMA AdvanceSound == ASSUME Coherent(page), NEW c \in Cameras, Advance(c) PROVE Keeps
  <1> DEFINE x == page.v[c]
             n == x.pos + 1
             y == [x EXCEPT !.pos = n, !.moved = TRUE]
  <1>1. page \in Pages /\ x \in Videos /\ CellSound(x) /\ (x.rec # None => x.rec \in Segments)
    BY CellFacts
  <1>2. page' = Put(page, c, y) /\ x.data \in {"low", "dry", "ready"} /\ x.pos < x.rec[3]
    BY <1>1 DEF Advance, Decoding, Ahead, Goes, Put, Pages, Videos
  <1>3. n \in Times /\ n <= x.rec[3]
    <2>1. x.rec \in Segments
      BY <1>1, <1>2 DEF CellSound
    <2>2. PICK m \in Nat : Times = 0..m
      BY SegmentFacts
    <2>3. x.pos \in 0..m /\ x.rec[3] \in 0..m
      BY <1>1, <2>1, <2>2, SegmentFacts DEF Videos
    <2> DEFINE k == x.pos
               e == x.rec[3]
    <2>4. m \in Nat /\ k \in 0..m /\ e \in 0..m /\ k < e
      BY <1>2, <2>3
    <2> HIDE DEF k, e
    <2>5. k + 1 \in 0..m /\ k + 1 <= e
      BY ONLY <2>4
    <2> QED BY <2>2, <2>5 DEF k, e
  <1> HIDE DEF x, n
  <1>4. CellSound(y)
    BY <1>1, <1>2, <1>3 DEF CellSound, Videos
  <1> HIDE DEF y
  <1> QED BY <1>2, <1>4, PutKeeps

LEMMA FinishesSound == ASSUME Coherent(page), NEW c \in Cameras, Finishes(c) PROVE Keeps
  <1> DEFINE x == page.v[c]
             y == [x EXCEPT !.data = "ended", !.play = "paused"]
             p == Put(page, c, y)
  <1>1. page \in Pages /\ x \in Videos /\ CellSound(x) /\ (x.rec # None => x.rec \in Segments)
    BY CellFacts
  <1>2. /\ page' = p \/ page' = VideoEnded(p, c)
        /\ x.data \in {"low", "dry", "ready"} /\ x.play = "running" /\ ~x.seeking
    BY <1>1 DEF Finishes, Decoding, Ahead, Goes, Put
  <1>3. x.rec \in Segments
    BY <1>1, <1>2 DEF CellSound
  <1> HIDE DEF x
  <1>4. CellSound(y) /\ y.rec = x.rec
    BY <1>1, <1>2 DEF CellSound, Videos, Data
  <1> HIDE DEF y
  <1>5. Coherent(p) /\ Alike(page, p) /\ p.v[c] = y /\ (page' = p => Keeps)
    BY <1>4, PutKeeps
  <1> HIDE DEF p
  <1>6. CASE page' = VideoEnded(p, c)
    <2>1. /\ Coherent(page')
          /\ page'.playing => (p.playing /\ (p.barrier => page'.barrier))
      BY <1>3, <1>4, <1>5, <1>6, VideoEndedSound
    <2> QED BY <1>5, <2>1 DEF Alike, Keeps, Leaving
  <1> QED BY <1>2, <1>5, <1>6

LEMMA StallsSound == ASSUME Coherent(page), NEW c \in Cameras, Stalls(c) PROVE Keeps
  <1> DEFINE x == page.v[c]
  <1>1. page \in Pages /\ x \in Videos /\ CellSound(x)
    BY CellFacts
  <1>2. PICK d \in {"bare", "low"} :
          \/ page' = Put(page, c, [x EXCEPT !.data = d])
          \/ page' = EnterBarrier(Put(page, c, [x EXCEPT !.data = d]))
    BY <1>1 DEF Stalls, Goes, Put
  <1>3. x.data = "ready"
    BY DEF Stalls
  <1> DEFINE y == [x EXCEPT !.data = d]
  <1> HIDE DEF x
  <1>4. CellSound(y)
    BY <1>1, <1>3 DEF CellSound, Videos, Data
  <1>5. page' = Put(page, c, y) \/ page' = EnterBarrier(Put(page, c, y))
    BY <1>2
  <1> HIDE DEF y
  <1> QED BY <1>4, <1>5, PutKeeps

LEMMA FreezesSound == ASSUME Coherent(page), NEW c \in Cameras, Freezes(c) PROVE Keeps
  <1> DEFINE x == page.v[c]
             y == [x EXCEPT !.frozen = TRUE]
  <1>1. page \in Pages /\ x \in Videos /\ CellSound(x)
    BY CellFacts
  <1>2. page' = Put(page, c, y)
    BY <1>1 DEF Freezes, Goes, Put
  <1> HIDE DEF x
  <1>3. Reshapes(x, y)
    BY <1>1 DEF Reshapes, Alters, Videos
  <1> HIDE DEF y
  <1> QED BY <1>1, <1>2, <1>3, ReshapedSound, PutKeeps

LEMMA ErrorSound == ASSUME Coherent(page), NEW c \in Cameras, Error(c) PROVE Keeps
  <1> DEFINE x == page.v[c]
             b == [page EXCEPT !.retried = @ \cup {x.rec}]
             p == EnterBarrier(b)
             s == Source(p, c)
             y == [s EXCEPT !.warming = TRUE]
  <1>1. page \in Pages /\ x \in Videos /\ CellSound(x) /\ (x.rec # None => x.rec \in Segments)
    BY CellFacts
  <1>2. x.rec \in Segments
    BY <1>1 DEF Error, Active
  <1>3. page' = Fail(page, c) \/ page' = Put(p, c, y)
    BY DEF Error, Goes, Put
  <1>4. CASE page' = Fail(page, c)
    <2>1. Coherent(Fail(page, c)) /\ (Fail(page, c).barrier = page.barrier)
      BY <1>2, CoherentTyped, FailSound
    <2> QED BY <1>4, <2>1 DEF Keeps, Leaving
  <1>5. CASE page' = Put(p, c, y)
    <2>1. b \in Pages /\ b.v = page.v /\ (b.barrier = page.barrier) /\ (b.playing = page.playing)
          /\ (b.timed = page.timed)
      BY <1>1, <1>2 DEF Pages
    <2> HIDE DEF b
    <2>2. Coherent(b)
      BY <2>1 DEF Coherent
    <2>3. Coherent(p) /\ Steady(b, p) /\ p \in Pages
      BY <2>2, EnterBarrierSound, EnterBarrierCoherent, CoherentTyped DEF Coherent
    <2> HIDE DEF p
    <2>4. CellSound(s)
      BY <2>3, SourceSound
    <2> HIDE DEF s
    <2>5. Reshapes(s, y)
      BY <2>4 DEF Reshapes, Alters, Videos, CellSound
    <2>6. CellSound(y)
      BY <2>4, <2>5, ReshapedSound
    <2> HIDE DEF y
    <2> DEFINE r == Put(p, c, y)
    <2>7. Coherent(r) /\ Alike(p, r)
      BY <2>3, <2>6, PutSound, CoherentTyped
    <2> HIDE DEF r
    <2> QED BY <1>5, <2>1, <2>3, <2>7 DEF r, Alike, Steady, Keeps, Leaving
  <1> QED BY <1>3, <1>4, <1>5

LEMMA PlayRejectedSound == ASSUME Coherent(page), NEW c \in Cameras, PlayRejected(c) PROVE Keeps
  <1> DEFINE x == page.v[c]
             y == [x EXCEPT !.play = "paused"]
  <1>1. page \in Pages /\ x \in Videos /\ CellSound(x)
    BY CellFacts
  <1>2. page' = Stopped(page) \/ page' = Put(page, c, y) \/ page' = EnterBarrier(Put(page, c, y))
    BY <1>1 DEF PlayRejected, Goes, Put
  <1> HIDE DEF x
  <1>3. Reshapes(x, y)
    BY <1>1 DEF Reshapes, Alters, Videos
  <1> HIDE DEF y
  <1>4. page' = Stopped(page) => Keeps
    BY CoherentTyped, StoppedSound DEF Keeps, Leaving
  <1> QED BY <1>1, <1>2, <1>3, <1>4, ReshapedSound, PutKeeps

-----------------------------------------------------------------------------
(* No source is forgotten *)

\* What is kept at every time; with Begun, what the clock needs outside the barrier.
Placed(p) == HeldFit(p) /\ Shown(p)
Fits(p) == Placed(p) /\ Begun(p)

LEMMA SteadyPlaced ==
  ASSUME NEW p, NEW q, Steady(p, q), Placed(p)
  PROVE  Placed(q)
  <1>1. HeldFit(q)
    BY DEF Placed, Steady
  <1>2. ASSUME Pair, q.transport = "native"
        PROVE  \/ Changed(q) = {}
               \/ /\ q.time = Max(Times)
                  /\ \/ EndedVideos(q) # {}
                     \/ \A c, d \in Active(q) : q.v[c].rec[3] = q.v[d].rec[3]
    <2>1. Changed(q) = Changed(p) /\ q.time = p.time /\ p.transport = "native"
      BY <1>2 DEF Changed, Steady, Follows
    <2>2. \/ Changed(p) = {}
          \/ /\ p.time = Max(Times)
             /\ \/ EndedVideos(p) # {}
                \/ \A c, d \in Active(p) : p.v[c].rec[3] = p.v[d].rec[3]
      BY <1>2, <2>1 DEF Placed, Shown
    <2>3. Active(q) \subseteq Active(p) /\ \A c \in Cameras : q.v[c].rec = p.v[c].rec
      BY SteadyActive DEF Steady, Follows
    <2>4. ASSUME NEW e \in EndedVideos(p)
          PROVE  EndedVideos(q) # {} \/ \A c, d \in Active(q) : c = d
      <3>1. e \in Cameras /\ p.v[e].rec # None /\ p.v[e].data = "ended" /\ p.v[e].played
        BY <2>4 DEF EndedVideos, Active
      <3>2. CASE ~q.v[e].failed
        <4>1. q.v[e].data = "ended" /\ q.v[e].played
          BY <3>1, <3>2 DEF Steady, Lasts
        <4> QED BY <2>3, <3>1, <3>2, <4>1 DEF EndedVideos, Active
      <3>3. CASE q.v[e].failed
        BY <1>2, <3>1, <3>3 DEF Pair, Active
      <3> QED BY <3>2, <3>3
    <2>5. Active(p) \subseteq Cameras
      BY DEF Active
    <2> QED BY <2>1, <2>2, <2>3, <2>4, <2>5
  <1> QED BY <1>1, <1>2 DEF Placed, Shown

LEMMA SteadyBegun ==
  ASSUME NEW p, NEW q, Steady(p, q), Begun(p)
  PROVE  Begun(q)
  <1>1. Active(q) \subseteq Active(p) /\ Active(p) \subseteq Cameras
    BY SteadyActive DEF Active
  <1>2. ASSUME q.transport = "mp4" \/ Pair, q.playing, ~q.barrier, NEW c \in Active(q)
        PROVE  LET x == q.v[c]
               IN /\ ~x.played => x.play = "strict" /\ ~x.held
                  /\ q.transport = "native" =>
                       /\ x.data # "loading"
                       /\ ~x.played => \A d \in Active(q) :
                            x.pos <= q.v[d].pos + (IF q.v[d].held THEN 0 ELSE Spread)
    <2>1. p.transport = q.transport /\ p.playing /\ ~p.barrier
      BY <1>2 DEF Steady
    <2>2. \A d \in Active(q) : /\ q.v[d].play = p.v[d].play /\ (q.v[d].played = p.v[d].played)
                               /\ (q.v[d].held = p.v[d].held) /\ q.v[d].pos = p.v[d].pos
                               /\ q.v[d].data = p.v[d].data
      BY <1>1, <1>2 DEF Steady, GoesOn, Active
    <2>3. LET x == p.v[c]
          IN /\ ~x.played => x.play = "strict" /\ ~x.held
             /\ p.transport = "native" =>
                  /\ x.data # "loading"
                  /\ ~x.played => \A d \in Active(p) :
                       x.pos <= p.v[d].pos + (IF p.v[d].held THEN 0 ELSE Spread)
      BY <1>1, <1>2, <2>1 DEF Begun
    <2> QED BY <1>1, <1>2, <2>1, <2>2, <2>3
  <1> QED BY <1>2 DEF Begun

LEMMA SteadyFits ==
  ASSUME NEW p, NEW q, Steady(p, q), Fits(p)
  PROVE  Fits(q)
  BY SteadyPlaced, SteadyBegun DEF Fits

LEMMA EnterBarrierFits ==
  ASSUME NEW p, Typed(p), Placed(p)
  PROVE  Fits(EnterBarrier(p))
  <1> DEFINE q == EnterBarrier(p)
  <1>1. Steady(p, q) /\ (p.playing => q.barrier)
    BY EnterBarrierSound
  <1> HIDE DEF q
  <1>2. Begun(q)
    BY <1>1 DEF Begun, Steady
  <1> QED BY <1>1, <1>2, SteadyPlaced DEF Fits, q

\* Handlers that leave the cells alone.
LEMMA SameCells ==
  ASSUME NEW p, NEW q, q.v = p.v, q.transport = p.transport, q.playing = p.playing, q.barrier = p.barrier
  PROVE  /\ HeldFit(p) => HeldFit(q)
         /\ Begun(p) => Begun(q)
         /\ q.time = p.time /\ Shown(p) => Shown(q)
  <1>1. Active(q) = Active(p) /\ EndedVideos(q) = EndedVideos(p)
    BY DEF Active, EndedVideos
  <1>2. q.time = p.time => Changed(q) = Changed(p)
    BY DEF Changed
  <1>3. HeldFit(p) => HeldFit(q)
    BY <1>1 DEF HeldFit
  <1>4. Begun(p) => Begun(q)
    BY <1>1 DEF Begun
  <1>5. q.time = p.time /\ Shown(p) => Shown(q)
    BY <1>1, <1>2 DEF Shown
  <1> QED BY <1>3, <1>4, <1>5

\* Handlers that leave the media alone.
LEMMA SameMedia ==
  ASSUME NEW p, NEW q, q.transport = p.transport, q.time = p.time,
         \A c \in Cameras : Alters(p.v[c], q.v[c]), Shown(p)
  PROVE  Shown(q)
  <1>1. Active(q) = Active(p) /\ \A c \in Cameras : q.v[c].rec = p.v[c].rec
    BY DEF Active, Alters
  <1>2. EndedVideos(q) = EndedVideos(p)
    BY <1>1 DEF EndedVideos, Active, Alters
  <1>3. Changed(q) = Changed(p)
    BY <1>1 DEF Changed
  <1>4. Active(p) \subseteq Cameras
    BY DEF Active
  <1> QED BY <1>1, <1>2, <1>3, <1>4 DEF Shown

LEMMA StoppedFits ==
  ASSUME NEW p, Typed(p)
  PROVE  LET q == Stopped(p)
         IN HeldFit(q) /\ Begun(q) /\ (Shown(p) => Shown(q))
  <1> DEFINE q == Stopped(p)
  <1>1. /\ ~q.playing /\ q.transport = p.transport /\ q.time = p.time
        /\ \A c \in Cameras : Alters(p.v[c], q.v[c]) /\ ~q.v[c].held
    BY StoppedSound
  <1> HIDE DEF q
  <1>2. HeldFit(q) /\ Begun(q)
    BY <1>1 DEF HeldFit, Begun
  <1>3. Shown(p) => Shown(q)
    BY <1>1, SameMedia
  <1> QED BY <1>2, <1>3 DEF q

LEMMA ResetFits ==
  ASSUME NEW p, Typed(p)
  PROVE  LET q == Reset(p)
         IN /\ \A c \in Cameras : ~q.v[c].held
            /\ Shown(p) => Shown(q)
  <1> DEFINE q == Reset(p)
  <1>1. /\ q.transport = p.transport /\ q.time = p.time
        /\ \A c \in Cameras : Alters(p.v[c], q.v[c]) /\ ~q.v[c].held
    BY ResetSound
  <1> HIDE DEF q
  <1>2. Shown(p) => Shown(q)
    BY <1>1, SameMedia
  <1> QED BY <1>1, <1>2 DEF q

\* The end of the timeline is where nobody recorded and nothing comes later.
LEMMA TimelineOver ==
  ASSUME NEW p \in Pages, ~Recorded(p), Later(p) = {}
  PROVE  p.time = Max(Times)
  <1> DEFINE m == Max(Times)
             t == p.time
  <1>1. PICK s \in Segments : s[3] = m
    BY SegmentFacts
  <1>2. s[1] \in Cameras /\ s[2] \in Nat /\ s[3] \in Nat /\ t \in Times
    BY SegmentFacts DEF Pages
  <1>3. t \in Nat /\ t <= m
    BY <1>2, EndOfTimeline, SegmentFacts
  <1>4. s[2] <= t
    <2>1. ASSUME s[2] > t PROVE FALSE
      <3>1. s \in {z \in Segments : z[2] > p.time}
        BY <2>1
      <3>2. s[2] \in Later(p)
        BY <3>1 DEF Later
      <3> QED BY <3>2
    <2> QED BY <1>2, <1>3, <2>1
  <1>5. ~(t < m)
    <2>1. ASSUME t < m PROVE FALSE
      <3> DEFINE at == {z \in Segments : z[1] = s[1] /\ z[2] <= t /\ t < z[3]}
      <3>1. s \in at
        BY <1>1, <1>4, <2>1
      <3>2. FindRecording(s[1], t) \in at
        BY <3>1 DEF FindRecording
      <3>3. FindRecording(s[1], t) # None
        BY <3>2 DEF None
      <3> QED BY <1>2, <3>3 DEF Recorded
    <2> QED BY <2>1
  <1> HIDE DEF m, t
  <1>6. t = m
    BY <1>1, <1>2, <1>3, <1>5
  <1> QED BY <1>6 DEF m, t

LEMMA RenderPlaced ==
  ASSUME NEW p, Typed(p), NEW S, S \subseteq Cameras
  PROVE  LET q == Render(p, S)
         IN /\ HeldFit(p) => HeldFit(q)
            /\ Changed(q) = Changed(p) \ S
  <1> DEFINE q == Render(p, S)
  <1>1. /\ Alike(p, q)
        /\ \A c \in S : q.v[c].rec = FindRecording(c, p.time) /\ ~q.v[c].held
        /\ \A c \in Cameras \ S : Persists(p.v[c], q.v[c])
    BY RenderSound
  <1> HIDE DEF q
  <1>2. Changed(q) = Changed(p) \ S
    BY <1>1 DEF Changed, Alike, Persists
  <1>3. HeldFit(p) => HeldFit(q)
    BY <1>1 DEF HeldFit, Alike, Persists, Active
  <1> QED BY <1>2, <1>3 DEF q

LEMMA ShownAll == ASSUME NEW p, Changed(p) = {} PROVE Shown(p)
  BY DEF Shown

LEMMA FollowFits ==
  ASSUME NEW p, Coherent(p), HeldFit(p)
  PROVE  LET q == Follow(p)
         IN Placed(q) /\ (Begun(p) => Begun(q))
  <1> DEFINE S == Changed(p)
             r == Render(p, S)
  <1>1. Typed(p) /\ S \subseteq Cameras
    BY CoherentTyped DEF Changed
  <1>2. CASE Changed(p) = {}
    BY <1>2, ShownAll DEF Follow, Placed
  <1>3. CASE Changed(p) # {}
    <2>1. /\ Typed(r) /\ Alike(p, r)
          /\ \A c \in S : r.v[c].rec = FindRecording(c, p.time)
          /\ \A c \in Cameras \ S : Persists(p.v[c], r.v[c])
      BY <1>1, RenderSound
    <2>2. HeldFit(r) /\ Changed(r) = {}
      BY <1>1, RenderPlaced
    <2>3. \/ Follow(p) = EnterBarrier(r)
          \/ Follow(p) = r /\ \A c \in S : FindRecording(c, p.time) = None
      BY <1>3 DEF Follow
    <2> HIDE DEF r
    <2>4. Placed(r)
      BY <2>2, ShownAll DEF Placed
    <2>5. CASE Follow(p) = EnterBarrier(r)
      BY <2>1, <2>4, <2>5, EnterBarrierFits DEF Fits
    <2>6. CASE Follow(p) = r /\ \A c \in S : FindRecording(c, p.time) = None
      <3>1. PICK e \in S : TRUE
        BY <1>3
      <3>2. e \in Cameras /\ r.v[e].rec = None
        BY <1>1, <2>1, <2>6, <3>1
      <3>3. \A c \in Active(r) : c \in Cameras /\ c \in Active(p) /\ c # e /\ Persists(p.v[c], r.v[c])
        BY <2>1, <2>6, <3>2 DEF Active, Persists
      <3>4. ASSUME Begun(p), r.transport = "mp4" \/ Pair, r.playing, ~r.barrier, NEW c \in Active(r)
            PROVE  LET x == r.v[c]
                   IN /\ ~x.played => x.play = "strict" /\ ~x.held
                      /\ r.transport = "native" =>
                           /\ x.data # "loading"
                           /\ ~x.played => \A d \in Active(r) :
                                x.pos <= r.v[d].pos + (IF r.v[d].held THEN 0 ELSE Spread)
        <4>1. /\ ~p.v[c].played => p.v[c].play = "strict" /\ ~p.v[c].held
              /\ p.transport = "native" => p.v[c].data # "loading"
          BY <2>1, <3>3, <3>4 DEF Begun, Alike
        <4>2. /\ ~r.v[c].played => r.v[c].play = "strict" /\ ~r.v[c].held
              /\ r.transport = "native" => r.v[c].data # "loading"
          BY <2>1, <3>3, <3>4, <4>1 DEF Persists, Alike
        <4>3. ASSUME r.transport = "native", NEW d \in Active(r), ~r.v[c].played
              PROVE  r.v[c].pos <= r.v[d].pos + (IF r.v[d].held THEN 0 ELSE Spread)
          <5>1. Pair
            BY <3>4, <4>3
          <5>2. d = c
            BY <3>2, <3>3, <5>1 DEF Pair
          <5>3. r.v[c].pos \in Nat
            BY <2>1, <3>3, SegmentFacts DEF Typed, CellSound, Videos
          <5>4. Spread \in Nat
            OBVIOUS
          <5> QED BY <5>2, <5>3, <5>4
        <4> QED BY <4>2, <4>3
      <3>5. Begun(p) => Begun(r)
        BY <3>4 DEF Begun
      <3> QED BY <2>4, <2>6, <3>5
    <2> QED BY <2>3, <2>5, <2>6
  <1> QED BY <1>2, <1>3

LEMMA ReconcileFits ==
  ASSUME NEW p, Coherent(p), HeldFit(p), p.time = Max(Times) => Shown(p)
  PROVE  LET q == Reconcile(p)
         IN Placed(q) /\ (Begun(p) => Begun(q))
  <1>1. Typed(p) /\ p \in Pages
    BY CoherentTyped DEF Typed
  <1>2. CASE ~Recorded(p) /\ Later(p) = {}
    <2>1. Reconcile(p) = Stopped(p)
      BY <1>2 DEF Reconcile
    <2>2. Shown(p)
      BY <1>1, <1>2, TimelineOver
    <2> QED BY <1>1, <2>1, <2>2, StoppedFits DEF Placed
  <1>3. CASE Recorded(p) \/ Later(p) # {}
    <2> DEFINE s == Skipped(p)
    <2>1. Reconcile(p) = Follow(s)
      BY <1>3 DEF Reconcile
    <2>2. /\ Coherent(s) /\ s.v = p.v /\ s.transport = p.transport
          /\ (s.playing = p.playing) /\ (s.barrier = p.barrier)
      BY <1>3, SkippedSound
    <2> HIDE DEF s
    <2>3. HeldFit(s) /\ (Begun(p) => Begun(s))
      BY <2>2, SameCells
    <2> QED BY <2>1, <2>2, <2>3, FollowFits
  <1> QED BY <1>2, <1>3

LEMMA VideoEndedFits ==
  ASSUME NEW p, Coherent(p), Placed(p), NEW c \in Active(p), p.v[c].data = "ended"
  PROVE  LET q == VideoEnded(p, c)
         IN Placed(q) /\ (Begun(p) => Begun(q))
  <1> DEFINE o == p.v[c]
             y == [o EXCEPT !.over = TRUE]
             t == IF p.time > p.v[c].rec[3] THEN p.time ELSE p.v[c].rec[3]
             a == Put(p, c, y)
             b == [a EXCEPT !.time = t]
  <1>1. p \in Pages /\ Typed(p) /\ c \in Cameras /\ o.rec \in Segments /\ o.rec # None /\ ~o.failed
    BY CoherentTyped, ActiveType DEF Typed
  <1>2. CASE p.v[c].over
    BY <1>2 DEF VideoEnded
  <1>3. CASE ~p.v[c].over
    <2>1. CellSound(o) /\ o \in Videos /\ o.data = "ended" /\ o.played
      BY <1>1 DEF Typed, CellSound
    <2>2. t \in Times
      BY <1>1, SegmentFacts DEF Pages
    <2>3. VideoEnded(p, c) = Reconcile(b)
      BY <1>1, <1>3 DEF VideoEnded, Put, Pages, Videos
    <2> HIDE DEF o, t
    <2>4. /\ Reshapes(o, y) /\ GoesOn(o, y) /\ Lasts(o, y) /\ (y.failed = o.failed)
          /\ y.rec = o.rec /\ y.data = "ended" /\ y.played
      BY <2>1 DEF Reshapes, Alters, Videos, GoesOn, Lasts
    <2> HIDE DEF y
    <2>5. CellSound(y) /\ Follows(o, y)
      BY <2>1, <2>4, ReshapedSound
    <2>6. /\ Coherent(a) /\ Alike(p, a) /\ a.v[c] = y
          /\ \A d \in Cameras : d # c => a.v[d] = p.v[d]
      BY <1>1, <2>5, PutSound
    <2>7. b = [a EXCEPT !.time = t]
      OBVIOUS
    <2> HIDE DEF a, b
    <2>8. Steady(p, a)
      <3>1. ASSUME NEW d \in Cameras
            PROVE  /\ Follows(p.v[d], a.v[d]) /\ Lasts(p.v[d], a.v[d])
                   /\ GoesOn(p.v[d], a.v[d]) /\ (a.v[d].failed = p.v[d].failed)
        BY <2>4, <2>5, <2>6, FollowsItself DEF Lasts, GoesOn, o
      <3> QED BY <2>6, <3>1, AlikeSteady
    <2>9. HeldFit(a) /\ (Begun(p) => Begun(a))
      BY <2>8, SteadyPlaced, SteadyBegun DEF Placed
    <2>10. /\ Coherent(b) /\ b.v = a.v /\ b.transport = a.transport /\ (b.playing = a.playing)
           /\ (b.barrier = a.barrier)
      BY <2>2, <2>6, <2>7, TimeType
    <2>11. HeldFit(b) /\ (Begun(a) => Begun(b))
      BY <2>9, <2>10, SameCells
    <2>12. c \in EndedVideos(b)
      BY <1>1, <2>4, <2>6, <2>10 DEF EndedVideos, Active
    <2>13. b.time = Max(Times) => Shown(b)
      BY <2>12 DEF Shown
    <2> QED BY <2>3, <2>9, <2>10, <2>11, <2>13, ReconcileFits
  <1> QED BY <1>2, <1>3

\* The synchronization of two native sources never holds one that has not started:
\* it would have to be ahead of the other by more than the barrier leaves.
LEMMA NotLeading ==
  ASSUME NEW p, Typed(p), Pair, Drifted(p), NEW c \in Active(p), ~p.v[c].held,
         \A d \in Active(p) : p.v[c].pos <= p.v[d].pos + (IF p.v[d].held THEN 0 ELSE Spread)
  PROVE  ~(p.v[c].pos > Min(Positions(p)) + (Spread \div 2))
  <1> DEFINE lo == Min(Positions(p))
             hi == Max(Positions(p))
  <1>1. Active(p) # {} /\ Active(p) \subseteq Cameras
    BY DEF Active
  <1>2. lo \in Positions(p) /\ hi \in Positions(p) /\ Positions(p) \subseteq Nat
    <2>1. Positions(p) # {} /\ Positions(p) \subseteq Times
      BY <1>1, PositionsType
    <2>2. IsFiniteSet(Positions(p)) /\ Positions(p) \subseteq Nat
      BY <2>1, SegmentFacts, FS_Subset
    <2> QED BY <2>1, <2>2, MinExists, MaxExists
  <1>3. PICK m \in Active(p) : p.v[m].pos = lo
    BY <1>2 DEF Positions
  <1>4. PICK n \in Active(p) : p.v[n].pos = hi
    BY <1>2 DEF Positions
  <1>5. hi - lo > (IF AnyHeld(p) THEN Spread \div 2 ELSE Spread)
    BY DEF Drifted, Lag
  <1>6. lo \in Nat /\ hi \in Nat /\ Spread \in Nat /\ Spread \div 2 \in Nat /\ p.v[c].pos \in Nat
    BY <1>2 DEF Positions
  <1> HIDE DEF lo, hi
  <1>7. ASSUME p.v[c].pos > lo + (Spread \div 2) PROVE FALSE
    <2>1. c # m
      BY <1>3, <1>6, <1>7
    <2>2. CASE AnyHeld(p)
      <3>1. PICK d \in Active(p) : p.v[d].held
        BY <2>2 DEF AnyHeld
      <3>2. d = m
        BY <1>1, <2>1, <3>1 DEF Pair
      <3>3. p.v[c].pos <= lo + 0
        BY <1>3, <3>1, <3>2
      <3> QED BY <1>6, <1>7, <3>3
    <2>3. CASE ~AnyHeld(p)
      <3>1. ~p.v[m].held
        BY <2>3 DEF AnyHeld
      <3>2. p.v[c].pos <= lo + Spread
        BY <1>3, <3>1
      <3>3. hi - lo > Spread
        BY <1>5, <2>3
      <3>4. n = c
        BY <1>1, <1>3, <1>4, <1>6, <2>1, <3>3 DEF Pair
      <3> QED BY <1>4, <1>6, <3>2, <3>3, <3>4
    <2> QED BY <2>2, <2>3
  <1> QED BY <1>7 DEF lo

LEMMA SynchronizedFits ==
  ASSUME NEW p, Typed(p), p.playing, ~p.barrier, HeldFit(p), Begun(p)
  PROVE  LET s == Synchronized(p)
         IN HeldFit(s) /\ Begun(s)
  <1> DEFINE s == Synchronized(p)
             lo == Min(Positions(p))
             leads(c) == Drifted(p) /\ s.v[c].held /\ p.v[c].pos > lo + (Spread \div 2)
  <1>1. /\ Typed(s) /\ Alike(p, s) /\ Reshaped(p, s)
        /\ \A c \in Cameras : s.v[c] # p.v[c] =>
             c \in Active(p) /\ Compared(p) /\ (leads(c) \/ (p.v[c].held /\ ~s.v[c].held))
    BY SynchronizedSound
  <1> HIDE DEF s
  <1>2. Active(s) = Active(p) /\ Active(p) \subseteq Cameras
    BY <1>1 DEF Active, Reshaped, Alters
  <1>3. HeldFit(s)
    BY <1>1, <1>2 DEF HeldFit, Compared, Alike
  <1>4. ASSUME NEW c \in Active(p)
        PROVE  /\ s.v[c].pos = p.v[c].pos /\ s.v[c].data = p.v[c].data
               /\ (s.v[c].played = p.v[c].played) /\ p.v[c].pos \in Nat
    BY <1>1, <1>2, SegmentFacts DEF Reshaped, Alters, Typed, CellSound, Videos
  <1>5. Spread \in Nat
    OBVIOUS
  <1>6. ASSUME s.transport = "mp4" \/ Pair, NEW c \in Active(s)
        PROVE  LET x == s.v[c]
               IN /\ ~x.played => x.play = "strict" /\ ~x.held
                  /\ s.transport = "native" =>
                       /\ x.data # "loading"
                       /\ ~x.played => \A d \in Active(s) :
                            x.pos <= s.v[d].pos + (IF s.v[d].held THEN 0 ELSE Spread)
    <2>1. s.transport = p.transport /\ c \in Active(p)
      BY <1>1, <1>2, <1>6 DEF Alike
    <2>2. /\ ~p.v[c].played => p.v[c].play = "strict" /\ ~p.v[c].held
          /\ p.transport = "native" =>
               /\ p.v[c].data # "loading"
               /\ ~p.v[c].played => \A d \in Active(p) :
                    p.v[c].pos <= p.v[d].pos + (IF p.v[d].held THEN 0 ELSE Spread)
      BY <1>6, <2>1 DEF Begun
    <2>3. ASSUME ~p.v[c].played PROVE s.v[c] = p.v[c]
      <3>1. ASSUME s.v[c] # p.v[c] PROVE FALSE
        <4>1. Compared(p) /\ leads(c)
          BY <1>1, <1>2, <2>1, <2>2, <2>3, <3>1
        <4>2. Pair /\ p.transport = "native"
          BY <1>6, <2>1, <4>1 DEF Compared
        <4>3. ~p.v[c].held /\ \A d \in Active(p) :
                 p.v[c].pos <= p.v[d].pos + (IF p.v[d].held THEN 0 ELSE Spread)
          BY <2>2, <2>3, <4>2
        <4> QED BY <2>1, <4>1, <4>2, <4>3, NotLeading
      <3> QED BY <3>1
    <2>4. ASSUME s.transport = "native", ~p.v[c].played, NEW d \in Active(p)
          PROVE  p.v[c].pos <= p.v[d].pos + (IF s.v[d].held THEN 0 ELSE Spread)
      <3>0. Pair
        BY <1>6, <2>4
      <3>1. p.v[c].pos <= p.v[d].pos + (IF p.v[d].held THEN 0 ELSE Spread)
        BY <2>1, <2>2, <2>4
      <3>2. p.v[c].pos \in Nat /\ p.v[d].pos \in Nat
        BY <1>4, <2>1
      <3>3. CASE s.v[d].held /\ ~p.v[d].held
        <4>1. leads(d)
          BY <1>1, <1>2, <3>3
        <4>2. lo \in Positions(p)
          <5>1. Positions(p) # {} /\ Positions(p) \subseteq Times
            BY <2>1, PositionsType
          <5>2. IsFiniteSet(Positions(p)) /\ Positions(p) \subseteq Nat
            BY <5>1, SegmentFacts, FS_Subset
          <5> QED BY <5>1, <5>2, MinExists
        <4>3. PICK m \in Active(p) : p.v[m].pos = lo
          BY <4>2 DEF Positions
        <4>4. Spread \div 2 \in Nat
          BY <1>5
        <4>5. lo \in Nat
          BY <1>4, <4>3
        <4> HIDE DEF lo
        <4>6. p.v[d].pos > lo
          BY <3>2, <4>1, <4>4, <4>5
        <4>7. m = c \/ d = c
          BY <1>2, <2>1, <3>0, <4>3, <4>5, <4>6 DEF Pair
        <4> QED BY <3>2, <3>3, <4>3, <4>6, <4>7
      <3>4. CASE s.v[d].held /\ p.v[d].held
        BY <3>1, <3>4
      <3>5. CASE ~s.v[d].held
        BY <1>5, <3>1, <3>2, <3>5
      <3> QED BY <3>3, <3>4, <3>5
    <2> QED BY <1>2, <1>4, <2>1, <2>2, <2>3, <2>4
  <1>7. Begun(s)
    BY <1>6 DEF Begun
  <1> QED BY <1>3, <1>7 DEF s

\* When the sources are all at the end of the timeline, so are their recordings.
LEMMA AllAtEnd ==
  ASSUME NEW p, Typed(p), Min(Positions(p)) = Max(Times), NEW c \in Active(p)
  PROVE  p.v[c].rec[3] = Max(Times)
  <1> DEFINE P == Positions(p)
             m == Max(Times)
  <1>1. c \in Cameras /\ p.v[c].rec \in Segments /\ p.v[c].rec # None /\ ~p.v[c].failed
    BY ActiveType DEF Typed
  <1>2. p.v[c].pos \in P /\ P \subseteq Times
    BY PositionsType DEF Positions
  <1>3. IsFiniteSet(P) /\ P \subseteq Nat /\ P # {}
    BY <1>2, SegmentFacts, FS_Subset
  <1> HIDE DEF P
  <1>4. \A x \in P : Min(P) <= x
    BY <1>3, MinExists
  <1>5. m <= p.v[c].pos /\ p.v[c].pos <= p.v[c].rec[3]
    BY <1>1, <1>2, <1>4 DEF P, Typed, CellSound
  <1>6. p.v[c].rec[3] \in Times /\ p.v[c].rec[3] <= m /\ m \in Nat
    BY <1>1, SegmentFacts, EndOfTimeline
  <1>7. p.v[c].pos \in Nat /\ p.v[c].rec[3] \in Nat
    BY <1>1, <1>2, <1>3, SegmentFacts
  <1> HIDE DEF m
  <1> QED BY <1>5, <1>6, <1>7 DEF m

\* The middle of the positions is the end of the timeline only if all are there.
LEMMA MedianAtEnd ==
  ASSUME NEW p, Typed(p), Active(p) # {}, Median(p) = Max(Times)
  PROVE  Min(Positions(p)) = Max(Times)
  <1> DEFINE a == Max(Positions(p))
             b == Min(Positions(p))
             m == Max(Times)
  <1>1. a \in Times /\ b \in Times
    BY PositionsType
  <1>2. a <= m /\ b <= m /\ a \in Nat /\ b \in Nat /\ m \in Nat
    BY <1>1, EndOfTimeline, SegmentFacts
  <1>3. (a + b) \div 2 = m
    BY DEF Median
  <1> HIDE DEF a, b, m
  <1>4. b = m
    BY <1>2, <1>3
  <1> QED BY <1>4 DEF b, m

LEMMA AdvancedFits ==
  ASSUME NEW p, Coherent(p), p.playing, ~p.barrier, Fits(p)
  PROVE  LET a == Advanced(p)
         IN HeldFit(a) /\ Begun(a) /\ (a.time = Max(Times) => Shown(a))
  <1> DEFINE s == Synchronized(p)
             a == Advanced(p)
  <1>1. Typed(p) /\ p \in Pages /\ HeldFit(p) /\ Shown(p) /\ Begun(p)
    BY CoherentTyped DEF Typed, Fits, Placed
  <1>2. CASE Active(p) = {}
    <2>1. a = [p EXCEPT !.time = ByWall(p.time)]
      BY <1>2 DEF Advanced
    <2>2. a.v = p.v /\ a.transport = p.transport /\ a.playing = p.playing /\ a.barrier = p.barrier
      BY <1>1, <2>1 DEF Pages
    <2> HIDE DEF a
    <2>3. HeldFit(a) /\ Begun(a)
      BY <1>1, <2>2, SameCells
    <2>4. Active(a) = {}
      BY <1>2, <2>2 DEF Active
    <2>5. a.time = Max(Times) => Shown(a)
      BY <2>4 DEF Shown
    <2> QED BY <2>3, <2>5 DEF a
  <1>3. CASE Active(p) # {}
    <2> DEFINE t == IF Drifted(p) THEN Max({s.time, Min(Positions(p))}) ELSE Median(p)
    <2>1. a = [s EXCEPT !.time = t]
      BY <1>3 DEF Advanced
    <2>2. Typed(s) /\ Alike(p, s) /\ Reshaped(p, s)
      BY <1>1, SynchronizedSound
    <2>3. HeldFit(s) /\ Begun(s)
      BY <1>1, SynchronizedFits
    <2> HIDE DEF s
    <2>4. s \in Pages
      BY <2>2 DEF Typed
    <2>5. a.v = s.v /\ a.transport = s.transport /\ a.playing = s.playing /\ a.barrier = s.barrier /\ a.time = t
      BY <2>1, <2>4 DEF Pages
    <2> HIDE DEF a
    <2>6. HeldFit(a) /\ Begun(a)
      BY <2>3, <2>5, SameCells
    <2>7. a.transport = p.transport /\ \A c \in Cameras : Alters(p.v[c], a.v[c])
      BY <2>2, <2>5 DEF Alike, Reshaped
    <2>8. ASSUME a.time = Max(Times) PROVE Shown(a)
      <3>1. CASE p.time = Max(Times)
        BY <1>1, <2>7, <2>8, <3>1, SameMedia
      <3>2. CASE p.time # Max(Times)
        <4>1. Min(Positions(p)) = Max(Times)
          <5>1. CASE Drifted(p)
            <6> DEFINE n == Min(Positions(p))
            <6>1. s.time = p.time /\ s.time \in Nat /\ n \in Nat /\ s.time \in Times /\ n \in Times
              <7>1. n \in Times /\ p.time \in Times
                BY <1>1, <1>3, PositionsType DEF Pages
              <7> QED BY <2>2, <7>1, SegmentFacts DEF Alike
            <6>2. Max({s.time, n}) = Max(Times)
              BY <2>5, <2>8, <5>1
            <6> HIDE DEF n
            <6>3. Max({s.time, n}) \in {s.time, n}
              <7>1. IsFiniteSet({s.time, n}) /\ {s.time, n} \subseteq Nat /\ {s.time, n} # {}
                <8>1. {s.time, n} \subseteq Times
                  BY <6>1
                <8>2. IsFiniteSet({s.time, n})
                  BY <8>1, SegmentFacts, FS_Subset
                <8> QED BY <6>1, <8>2
              <7> QED BY <7>1, MaxExists
            <6> QED BY <3>2, <6>1, <6>2, <6>3 DEF n
          <5>2. CASE ~Drifted(p)
            BY <1>1, <1>3, <2>5, <2>8, <5>2, MedianAtEnd
          <5> QED BY <5>1, <5>2
        <4>2. \A c \in Active(p) : p.v[c].rec[3] = Max(Times)
          BY <1>1, <4>1, AllAtEnd
        <4>3. \A c \in Active(a) : c \in Active(p) /\ a.v[c].rec = p.v[c].rec
          BY <2>7 DEF Active, Alters
        <4> QED BY <2>8, <4>2, <4>3 DEF Shown
      <3> QED BY <3>1, <3>2
    <2> QED BY <2>6, <2>8 DEF a
  <1> QED BY <1>2, <1>3

LEMMA RunFits ==
  ASSUME NEW p, Coherent(p), p.playing, ~p.barrier, Fits(p)
  PROVE  Fits(Run(p))
  <1> DEFINE a == Advanced(p)
  <1>1. Run(p) = EnterBarrier(p) \/ Run(p) = Reconcile(a)
    BY DEF Run
  <1>2. Fits(EnterBarrier(p))
    BY CoherentTyped, EnterBarrierFits DEF Fits
  <1>3. Coherent(a) /\ HeldFit(a) /\ Begun(a) /\ (a.time = Max(Times) => Shown(a))
    BY AdvancedSound, AdvancedFits
  <1> HIDE DEF a
  <1>4. Fits(Reconcile(a))
    BY <1>3, ReconcileFits DEF Fits
  <1> QED BY <1>1, <1>2, <1>4

\* The barrier leaves two sources apart by twice the tolerance at most.
LEMMA LeaveFits ==
  ASSUME NEW p, Typed(p), p.barrier, Placed(p), EndedVideos(p) = {}, Unaligned(p) = {},
         \A c \in Active(p) : Ready(p.v[c])
  PROVE  Fits(Leave(p))
  <1> DEFINE q == Leave(p)
  <1>1. /\ Coherent(q) /\ ~q.barrier /\ Reshaped(p, q) /\ q.time = p.time
        /\ \A c \in Cameras : /\ (q.v[c].held = p.v[c].held)
                              /\ c \in Active(p) => q.v[c].play = "strict"
    BY LeaveSound
  <1> HIDE DEF q
  <1>2. \A c \in Cameras : ~p.v[c].held
    BY DEF Placed, HeldFit
  <1>3. HeldFit(q)
    BY <1>1, <1>2 DEF HeldFit
  <1>4. Shown(q)
    BY <1>1, SameMedia DEF Reshaped, Placed
  <1>5. Active(q) = Active(p) /\ Active(p) \subseteq Cameras
    BY <1>1 DEF Active, Reshaped, Alters
  <1>6. ASSUME Pair, q.transport = "native", NEW c \in Active(p), NEW d \in Active(p)
        PROVE  p.v[c].pos <= p.v[d].pos + Spread
    <2>1. p.transport = "native"
      BY <1>1, <1>6 DEF Reshaped
    <2>2. \A e \in Active(p) : /\ ~Misaligned(p, e) /\ p.v[e].pos \in Nat /\ Target(p, e) \in Nat
      <3>1. \A e \in Active(p) : ~Misaligned(p, e)
        BY <2>1 DEF Unaligned, AtTail
      <3>2. \A e \in Active(p) : e \in Cameras /\ p.v[e].rec \in Segments
        BY ActiveType DEF Typed
      <3>3. \A e \in Active(p) : Target(p, e) \in Nat
        BY <3>2, TargetType, SegmentFacts DEF Typed
      <3>4. \A e \in Active(p) : p.v[e].pos \in Nat
        BY <3>2, SegmentFacts DEF Typed, CellSound, Videos
      <3> QED BY <3>1, <3>3, <3>4
    <2>3. Target(p, c) = Target(p, d)
      <3>1. CASE Changed(p) = {}
        <4>1. ASSUME NEW e \in Active(p) PROVE Target(p, e) = p.time
          <5>1. p.v[e].rec = FindRecording(e, p.time) /\ p.v[e].rec # None
            BY <1>5, <3>1 DEF Changed, Active
          <5>2. p.time < p.v[e].rec[3]
            BY <5>1, FindFacts
          <5> QED BY <5>2 DEF Target
        <4> QED BY <4>1
      <3>2. CASE Changed(p) # {}
        BY <1>6, <2>1, <3>2 DEF Placed, Shown, Target
      <3> QED BY <3>1, <3>2
    <2> DEFINE t == Target(p, c)
               x == p.v[c].pos
               y == p.v[d].pos
    <2>4. /\ x \in Nat /\ y \in Nat /\ t \in Nat
          /\ ~((IF x > t THEN x - t ELSE t - x) > Tolerance)
          /\ ~((IF y > t THEN y - t ELSE t - y) > Tolerance)
      BY <2>2, <2>3 DEF Misaligned, Distance
    <2> HIDE DEF t, x, y
    <2>5. Tolerance \in Nat /\ Spread \in Nat /\ 2 * Tolerance <= Spread
      OBVIOUS
    <2>6. x <= y + Spread
      BY ONLY <2>4, <2>5
    <2> QED BY <2>6 DEF x, y
  <1>7. \A c \in Active(p) : /\ q.v[c].pos = p.v[c].pos /\ q.v[c].data = p.v[c].data
                             /\ q.v[c].play = "strict" /\ ~q.v[c].held /\ p.v[c].data # "loading"
    BY <1>1, <1>2, <1>5 DEF Reshaped, Alters, Ready
  <1>8. Begun(q)
    BY <1>5, <1>6, <1>7 DEF Begun
  <1> QED BY <1>3, <1>4, <1>8 DEF Fits, Placed, q

LEMMA AlignFits ==
  ASSUME NEW p, Coherent(p), p.barrier, Placed(p), EndedVideos(p) = {}
  PROVE  Fits(Align(p))
  <1> DEFINE q == Align(p)
  <1>1. /\ q.barrier /\ q.transport = p.transport
        /\ p.transport = "native" => Steady(p, q)
        /\ \A c \in Cameras : q.v[c].held => p.v[c].held
    BY AlignSound
  <1> HIDE DEF q
  <1>2. HeldFit(q)
    BY <1>1 DEF Placed, HeldFit
  <1>3. Shown(q)
    <2>1. CASE p.transport = "native"
      BY <1>1, <2>1, SteadyPlaced DEF Placed
    <2>2. CASE p.transport # "native"
      BY <1>1, <2>2 DEF Shown
    <2> QED BY <2>1, <2>2
  <1>4. Begun(q)
    BY <1>1 DEF Begun
  <1> QED BY <1>2, <1>3, <1>4 DEF Fits, Placed, q

LEMMA JudgeFits ==
  ASSUME NEW p, Typed(p), p.playing, p.barrier => (p.timed \/ Active(p) = {}), Fits(p), EndedVideos(p) = {}
  PROVE  Fits(Judge(p))
  <1>1. Unaligned(p) \subseteq Active(p)
    BY DEF Unaligned
  <1>2. \/ Judge(p) = p
        \/ Judge(p) = EnterBarrier(p)
        \/ Judge(p) = Align(p) /\ p.barrier /\ Active(p) # {}
        \/ /\ Judge(p) = Run(Leave(p)) /\ p.barrier /\ Unaligned(p) = {}
           /\ \A c \in Active(p) : Ready(p.v[c])
        \/ Judge(p) = Run(p) /\ ~p.barrier
    BY <1>1 DEF Judge
  <1>3. (~p.barrier \/ Active(p) # {}) => Coherent(p)
    BY CoherentTyped
  <1>4. Fits(EnterBarrier(p))
    BY EnterBarrierFits DEF Fits
  <1>5. CASE p.barrier /\ Unaligned(p) = {} /\ \A c \in Active(p) : Ready(p.v[c])
    <2> DEFINE q == Leave(p)
    <2>1. Coherent(q) /\ ~q.barrier /\ q.playing
      BY LeaveSound DEF Reshaped
    <2>2. Fits(q)
      BY <1>5, LeaveFits DEF Fits
    <2> HIDE DEF q
    <2>3. Fits(Run(q))
      BY <2>1, <2>2, RunFits
    <2> QED BY <1>2, <1>3, <1>4, <1>5, <2>3, AlignFits DEF Fits, q
  <1>6. Judge(p) = Align(p) /\ p.barrier /\ Active(p) # {} => Fits(Judge(p))
    BY <1>3, AlignFits DEF Fits
  <1>7. Judge(p) = Run(p) /\ ~p.barrier => Fits(Judge(p))
    BY <1>3, RunFits
  <1> QED BY <1>2, <1>4, <1>5, <1>6, <1>7

LEMMA ServeFits ==
  ASSUME NEW p, Typed(p), p.playing, p.barrier => (p.timed \/ Active(p) = {}), Fits(p), NEW cam, NEW how
  PROVE  Fits(Serve(p, cam, how))
  <1>1. CASE EndedVideos(p) # {}
    <2> DEFINE c == CHOOSE c \in EndedVideos(p) : TRUE
    <2>1. Serve(p, cam, how) = VideoEnded(p, c)
      BY <1>1 DEF Serve
    <2>2. c \in Active(p) /\ p.v[c].data = "ended"
      BY <1>1 DEF EndedVideos
    <2> HIDE DEF c
    <2>3. Coherent(p)
      BY <2>2, CoherentTyped
    <2> QED BY <2>1, <2>2, <2>3, VideoEndedFits DEF Fits
  <1>2. CASE EndedVideos(p) = {}
    <2> DEFINE w == Warm(p, cam, how)
    <2>1. Serve(p, cam, how) = Judge(w)
      BY <1>2 DEF Serve
    <2>2. Typed(w) /\ Alike(p, w) /\ Steady(p, w)
      BY <1>2, WarmSound
    <2> HIDE DEF w
    <2>3. Active(w) \subseteq Active(p)
      BY <2>2, SteadyActive
    <2>4. w.playing /\ (w.barrier => (w.timed \/ Active(w) = {}))
      BY <2>2, <2>3 DEF Alike
    <2>5. Fits(w)
      BY <2>2, SteadyFits
    <2>6. ASSUME NEW e \in EndedVideos(w) PROVE FALSE
      <3>1. e \in Cameras /\ e \in Active(p) /\ w.v[e].data = "ended"
        BY <2>3 DEF EndedVideos, Active
      <3>2. Ready(w.v[e])
        BY <2>2, <3>1 DEF Ready, Typed, CellSound
      <3>3. p.v[e].data = "ended"
        BY <2>2, <3>1, <3>2 DEF Steady, Follows
      <3> QED BY <1>2, <3>1, <3>3, NoneEnded
    <2>7. EndedVideos(w) = {}
      BY <2>6
    <2> QED BY <2>1, <2>2, <2>4, <2>5, <2>7, JudgeFits
  <1> QED BY <1>1, <1>2

LEMMA TickFits ==
  ASSUME NEW p, Coherent(p), p.playing, Fits(p), NEW cam, NEW how
  PROVE  Fits(Tick(p, cam, how))
  <1> DEFINE e == Expired(Progressed(p))
             s == Serve(e, cam, how)
             q == Scheduled(s)
  <1>1. Tick(p, cam, how) = q
    BY DEF Tick
  <1>2. /\ Typed(e) /\ Steady(p, e) /\ e.playing
        /\ e.barrier => (e.timed \/ Active(e) = {})
    BY ServedSound
  <1> HIDE DEF e
  <1>3. Fits(e)
    BY <1>2, SteadyFits
  <1>4. Fits(s) /\ Coherent(s)
    BY <1>2, <1>3, ServeFits, ServeSound
  <1> HIDE DEF s
  <1>5. s \in Pages
    BY <1>4 DEF Coherent
  <1>6. /\ q.v = s.v /\ q.transport = s.transport /\ (q.playing = s.playing) /\ (q.barrier = s.barrier)
        /\ q.time = s.time
    BY <1>5 DEF Scheduled, Pages
  <1> HIDE DEF q
  <1> QED BY <1>1, <1>4, <1>6, SameCells DEF Fits, Placed

LEMMA SetPlayingPlaced ==
  ASSUME NEW p, Typed(p), Placed(p), NEW q, q = [p EXCEPT !.playing = TRUE]
  PROVE  Typed(q) /\ (q.playing = TRUE) /\ (q.barrier = p.barrier) /\ Placed(q)
  <1>1. /\ Typed(q) /\ q.v = p.v /\ (q.playing = TRUE) /\ (q.barrier = p.barrier)
        /\ q.transport = p.transport /\ q.time = p.time
    <2>1. q.transport = p.transport /\ q.time = p.time
      BY DEF Typed, Pages
    <2> QED BY <2>1, SetPlaying
  <1>2. Active(q) = Active(p) /\ EndedVideos(q) = EndedVideos(p) /\ Changed(q) = Changed(p)
    BY <1>1 DEF Active, EndedVideos, Changed
  <1>3. HeldFit(q)
    BY <1>1, <1>2 DEF Placed, HeldFit
  <1>4. Shown(q)
    BY ONLY <1>1, <1>2, Placed(p) DEF Placed, Shown
  <1> QED BY <1>1, <1>3, <1>4 DEF Placed

LEMMA StartingFits ==
  ASSUME NEW p, Typed(p), Placed(p), Starting(p)
  PROVE  Fits(page')
  <1> DEFINE a == [p EXCEPT !.playing = TRUE]
             b == EnterBarrier(a)
  <1>1. Typed(a) /\ a.playing /\ Placed(a)
    BY SetPlayingPlaced
  <1>2. PICK cam \in Cameras, how \in Hows : page' = Tick(b, cam, how)
    BY Ticked DEF Starting
  <1> HIDE DEF a
  <1>3. Coherent(b) /\ b.playing
    BY <1>1, EnterBarrierSound, EnterBarrierCoherent DEF Steady
  <1>4. Fits(b)
    BY <1>1, EnterBarrierFits
  <1> HIDE DEF b
  <1> QED BY <1>2, <1>3, <1>4, TickFits

\* Actions of one source that keep its recording, and do not hold it.
LEMMA PutPlaced ==
  ASSUME NEW p, Typed(p), Placed(p), NEW c \in Cameras, NEW y, CellSound(y),
         y.rec = p.v[c].rec, y.failed = p.v[c].failed, y.held => p.v[c].held,
         p.transport = "native" /\ p.v[c].data = "ended" => y.data = "ended" /\ (y.played = p.v[c].played)
  PROVE  Placed(Put(p, c, y))
  <1> DEFINE q == Put(p, c, y)
  <1>1. Typed(q) /\ Alike(p, q) /\ q.v[c] = y /\ \A d \in Cameras : d # c => q.v[d] = p.v[d]
    BY PutSound
  <1> HIDE DEF q
  <1>2. \A d \in Cameras : q.v[d].rec = p.v[d].rec /\ (q.v[d].failed = p.v[d].failed) /\ (q.v[d].held => p.v[d].held)
    BY <1>1
  <1>3. Active(q) = Active(p) /\ Active(p) \subseteq Cameras /\ Changed(q) = Changed(p)
    BY <1>1, <1>2 DEF Active, Changed, Alike
  <1>4. HeldFit(q)
    BY <1>1, <1>2, <1>3 DEF Placed, HeldFit, Alike
  <1>5. p.transport = "native" => EndedVideos(p) \subseteq EndedVideos(q)
    <2>1. ASSUME p.transport = "native", NEW d \in EndedVideos(p) PROVE d \in EndedVideos(q)
      <3>1. d \in Active(q) /\ p.v[d].data = "ended" /\ p.v[d].played /\ d \in Cameras
        BY <1>3, <2>1 DEF EndedVideos
      <3>2. q.v[d].data = "ended" /\ q.v[d].played
        BY <1>1, <2>1, <3>1
      <3> QED BY <3>1, <3>2 DEF EndedVideos
    <2> QED BY <2>1
  <1>6. Shown(q)
    <2>1. Shown(p) /\ q.transport = p.transport /\ q.time = p.time
      BY <1>1 DEF Placed, Alike
    <2> QED BY <1>2, <1>3, <1>5, <2>1 DEF Shown
  <1> QED BY <1>4, <1>6 DEF Placed, q

LEMMA PutBegun ==
  ASSUME NEW p, Typed(p), Begun(p), NEW c \in Cameras, NEW y, CellSound(y),
         y.rec = p.v[c].rec, y.failed = p.v[c].failed, y.held = p.v[c].held,
         y.data = "loading" => p.v[c].data = "loading", y.pos >= p.v[c].pos,
         y.played \/ (y.play = p.v[c].play /\ (y.played = p.v[c].played) /\ y.pos = p.v[c].pos)
  PROVE  Begun(Put(p, c, y))
  <1> DEFINE q == Put(p, c, y)
  <1>1. Typed(q) /\ Alike(p, q) /\ q.v[c] = y /\ \A d \in Cameras : d # c => q.v[d] = p.v[d]
    BY PutSound
  <1> HIDE DEF q
  <1>2. Active(q) = Active(p) /\ Active(p) \subseteq Cameras
    BY <1>1 DEF Active, Alike
  <1>3. \A d \in Cameras : /\ (q.v[d].held = p.v[d].held) /\ q.v[d].pos >= p.v[d].pos
                           /\ q.v[d].pos \in Nat /\ p.v[d].pos \in Nat
    <2>1. \A d \in Cameras : q.v[d].pos \in Nat /\ p.v[d].pos \in Nat
      BY <1>1, SegmentFacts DEF Typed, CellSound, Videos
    <2>2. \A d \in Cameras : d = c \/ q.v[d].pos = p.v[d].pos
      BY <1>1
    <2>3. (q.v[c].held = p.v[c].held) /\ q.v[c].pos >= p.v[c].pos
      BY <1>1
    <2>4. \A d \in Cameras : (q.v[d].held = p.v[d].held)
      BY <1>1, <2>3
    <2> QED BY <2>1, <2>2, <2>3, <2>4
  <1>4. Spread \in Nat
    OBVIOUS
  <1>5. ASSUME q.transport = "mp4" \/ Pair, q.playing, ~q.barrier, NEW e \in Active(q)
        PROVE  LET x == q.v[e]
               IN /\ ~x.played => x.play = "strict" /\ ~x.held
                  /\ q.transport = "native" =>
                       /\ x.data # "loading"
                       /\ ~x.played => \A d \in Active(q) :
                            x.pos <= q.v[d].pos + (IF q.v[d].held THEN 0 ELSE Spread)
    <2>1. e \in Active(p) /\ e \in Cameras /\ q.transport = p.transport
      BY <1>1, <1>2, <1>5 DEF Alike
    <2>2. /\ ~p.v[e].played => p.v[e].play = "strict" /\ ~p.v[e].held
          /\ p.transport = "native" =>
               /\ p.v[e].data # "loading"
               /\ ~p.v[e].played => \A d \in Active(p) :
                    p.v[e].pos <= p.v[d].pos + (IF p.v[d].held THEN 0 ELSE Spread)
      BY <1>1, <1>5, <2>1 DEF Begun, Alike
    <2>3. ~q.v[e].played => /\ ~p.v[e].played /\ q.v[e].play = p.v[e].play
                            /\ q.v[e].pos = p.v[e].pos
      BY <1>1, <2>1
    <2>4. q.v[e].data = "loading" => p.v[e].data = "loading"
      BY <1>1, <2>1
    <2>5. ASSUME q.transport = "native", ~q.v[e].played, NEW d \in Active(q)
          PROVE  q.v[e].pos <= q.v[d].pos + (IF q.v[d].held THEN 0 ELSE Spread)
      <3>1. d \in Cameras /\ p.v[e].pos <= p.v[d].pos + (IF p.v[d].held THEN 0 ELSE Spread)
        BY <1>2, <2>1, <2>2, <2>3, <2>5
      <3>2. q.v[e].pos = p.v[e].pos /\ (q.v[d].held = p.v[d].held)
        BY <1>3, <2>3, <2>5, <3>1
      <3>3. q.v[d].pos >= p.v[d].pos /\ q.v[d].pos \in Nat /\ p.v[d].pos \in Nat /\ p.v[e].pos \in Nat
        BY <1>3, <2>1, <3>1
      <3> QED BY <1>4, <3>1, <3>2, <3>3
    <2> QED BY <1>3, <2>1, <2>2, <2>3, <2>4, <2>5
  <1>6. Begun(q)
    BY <1>5 DEF Begun
  <1> QED BY <1>6 DEF q

\* An action of one source, which may raise the barrier.
LEMMA PutFits ==
  ASSUME Coherent(page), Fits(page), NEW c \in Cameras, NEW y, CellSound(y),
         y.rec = page.v[c].rec, y.failed = page.v[c].failed, y.held = page.v[c].held,
         page.transport = "native" /\ page.v[c].data = "ended" => y.data = "ended" /\ (y.played = page.v[c].played)
  PROVE  /\ page' = EnterBarrier(Put(page, c, y)) => Fits(page')
         /\ page' = Put(page, c, y) => Placed(page')
         /\ /\ page' = Put(page, c, y)
            /\ y.data = "loading" => page.v[c].data = "loading"
            /\ y.pos >= page.v[c].pos
            /\ y.played \/ (/\ y.play = page.v[c].play /\ (y.played = page.v[c].played)
                            /\ y.pos = page.v[c].pos)
            => Fits(page')
  <1>1. Typed(page) /\ Placed(page) /\ Begun(page)
    BY CoherentTyped DEF Fits
  <1>2. Placed(Put(page, c, y)) /\ Typed(Put(page, c, y))
    BY <1>1, PutPlaced, PutSound
  <1>3. Fits(EnterBarrier(Put(page, c, y)))
    BY <1>2, EnterBarrierFits
  <1>4. /\ y.data = "loading" => page.v[c].data = "loading"
        /\ y.pos >= page.v[c].pos
        /\ y.played \/ (/\ y.play = page.v[c].play /\ (y.played = page.v[c].played)
                        /\ y.pos = page.v[c].pos)
        => Begun(Put(page, c, y))
    BY <1>1, PutBegun
  <1> QED BY <1>2, <1>3, <1>4 DEF Fits

LEMMA StandsStillFits == ASSUME Coherent(page), Fits(page), NEW c \in Cameras, StandsStill(c) PROVE Fits(page')
  <1> DEFINE x == page.v[c]
             y1 == [x EXCEPT !.still = "idle"]
             y2 == [x EXCEPT !.still = "busy"]
  <1>1. page \in Pages /\ x \in Videos /\ CellSound(x)
    BY CellFacts
  <1>2. page' = Put(page, c, y1) \/ page' = Put(page, c, y2)
    BY <1>1 DEF StandsStill, Goes, Put, Pages, Videos
  <1> HIDE DEF x
  <1>3. /\ Reshapes(x, y1) /\ (y1.held = x.held) /\ y1.play = x.play
        /\ Reshapes(x, y2) /\ (y2.held = x.held) /\ y2.play = x.play
    BY <1>1 DEF Reshapes, Alters, Videos
  <1> HIDE DEF y1, y2
  <1>4. x.pos \in Nat
    BY <1>1, SegmentFacts DEF Videos
  <1>5. ASSUME NEW y, Reshapes(x, y), y.held = x.held, y.play = x.play, page' = Put(page, c, y) PROVE Fits(page')
    <2>1. CellSound(y)
      BY <1>1, <1>5, ReshapedSound
    <2>2. y.pos >= x.pos
      BY <1>4, <1>5 DEF Reshapes, Alters
    <2> QED BY <1>5, <2>1, <2>2, PutFits DEF x, Reshapes, Alters
  <1> QED BY <1>2, <1>3, <1>5

LEMMA PausedReleaseFits == ASSUME Coherent(page), Fits(page), NEW c \in Cameras, PausedRelease(c) PROVE Fits(page')
  <1> DEFINE x == page.v[c]
             y == [x EXCEPT !.data = "gone", !.still = "no", !.frozen = FALSE]
  <1>1. page \in Pages /\ x \in Videos /\ CellSound(x)
    BY CellFacts
  <1>2. page' = Put(page, c, y) /\ x.rec # None /\ ~x.failed /\ page.transport = "mp4" /\ ~page.playing
    BY <1>1 DEF PausedRelease, Goes, Put, Active
  <1> HIDE DEF x
  <1>3. CellSound(y)
    BY <1>1, <1>2 DEF CellSound, Videos, Data
  <1>4. y.rec = x.rec /\ (y.failed = x.failed) /\ (y.held = x.held)
    BY <1>1 DEF Videos
  <1> HIDE DEF y
  <1>5. Placed(page')
    BY <1>2, <1>3, <1>4, PutFits DEF x
  <1>6. ~page'.playing
    BY <1>2, <1>3, PutKeeps DEF Alike
  <1> QED BY <1>5, <1>6 DEF Fits, Begun

LEMMA MetadataFits == ASSUME Coherent(page), Fits(page), NEW c \in Cameras, Metadata(c) PROVE Fits(page')
  <1> DEFINE x == page.v[c]
             y(d) == [x EXCEPT !.data = d]
             z == [x EXCEPT !.data = "bare", !.warming = FALSE]
             p(d) == Put(page, c, y(d))
  <1>1. page \in Pages /\ x \in Videos /\ CellSound(x)
    BY CellFacts
  <1>2. /\ x.data = "loading"
        /\ \/ page.transport = "native" /\ \E d \in {"bare", "fed"} : page' = Put(p(d), c, Sought(p(d), c))
           \/ page' = EnterBarrier(Put(page, c, z))
    <2>1. \A d : [page EXCEPT !.v[c].data = d] = p(d)
      BY <1>1 DEF Put
    <2>2. [p("bare") EXCEPT !.v[c].warming = FALSE] = Put(page, c, z)
      BY <1>1 DEF Put, Pages, Videos
    <2> HIDE DEF p
    <2> QED BY <2>1, <2>2 DEF Metadata, Goes, Put
  <1> HIDE DEF x
  <1>3. CellSound(z) /\ x.rec # None /\ ~x.failed
    BY <1>1, <1>2 DEF CellSound, Videos, Data
  <1>4. z.rec = x.rec /\ (z.failed = x.failed) /\ (z.held = x.held)
    BY <1>1 DEF Videos
  <1>5. ASSUME NEW d \in {"bare", "fed"}
        PROVE  /\ CellSound(y(d)) /\ y(d).data # "ended"
               /\ y(d).rec = x.rec /\ (y(d).failed = x.failed) /\ (y(d).held = x.held)
    BY <1>1, <1>2 DEF CellSound, Videos, Data
  <1> HIDE DEF z
  <1>6. CASE page' = EnterBarrier(Put(page, c, z))
    BY <1>2, <1>3, <1>4, <1>6, PutFits DEF x
  <1>7. ASSUME page.transport = "native", NEW d \in {"bare", "fed"},
               page' = Put(p(d), c, Sought(p(d), c))
        PROVE  Fits(page')
    <2> DEFINE m == y(d)
               q == p(d)
    <2>1. /\ CellSound(m) /\ m.data # "ended"
          /\ m.rec = x.rec /\ (m.failed = x.failed) /\ (m.held = x.held)
      BY <1>5
    <2>2. q = Put(page, c, m) /\ page' = Put(q, c, Sought(q, c))
      BY <1>7
    <2> HIDE DEF m, q
    <2>3. Coherent(q) /\ Typed(q) /\ Alike(page, q) /\ q.v[c] = m
      BY <2>1, <2>2, PutKeeps, CoherentTyped
    <2>4. Placed(q)
      BY <1>2, <1>3, <2>1, <2>2, CoherentTyped, PutPlaced DEF x, Fits
    <2>5. ASSUME Begun(page), Pair, page.playing, ~page.barrier PROVE FALSE
      <3>1. c \in Active(page)
        BY <1>3 DEF Active, x
      <3> QED BY <1>2, <1>7, <2>5, <3>1 DEF Begun, x
    <2> DEFINE s == Sought(q, c)
               r == Put(q, c, s)
    <2>6. CellSound(s) /\ Follows(m, s) /\ Persists(m, s)
      <3>1. q \in Pages /\ CellSound(q.v[c])
        BY <2>3 DEF Typed
      <3>2. CellSound(s) /\ Follows(q.v[c], s) /\ Persists(q.v[c], s)
        BY <3>1, SoughtSound DEF Persists, Follows
      <3> QED BY <2>3, <3>2
    <2>7. page' = r
      BY <2>2
    <2> HIDE DEF s
    <2>8. Placed(r) /\ Alike(q, r)
      BY <2>1, <2>3, <2>4, <2>6, PutPlaced, PutSound DEF Persists
    <2> HIDE DEF r
    <2>9. Begun(page')
      BY <1>7, <2>3, <2>5, <2>7, <2>8 DEF Begun, Fits, Alike
    <2> QED BY <2>7, <2>8, <2>9 DEF Fits
  <1> QED BY <1>2, <1>6, <1>7

LEMMA DataArrivesFits == ASSUME Coherent(page), Fits(page), NEW c \in Cameras, DataArrives(c) PROVE Fits(page')
  <1> DEFINE x == page.v[c]
             d == IF Ahead(x) THEN "ready" ELSE "low"
             y == [x EXCEPT !.data = d]
  <1>1. page \in Pages /\ x \in Videos /\ CellSound(x)
    BY CellFacts
  <1>2. page' = Put(page, c, y) /\ x.data \in {"bare", "fed", "low", "dry"} /\ d \in {"low", "ready"}
    BY <1>1 DEF DataArrives, Goes, Put
  <1> HIDE DEF x, d
  <1>3. CellSound(y)
    BY <1>1, <1>2 DEF CellSound, Videos, Data
  <1>4. /\ y.rec = x.rec /\ (y.failed = x.failed) /\ (y.held = x.held) /\ y.play = x.play
        /\ (y.played = x.played) /\ y.pos = x.pos /\ y.data = d
    BY <1>1 DEF Videos
  <1> HIDE DEF y
  <1>5. x.pos \in Nat
    BY <1>1, SegmentFacts DEF Videos
  <1>6. y.pos >= x.pos
    BY <1>4, <1>5
  <1>7. y.data # "loading"
    BY <1>2, <1>4
  <1> QED BY <1>2, <1>3, <1>4, <1>6, <1>7, PutFits DEF x

LEMMA DriesFits == ASSUME Coherent(page), Fits(page), NEW c \in Cameras, Dries(c) PROVE Fits(page')
  <1> DEFINE x == page.v[c]
             d == IF Ahead(x) THEN "dry" ELSE "bare"
             y == [x EXCEPT !.data = d]
  <1>1. page \in Pages /\ x \in Videos /\ CellSound(x)
    BY CellFacts
  <1>2. page' = Put(page, c, y) /\ x.data \in {"fed", "low"} /\ d \in {"bare", "dry"}
    BY <1>1 DEF Dries, Goes, Put
  <1> HIDE DEF x, d
  <1>3. CellSound(y)
    BY <1>1, <1>2 DEF CellSound, Videos, Data
  <1>4. /\ y.rec = x.rec /\ (y.failed = x.failed) /\ (y.held = x.held) /\ y.play = x.play
        /\ (y.played = x.played) /\ y.pos = x.pos /\ y.data = d
    BY <1>1 DEF Videos
  <1> HIDE DEF y
  <1>5. x.pos \in Nat
    BY <1>1, SegmentFacts DEF Videos
  <1>6. y.pos >= x.pos
    BY <1>4, <1>5
  <1>7. y.data # "loading"
    BY <1>2, <1>4
  <1> QED BY <1>2, <1>3, <1>4, <1>6, <1>7, PutFits DEF x

LEMMA SeekedFits == ASSUME Coherent(page), Fits(page), NEW c \in Cameras, Seeked(c) PROVE Fits(page')
  <1> DEFINE x == page.v[c]
             y == [x EXCEPT !.seeking = FALSE, !.moved = TRUE]
             z == [x EXCEPT !.seeking = FALSE, !.data = "bare"]
  <1>1. page \in Pages /\ x \in Videos /\ CellSound(x)
    BY CellFacts
  <1>2. (page' = Put(page, c, y) \/ page' = Put(page, c, z)) /\ x.seeking
    BY <1>1 DEF Seeked, Goes, Put
  <1> HIDE DEF x
  <1>3. x.rec # None /\ ~x.failed /\ (x.play = "running" => x.played)
        /\ x.data # "ended" /\ x.pos <= x.rec[3] /\ x.pos \in Nat
    BY <1>1, <1>2, SegmentFacts DEF CellSound, Videos
  <1>4. /\ y \in Videos /\ y.rec = x.rec /\ (y.failed = x.failed) /\ y.data = x.data
        /\ y.play = x.play /\ (y.played = x.played) /\ y.pos = x.pos /\ (y.held = x.held)
        /\ z \in Videos /\ z.rec = x.rec /\ (z.failed = x.failed) /\ z.data = "bare"
        /\ z.play = x.play /\ (z.played = x.played) /\ z.pos = x.pos /\ (z.held = x.held)
    BY <1>1 DEF Videos, Data
  <1> HIDE DEF y, z
  <1>5. CellSound(y) /\ CellSound(z)
    BY <1>3, <1>4 DEF CellSound
  <1>6. y.pos >= x.pos /\ z.pos >= x.pos
    BY <1>3, <1>4
  <1>7. page' = Put(page, c, y) => Fits(page')
    BY <1>3, <1>4, <1>5, <1>6, PutFits DEF x
  <1>8. page' = Put(page, c, z) => Fits(page')
    BY <1>3, <1>4, <1>5, <1>6, PutFits DEF x
  <1> QED BY <1>2, <1>7, <1>8

LEMMA PlayingFits == ASSUME Coherent(page), Fits(page), NEW c \in Cameras, Playing(c) PROVE Fits(page')
  <1> DEFINE x == page.v[c]
             goes == ~page.barrier \/ (x.warming /\ page.transport = "native")
             to == IF goes THEN "running" ELSE "paused"
             y == [x EXCEPT !.played = TRUE, !.moved = TRUE, !.play = to]
  <1>1. page \in Pages /\ x \in Videos /\ CellSound(x)
    BY CellFacts
  <1>2. page' = Put(page, c, y) /\ x.data \in {"low", "dry", "ready"} /\ to \in {"running", "paused"}
    BY <1>1 DEF Playing, Ahead, Goes, Put
  <1> HIDE DEF x, to
  <1>3. CellSound(y)
    BY <1>1, <1>2 DEF CellSound, Videos
  <1>4. /\ y.rec = x.rec /\ (y.failed = x.failed) /\ (y.held = x.held) /\ y.data = x.data
        /\ y.played /\ y.pos = x.pos
    BY <1>1, <1>2 DEF Videos
  <1> HIDE DEF y
  <1>5. x.pos \in Nat
    BY <1>1, SegmentFacts DEF Videos
  <1>6. y.pos >= x.pos
    BY <1>4, <1>5
  <1> QED BY <1>2, <1>3, <1>4, <1>6, PutFits DEF x

LEMMA AdvanceFits == ASSUME Coherent(page), Fits(page), NEW c \in Cameras, Advance(c) PROVE Fits(page')
  <1> DEFINE x == page.v[c]
             n == x.pos + 1
             y == [x EXCEPT !.pos = n, !.moved = TRUE]
  <1>1. page \in Pages /\ x \in Videos /\ CellSound(x) /\ (x.rec # None => x.rec \in Segments)
    BY CellFacts
  <1>2. /\ page' = Put(page, c, y) /\ x.data \in {"low", "dry", "ready"} /\ x.pos < x.rec[3]
        /\ x.play = "running"
    BY <1>1 DEF Advance, Decoding, Ahead, Goes, Put, Pages, Videos
  <1>3. n \in Times /\ n <= x.rec[3] /\ n >= x.pos
    <2>1. x.rec \in Segments
      BY <1>1, <1>2 DEF CellSound
    <2>2. PICK m \in Nat : Times = 0..m
      BY SegmentFacts
    <2>3. x.pos \in 0..m /\ x.rec[3] \in 0..m
      BY <1>1, <2>1, <2>2, SegmentFacts DEF Videos
    <2> DEFINE k == x.pos
               e == x.rec[3]
    <2>4. m \in Nat /\ k \in 0..m /\ e \in 0..m /\ k < e
      BY <1>2, <2>3
    <2> HIDE DEF k, e
    <2>5. k + 1 \in 0..m /\ k + 1 <= e /\ k + 1 >= k
      BY ONLY <2>4
    <2> QED BY <2>2, <2>5 DEF k, e
  <1> HIDE DEF x, n
  <1>4. CellSound(y)
    BY <1>1, <1>2, <1>3 DEF CellSound, Videos
  <1>5. /\ y.rec = x.rec /\ (y.failed = x.failed) /\ (y.held = x.held) /\ y.data = x.data
        /\ (y.played = x.played) /\ y.pos = n /\ x.played
    BY <1>1, <1>2 DEF CellSound, Videos
  <1> HIDE DEF y
  <1>6. y.pos >= x.pos /\ y.played
    BY <1>3, <1>5
  <1> QED BY <1>2, <1>4, <1>5, <1>6, PutFits DEF x

\* A source that comes to its end was started.
LEMMA FinishesFits == ASSUME Coherent(page), Fits(page), NEW c \in Cameras, Finishes(c) PROVE Fits(page')
  <1> DEFINE x == page.v[c]
             y == [x EXCEPT !.data = "ended", !.play = "paused"]
             p == Put(page, c, y)
  <1>1. page \in Pages /\ x \in Videos /\ CellSound(x) /\ (x.rec # None => x.rec \in Segments)
    BY CellFacts
  <1>2. /\ page' = p \/ page' = VideoEnded(p, c)
        /\ x.data \in {"low", "dry", "ready"} /\ x.play = "running" /\ ~x.seeking
    BY <1>1 DEF Finishes, Decoding, Ahead, Goes, Put
  <1>3. x.rec # None /\ ~x.failed /\ x.pos \in Nat
    BY <1>1, <1>2, SegmentFacts DEF CellSound, Videos
  <1> HIDE DEF x
  <1>4. CellSound(y)
    BY <1>1, <1>2 DEF CellSound, Videos, Data
  <1>5. /\ y.rec = x.rec /\ (y.failed = x.failed) /\ (y.held = x.held) /\ y.data = "ended"
        /\ (y.played = x.played) /\ y.pos = x.pos /\ y.played
    BY <1>1, <1>2 DEF CellSound, Videos
  <1> HIDE DEF y
  <1>6. y.pos >= x.pos
    BY <1>3, <1>5
  <1>7. Placed(p) /\ Begun(p)
    BY <1>2, <1>4, <1>5, <1>6, CoherentTyped, PutPlaced, PutBegun DEF x, Fits
  <1>8. Coherent(p) /\ p.v[c] = y
    BY <1>4, PutKeeps
  <1> HIDE DEF p
  <1>9. c \in Active(p) /\ p.v[c].data = "ended"
    BY <1>3, <1>5, <1>8 DEF Active
  <1>10. Placed(VideoEnded(p, c)) /\ Begun(VideoEnded(p, c))
    BY <1>7, <1>8, <1>9, VideoEndedFits
  <1> QED BY <1>2, <1>7, <1>10 DEF Fits

LEMMA StallsFits == ASSUME Coherent(page), Fits(page), NEW c \in Cameras, Stalls(c) PROVE Fits(page')
  <1> DEFINE x == page.v[c]
  <1>1. page \in Pages /\ x \in Videos /\ CellSound(x)
    BY CellFacts
  <1>2. PICK d \in {"bare", "low"} :
          \/ page' = Put(page, c, [x EXCEPT !.data = d])
          \/ page' = EnterBarrier(Put(page, c, [x EXCEPT !.data = d]))
    BY <1>1 DEF Stalls, Goes, Put
  <1>3. x.data = "ready"
    BY DEF Stalls
  <1> DEFINE y == [x EXCEPT !.data = d]
  <1> HIDE DEF x
  <1>4. CellSound(y)
    BY <1>1, <1>3 DEF CellSound, Videos, Data
  <1>5. page' = Put(page, c, y) \/ page' = EnterBarrier(Put(page, c, y))
    BY <1>2
  <1>6. /\ y.rec = x.rec /\ (y.failed = x.failed) /\ (y.held = x.held) /\ y.data # "loading"
        /\ (y.played = x.played) /\ y.pos = x.pos /\ y.play = x.play
    BY <1>1, <1>2 DEF Videos
  <1> HIDE DEF y
  <1>7. x.pos \in Nat
    BY <1>1, SegmentFacts DEF Videos
  <1>8. y.pos >= x.pos
    BY <1>6, <1>7
  <1> QED BY <1>3, <1>4, <1>5, <1>6, <1>8, PutFits DEF x

LEMMA FreezesFits == ASSUME Coherent(page), Fits(page), NEW c \in Cameras, Freezes(c) PROVE Fits(page')
  <1> DEFINE x == page.v[c]
             y == [x EXCEPT !.frozen = TRUE]
  <1>1. page \in Pages /\ x \in Videos /\ CellSound(x)
    BY CellFacts
  <1>2. page' = Put(page, c, y)
    BY <1>1 DEF Freezes, Goes, Put
  <1> HIDE DEF x
  <1>3. Reshapes(x, y) /\ (y.held = x.held) /\ y.play = x.play
    BY <1>1 DEF Reshapes, Alters, Videos
  <1> HIDE DEF y
  <1>4. x.pos \in Nat
    BY <1>1, SegmentFacts DEF Videos
  <1>5. CellSound(y)
    BY <1>1, <1>3, ReshapedSound
  <1>6. y.pos >= x.pos
    BY <1>3, <1>4 DEF Reshapes, Alters
  <1> QED BY <1>2, <1>3, <1>5, <1>6, PutFits DEF x, Reshapes, Alters

\* A rejected play leaves a source paused; outside the barrier only one that has
\* started, unless the barrier comes up again.
LEMMA PlayRejectedFits == ASSUME Coherent(page), Fits(page), NEW c \in Cameras, PlayRejected(c) PROVE Fits(page')
  <1> DEFINE x == page.v[c]
             y == [x EXCEPT !.play = "paused"]
  <1>1. page \in Pages /\ x \in Videos /\ CellSound(x)
    BY CellFacts
  <1>2. /\ x.play \in {"asked", "strict"} /\ page.playing
        /\ \/ page' = Stopped(page)
           \/ page' = Put(page, c, y) /\ x.play = "asked"
           \/ page' = EnterBarrier(Put(page, c, y))
    BY <1>1 DEF PlayRejected, Goes, Put
  <1>3. x.rec # None /\ ~x.failed /\ x.pos \in Nat
    BY <1>1, <1>2, SegmentFacts DEF CellSound, Videos
  <1> HIDE DEF x
  <1>4. Reshapes(x, y) /\ (y.held = x.held) /\ y.play = "paused"
    BY <1>1 DEF Reshapes, Alters, Videos
  <1> HIDE DEF y
  <1>5. CellSound(y)
    BY <1>1, <1>4, ReshapedSound
  <1>6. CASE page' = Stopped(page)
    BY <1>6, CoherentTyped, StoppedFits DEF Fits, Placed
  <1>7. CASE page' = EnterBarrier(Put(page, c, y))
    BY <1>4, <1>5, <1>7, PutFits DEF x, Reshapes, Alters
  <1>8. CASE page' = Put(page, c, y) /\ x.play = "asked"
    <2>1. Placed(page')
      BY <1>4, <1>5, <1>8, PutFits DEF x, Reshapes, Alters
    <2>2. page'.transport = page.transport /\ (page'.playing = page.playing) /\ (page'.barrier = page.barrier)
      BY <1>5, <1>8, PutKeeps DEF Alike
    <2>3. CASE (page.transport = "mp4" \/ Pair) /\ ~page.barrier
      <3>1. c \in Active(page)
        BY <1>3 DEF Active, x
      <3>2. x.played
        BY <1>2, <1>8, <2>3, <3>1 DEF Fits, Begun, x
      <3>3. y.pos >= x.pos
        BY <1>3, <1>4 DEF Reshapes, Alters
      <3> QED BY <1>4, <1>5, <1>8, <3>2, <3>3, PutFits DEF x, Reshapes, Alters
    <2>4. CASE ~((page.transport = "mp4" \/ Pair) /\ ~page.barrier)
      <3>1. Begun(page')
        BY <2>2, <2>4 DEF Begun
      <3> QED BY <2>1, <3>1 DEF Fits
    <2> QED BY <2>3, <2>4
  <1> QED BY <1>2, <1>6, <1>7, <1>8

LEMMA ClockTickFits == ASSUME Coherent(page), Fits(page), ClockTick PROVE Fits(page')
  <1>1. CASE page.playing
    <2>1. PICK c \in Cameras, how \in Hows : page' = Tick(page, c, how)
      BY <1>1, Ticked DEF ClockTick
    <2> QED BY <1>1, <2>1, TickFits
  <1>2. CASE ~page.playing
    <2>1. page' = [page EXCEPT !.tick = FALSE]
      BY <1>2 DEF ClockTick, Goes
    <2>2. page \in Pages
      BY DEF Coherent
    <2>3. /\ page'.v = page.v /\ page'.transport = page.transport /\ (page'.playing = page.playing)
          /\ (page'.barrier = page.barrier) /\ page'.time = page.time
      BY <2>1, <2>2 DEF Pages
    <2> QED BY <2>3, SameCells DEF Fits, Placed
  <1> QED BY <1>1, <1>2

LEMMA RecoveryAgesFits == ASSUME Coherent(page), Fits(page), RecoveryAges PROVE Fits(page')
  <1>1. page' = [page EXCEPT !.late = TRUE]
    BY DEF RecoveryAges, Goes
  <1>2. page \in Pages
    BY DEF Coherent
  <1>3. /\ page'.v = page.v /\ page'.transport = page.transport /\ (page'.playing = page.playing)
        /\ (page'.barrier = page.barrier) /\ page'.time = page.time
    BY <1>1, <1>2 DEF Pages
  <1> QED BY <1>3, SameCells DEF Fits, Placed

LEMMA StopFits == ASSUME Coherent(page), Fits(page), Stop PROVE Fits(page')
  <1>1. page' = Stopped(page)
    BY DEF Stop, Goes
  <1> QED BY <1>1, CoherentTyped, StoppedFits DEF Fits, Placed

\* A failed source is no longer looked at; one that is opened once more was shown
\* where the clock is, so that the others are too.
LEMMA ErrorFits == ASSUME Coherent(page), Fits(page), NEW c \in Cameras, Error(c) PROVE Fits(page')
  <1> DEFINE x == page.v[c]
             b == [page EXCEPT !.retried = @ \cup {x.rec}]
             p == EnterBarrier(b)
             s == Source(p, c)
             y == [s EXCEPT !.warming = TRUE]
  <1>1. page \in Pages /\ x \in Videos /\ CellSound(x) /\ (x.rec # None => x.rec \in Segments)
    BY CellFacts
  <1>2. x.rec \in Segments /\ x.rec # None
    BY <1>1 DEF Error, Active
  <1>3. \/ page' = Fail(page, c)
        \/ /\ page' = Put(p, c, y) /\ page.playing /\ page.transport = "native"
           /\ FindRecording(c, page.time) = x.rec
    BY DEF Error, Goes, Put
  <1>4. CASE page' = Fail(page, c)
    BY <1>2, <1>4, CoherentTyped, FailSound, SteadyFits
  <1>5. CASE /\ page' = Put(p, c, y) /\ page.playing /\ page.transport = "native"
             /\ FindRecording(c, page.time) = x.rec
    <2>1. /\ b \in Pages /\ b.v = page.v /\ (b.barrier = page.barrier) /\ (b.playing = page.playing)
          /\ (b.timed = page.timed) /\ b.time = page.time /\ b.transport = page.transport
      BY <1>1, <1>2 DEF Pages
    <2> HIDE DEF b
    <2>2. Coherent(b) /\ Typed(b)
      BY <2>1 DEF Coherent, Typed
    <2>3. Placed(b)
      BY <2>1, SameCells DEF Fits, Placed
    <2>4. Typed(p) /\ Steady(b, p) /\ p \in Pages /\ p.barrier /\ Placed(p)
      BY <1>5, <2>1, <2>2, <2>3, EnterBarrierSound, EnterBarrierFits DEF Typed, Fits
    <2> HIDE DEF p
    <2>5. CellSound(s) /\ s.rec = FindRecording(c, p.time) /\ ~s.held
      BY <2>4, SourceSound
    <2> HIDE DEF s
    <2>6. Reshapes(s, y)
      BY <2>5 DEF Reshapes, Alters, Videos, CellSound
    <2>7. CellSound(y) /\ y.rec = FindRecording(c, p.time) /\ ~y.held
      BY <2>5, <2>6, ReshapedSound DEF Reshapes, Alters
    <2> HIDE DEF y
    <2> DEFINE r == Put(p, c, y)
    <2>8. Alike(p, r) /\ r.v[c] = y /\ \A d \in Cameras : d # c => r.v[d] = p.v[d]
      BY <2>4, <2>7, PutSound
    <2> HIDE DEF r
    <2>9. r.barrier /\ r.time = page.time /\ r.transport = "native"
      BY <1>5, <2>1, <2>4, <2>8 DEF Alike, Steady
    <2>10. HeldFit(r)
      BY <2>4, <2>7, <2>8 DEF HeldFit, Placed
    <2>11. ASSUME Pair PROVE Changed(r) = {}
      <3>1. page.time < x.rec[3] /\ x.rec[3] \in Times
        BY <1>2, <1>5, FindFacts, SegmentFacts
      <3>2. page.time \in Nat /\ x.rec[3] \in Nat /\ x.rec[3] <= Max(Times)
        BY <1>1, <3>1, EndOfTimeline, SegmentFacts DEF Pages
      <3>3. page.time # Max(Times)
        BY <3>1, <3>2
      <3>4. Changed(page) = {}
        BY <1>5, <2>11, <3>3 DEF Fits, Placed, Shown
      <3>5. ASSUME NEW d \in Cameras PROVE r.v[d].rec = FindRecording(d, r.time)
        <4>1. p.v[d].rec = page.v[d].rec /\ p.time = page.time
          BY <2>1, <2>4 DEF Steady, Follows
        <4>2. page.v[d].rec = FindRecording(d, page.time)
          BY <3>4 DEF Changed
        <4> QED BY <2>7, <2>8, <2>9, <4>1, <4>2
      <3> QED BY <3>5 DEF Changed
    <2>12. Shown(r)
      BY <2>11 DEF Shown
    <2>13. Begun(r)
      BY <2>9 DEF Begun
    <2> QED BY <1>5, <2>10, <2>12, <2>13 DEF r, Fits, Placed
  <1> QED BY <1>3, <1>4, <1>5

LEMMA InitFits == Init => Fits(page)
  <1> SUFFICES ASSUME Init PROVE Fits(page)
    OBVIOUS
  <1>1. PICK tr \in Transports, t \in {s[2] : s \in Segments} :
          page = Render([transport |-> tr, playing |-> FALSE, time |-> t,
                         barrier |-> FALSE, timed |-> FALSE, late |-> FALSE,
                         tick |-> FALSE, broken |-> {}, retried |-> {},
                         v |-> [c \in Cameras |-> Blank]], Cameras)
    BY DEF Init
  <1> DEFINE p == [transport |-> tr, playing |-> FALSE, time |-> t,
                   barrier |-> FALSE, timed |-> FALSE, late |-> FALSE,
                   tick |-> FALSE, broken |-> {}, retried |-> {},
                   v |-> [c \in Cameras |-> Blank]]
  <1>2. t \in Times
    BY SegmentFacts
  <1>3. Blank \in Videos /\ CellSound(Blank)
    BY BlankSound DEF CellSound
  <1>4. p \in Pages /\ (p.playing = FALSE) /\ \A c \in Cameras : p.v[c] = Blank
    BY <1>2, <1>3 DEF Pages
  <1>5. page = Render(p, Cameras)
    BY <1>1
  <1> HIDE DEF p
  <1>6. Typed(p)
    BY <1>3, <1>4 DEF Typed
  <1>7. /\ Alike(p, page) /\ Changed(page) = Changed(p) \ Cameras
        /\ \A c \in Cameras : ~page.v[c].held
    BY <1>5, <1>6, RenderSound, RenderPlaced
  <1>8. Changed(page) = {}
    BY <1>7 DEF Changed
  <1>9. HeldFit(page) /\ Begun(page)
    BY <1>4, <1>7 DEF HeldFit, Begun, Alike
  <1> QED BY <1>8, <1>9, ShownAll DEF Fits, Placed

LEMMA PlayFits == ASSUME Coherent(page), Fits(page), Play PROVE Fits(page')
  <1> DEFINE failed == {c \in Cameras : page.v[c].failed}
             gone == {c \in Cameras : page.v[c].data = "gone"}
                     \cup (IF page.transport = "mp4" THEN failed ELSE {})
             z == Reset(page)
             p == [z EXCEPT !.broken = {}]
             q == IF gone # {} THEN Render(p, Cameras)
                  ELSE IF failed # {} THEN Render(p, failed \cup Changed(p)) ELSE p
             b == [q EXCEPT !.playing = TRUE]
             r == Reconcile(b)
  <1>1. Starting(q) \/ (r.playing /\ Starting(r)) \/ (~r.playing /\ page' = r)
    BY DEF Play, Goes
  <1>2. Typed(p) /\ (p.barrier = FALSE) /\ Placed(p)
    <2>1. /\ Coherent(z) /\ ~z.barrier /\ (\A c \in Cameras : ~z.v[c].held) /\ Shown(z)
      BY CoherentTyped, ResetSound, ResetFits DEF Fits, Placed
    <2>2. z \in Pages
      BY <2>1 DEF Coherent
    <2>3. p = [z EXCEPT !.broken = {}]
      OBVIOUS
    <2> HIDE DEF z, p
    <2>4. /\ p \in Pages /\ p.v = z.v /\ (p.barrier = z.barrier) /\ p.barrier \in BOOLEAN
          /\ p.transport = z.transport /\ (p.playing = z.playing) /\ p.time = z.time
      BY <2>2, <2>3 DEF Pages
    <2>5. Shown(p)
      BY <2>1, <2>4, SameCells
    <2>6. HeldFit(p)
      BY <2>1, <2>4 DEF HeldFit
    <2> QED BY <2>1, <2>4, <2>5, <2>6 DEF Coherent, Typed, Placed
  <1> DEFINE S == failed \cup Changed(p)
  <1>3. S \subseteq Cameras
    BY DEF Changed
  <1>4. q = p \/ q = Render(p, Cameras) \/ q = Render(p, S)
    OBVIOUS
  <1>5. Changed(p) \subseteq S /\ Changed(p) \subseteq Cameras
    BY DEF Changed
  <1> HIDE DEF p, q, failed, S
  <1>6. ASSUME NEW T, T \subseteq Cameras, Changed(p) \subseteq T, q = Render(p, T)
        PROVE  Typed(q) /\ (q.barrier = FALSE) /\ Placed(q)
    <2>1. Typed(q) /\ Alike(p, q) /\ (HeldFit(p) => HeldFit(q)) /\ Changed(q) = Changed(p) \ T
      BY <1>2, <1>6, RenderSound, RenderPlaced
    <2>2. Changed(q) = {}
      BY <1>6, <2>1
    <2> QED BY <1>2, <2>1, <2>2, ShownAll DEF Alike, Placed
  <1>7. Typed(q) /\ (q.barrier = FALSE) /\ Placed(q)
    BY <1>2, <1>3, <1>4, <1>5, <1>6
  <1>8. Typed(b) /\ (b.barrier = FALSE) /\ Placed(b)
    BY <1>7, SetPlayingPlaced
  <1> HIDE DEF b
  <1>9. Coherent(b)
    BY <1>8, CoherentTyped
  <1>10. Coherent(r) /\ Placed(r)
    BY <1>8, <1>9, ReconcileSound, ReconcileFits DEF Placed
  <1> HIDE DEF r
  <1>11. ~r.playing => Fits(r)
    BY <1>10 DEF Fits, Begun
  <1> QED BY <1>1, <1>7, <1>10, <1>11, CoherentTyped, StartingFits

LEMMA SeekFits == ASSUME Coherent(page), Fits(page), NEW t \in Times, Seek(t) PROVE Fits(page')
  <1> DEFINE s == Stopped(page)
             r == Reset(s)
             p == [r EXCEPT !.time = t]
             S == IF p.transport = "mp4" THEN Cameras ELSE Changed(p)
  <1>1. page' = Render(p, S)
    BY DEF Seek, Goes
  <1>2. Coherent(s) /\ ~s.playing
    BY CoherentTyped, StoppedSound
  <1> HIDE DEF s
  <1>3. Coherent(r) /\ ~r.playing /\ \A c \in Cameras : ~r.v[c].held
    BY <1>2, CoherentTyped, ResetSound
  <1>4. p = [r EXCEPT !.time = t]
    OBVIOUS
  <1>5. S \subseteq Cameras /\ Changed(p) \subseteq S
    BY DEF Changed
  <1> HIDE DEF r, p, S
  <1>6. Coherent(p) /\ ~p.playing /\ p.v = r.v
    BY <1>3, <1>4, TimeType
  <1>7. HeldFit(p)
    BY <1>3, <1>6 DEF HeldFit
  <1>8. Alike(p, page') /\ HeldFit(page') /\ Changed(page') = Changed(p) \ S
    BY <1>1, <1>5, <1>6, <1>7, CoherentTyped, RenderSound, RenderPlaced
  <1>9. Changed(page') = {} /\ ~page'.playing
    BY <1>5, <1>6, <1>8 DEF Alike
  <1> QED BY <1>8, <1>9, ShownAll DEF Fits, Placed, Begun

LEMMA ReloadFits == ASSUME Coherent(page), Fits(page), NEW tr \in Transports, Reload(tr) PROVE Fits(page')
  <1> DEFINE z == Reset(page)
             reset == [z EXCEPT !.tick = FALSE]
             h == [c \in Cameras |-> IF c \in Cameras THEN [reset.v[c] EXCEPT !.play = "paused"] ELSE reset.v[c]]
             paused == Cells(reset, h)
             p == IF tr = page.transport THEN paused ELSE [paused EXCEPT !.transport = tr, !.broken = {}]
             q == Render(p, Cameras)
  <1>1. IF page.playing THEN Starting(q) ELSE page' = q
    BY DEF Reload, Each, Goes, Cells
  <1>2. Coherent(z) /\ (z.playing = page.playing)
    BY CoherentTyped, ResetSound
  <1>3. z \in Pages
    BY <1>2 DEF Coherent
  <1> HIDE DEF z
  <1>4. reset \in Pages /\ reset.v = z.v /\ (reset.playing = z.playing)
    BY <1>3 DEF Pages
  <1>5. h = [c \in Cameras |-> h[c]]
    OBVIOUS
  <1> HIDE DEF reset
  <1>6. ASSUME NEW c \in Cameras PROVE CellSound(h[c])
    <2> DEFINE o == reset.v[c]
               y == [o EXCEPT !.play = "paused"]
    <2>1. h[c] = y
      OBVIOUS
    <2>2. CellSound(o)
      BY <1>2, <1>4 DEF Coherent
    <2> HIDE DEF o, h
    <2>3. Reshapes(o, y)
      BY <2>2 DEF Reshapes, Alters, Videos, CellSound
    <2> HIDE DEF y
    <2> QED BY <2>1, <2>2, <2>3, ReshapedSound
  <1> HIDE DEF h
  <1>7. Typed(paused) /\ Alike(reset, paused)
    BY <1>4, <1>5, <1>6, CellsSound
  <1> HIDE DEF paused
  <1>8. Typed(p) /\ (p.playing = paused.playing)
    <2>1. paused \in Pages
      BY <1>7 DEF Typed
    <2>2. p \in Pages /\ p.v = paused.v /\ (p.playing = paused.playing)
      BY <2>1 DEF Pages
    <2> HIDE DEF p
    <2> QED BY <1>7, <2>2 DEF Typed
  <1> HIDE DEF p
  <1>9. /\ Typed(q) /\ Alike(p, q) /\ Changed(q) = Changed(p) \ Cameras
        /\ \A c \in Cameras : ~q.v[c].held
    BY <1>8, RenderSound, RenderPlaced
  <1> HIDE DEF q
  <1>10. Changed(q) = {} /\ HeldFit(q)
    BY <1>9 DEF Changed, HeldFit
  <1>11. Placed(q)
    BY <1>10, ShownAll DEF Placed
  <1>12. CASE page.playing
    BY <1>1, <1>9, <1>11, <1>12, StartingFits
  <1>13. CASE ~page.playing
    <2>1. ~q.playing /\ page' = q
      BY <1>1, <1>2, <1>4, <1>7, <1>8, <1>9, <1>13 DEF Alike
    <2> QED BY <1>11, <2>1 DEF Fits, Begun
  <1> QED BY <1>12, <1>13

LEMMA NextFits == ASSUME Coherent(page), Fits(page), Next PROVE Fits(page')
  <1>1. CASE Play
    BY <1>1, PlayFits
  <1>2. CASE Stop
    BY <1>2, StopFits
  <1>3. CASE \E t \in Times : Seek(t)
    BY <1>3, SeekFits
  <1>4. CASE \E tr \in Transports : Reload(tr)
    BY <1>4, ReloadFits
  <1>5. CASE ClockTick
    BY <1>5, ClockTickFits
  <1>6. CASE RecoveryAges
    BY <1>6, RecoveryAgesFits
  <1>7. ASSUME NEW c \in Cameras, StandsStill(c) PROVE Fits(page')
    BY <1>7, StandsStillFits
  <1>8. ASSUME NEW c \in Cameras, PausedRelease(c) PROVE Fits(page')
    BY <1>8, PausedReleaseFits
  <1>9. ASSUME NEW c \in Cameras, Decoder(c) PROVE Fits(page')
    BY <1>9, PlayingFits, AdvanceFits, FinishesFits DEF Decoder
  <1>10. ASSUME NEW c \in Cameras, Stalls(c) PROVE Fits(page')
    BY <1>10, StallsFits
  <1>11. ASSUME NEW c \in Cameras, Freezes(c) PROVE Fits(page')
    BY <1>11, FreezesFits
  <1>12. ASSUME NEW c \in Cameras, Error(c) PROVE Fits(page')
    BY <1>12, ErrorFits
  <1>13. ASSUME NEW c \in Cameras, PlayRejected(c) PROVE Fits(page')
    BY <1>13, PlayRejectedFits
  <1>14. CASE \E c \in Cameras : \/ StandsStill(c) \/ PausedRelease(c)
                                 \/ Metadata(c) \/ DataArrives(c) \/ Dries(c) \/ Seeked(c) \/ Decoder(c)
                                 \/ Stalls(c) \/ Freezes(c) \/ Error(c) \/ PlayRejected(c)
    BY <1>7, <1>8, <1>9, <1>10, <1>11, <1>12, <1>13, <1>14,
       MetadataFits, DataArrivesFits, DriesFits, SeekedFits
  <1> QED BY <1>1, <1>2, <1>3, <1>4, <1>5, <1>6, <1>14 DEF Next

\* A set grows by one with an element it lacks.
LEMMA OneMore ==
  ASSUME NEW S, IsFiniteSet(S), NEW x, x \notin S, NEW n \in Nat, Cardinality(S) = n
  PROVE  IsFiniteSet(S \cup {x}) /\ Cardinality(S \cup {x}) = n + 1
  BY FS_AddElement

\* Of at most two cameras no three differ.
LEMMA TwoCameras == ASSUME Cardinality(Cameras) <= 2 PROVE Pair
  <1> SUFFICES ASSUME NEW a \in Cameras, NEW b \in Cameras, NEW c \in Cameras, a # b, a # c, b # c
               PROVE  FALSE
    BY DEF Pair
  <1> DEFINE E == {}
             S == E \cup {a}
             T == S \cup {b}
             U == T \cup {c}
  <1>1. IsFiniteSet(E) /\ Cardinality(E) = 0 /\ a \notin E
    BY FS_EmptySet
  <1>2. b \notin S
    OBVIOUS
  <1>3. c \notin T
    OBVIOUS
  <1>4. U \subseteq Cameras
    OBVIOUS
  <1> HIDE DEF E
  <1>5. IsFiniteSet(S) /\ Cardinality(S) = 1
    BY <1>1, OneMore
  <1> HIDE DEF S
  <1>6. IsFiniteSet(T) /\ Cardinality(T) = 2
    BY <1>2, <1>5, OneMore
  <1> HIDE DEF T
  <1>7. IsFiniteSet(U) /\ Cardinality(U) = 3
    BY <1>3, <1>6, OneMore
  <1> HIDE DEF U
  <1>8. Cardinality(U) <= Cardinality(Cameras) /\ Cardinality(Cameras) \in Nat
    BY <1>4, FS_Subset, FS_CardinalityType
  <1> QED BY <1>7, <1>8

-----------------------------------------------------------------------------
(* The theorems *)

\* Every step keeps the page coherent; the barrier is left only by a tick, or by
\* the reload of a page without a source to play.
LEMMA NextSound ==
  ASSUME Coherent(page), Next
  PROVE  /\ Coherent(page')
         /\ Leaving => (page.playing /\ ClockTick) \/ Active(page') = {}
  <1>1. CASE Play
    BY <1>1, PlaySound DEF Keeps
  <1>2. CASE Stop
    BY <1>2, StopSound DEF Keeps
  <1>3. CASE \E t \in Times : Seek(t)
    BY <1>3, SeekSound DEF Keeps
  <1>4. CASE \E tr \in Transports : Reload(tr)
    BY <1>4, ReloadSound
  <1>5. CASE ClockTick
    BY <1>5, ClockTickSound
  <1>6. CASE RecoveryAges
    BY <1>6, RecoveryAgesSound DEF Keeps
  <1>7. ASSUME NEW c \in Cameras, StandsStill(c) PROVE Keeps
    BY <1>7, StandsStillSound
  <1>8. ASSUME NEW c \in Cameras, PausedRelease(c) PROVE Keeps
    BY <1>8, PausedReleaseSound
  <1>9. ASSUME NEW c \in Cameras, Decoder(c) PROVE Keeps
    BY <1>9, PlayingSound, AdvanceSound, FinishesSound DEF Decoder
  <1>10. ASSUME NEW c \in Cameras, Stalls(c) PROVE Keeps
    BY <1>10, StallsSound
  <1>11. ASSUME NEW c \in Cameras, Freezes(c) PROVE Keeps
    BY <1>11, FreezesSound
  <1>12. ASSUME NEW c \in Cameras, Error(c) PROVE Keeps
    BY <1>12, ErrorSound
  <1>13. ASSUME NEW c \in Cameras, PlayRejected(c) PROVE Keeps
    BY <1>13, PlayRejectedSound
  <1>14. CASE \E c \in Cameras : \/ StandsStill(c) \/ PausedRelease(c)
                                 \/ Metadata(c) \/ DataArrives(c) \/ Dries(c) \/ Seeked(c) \/ Decoder(c)
                                 \/ Stalls(c) \/ Freezes(c) \/ Error(c) \/ PlayRejected(c)
    BY <1>7, <1>8, <1>9, <1>10, <1>11, <1>12, <1>13, <1>14,
       MetadataSound, DataArrivesSound, DriesSound, SeekedSound DEF Keeps
  <1> QED BY <1>1, <1>2, <1>3, <1>4, <1>5, <1>6, <1>14 DEF Next

\* The counters stay within the bounds of the model.
LEMMA CountersSound ==
  ASSUME acts \in 0..MaxActs, faults \in 0..MaxFaults, Next
  PROVE  acts' \in 0..MaxActs /\ faults' \in 0..MaxFaults
  <1>1. MaxActs \in Nat /\ MaxFaults \in Nat
    OBVIOUS
  <1>2. Act \/ acts' = acts
    BY DEF Next, Play, Stop, Seek, Reload, ClockTick, RecoveryAges, StandsStill, PausedRelease,
           Metadata, DataArrives, Dries, Seeked, Decoder, Playing, Advance, Finishes, Stalls, Freezes, Error, PlayRejected
  <1>3. Fault \/ faults' = faults
    BY DEF Next, Play, Stop, Seek, Reload, ClockTick, RecoveryAges, StandsStill, PausedRelease,
           Metadata, DataArrives, Dries, Seeked, Decoder, Playing, Advance, Finishes, Stalls, Freezes, Error, PlayRejected
  <1> QED BY <1>1, <1>2, <1>3 DEF Act, Fault

\* The inductive invariant: every cell and the barrier fit together.
THEOREM ClockInvariant == Spec => []ClockInv
  <1>1. Init => ClockInv
    BY InitSound
  <1>2. ClockInv /\ [Next]_vars => ClockInv'
    <2> SUFFICES ASSUME ClockInv, [Next]_vars PROVE ClockInv'
      OBVIOUS
    <2>1. CASE Next
      BY <2>1, NextSound, CountersSound DEF ClockInv
    <2>2. CASE UNCHANGED vars
      BY <2>2 DEF ClockInv, vars
    <2> QED BY <2>1, <2>2
  <1> QED BY <1>1, <1>2, PTL DEF Spec

\* The page never leaves its states.
THEOREM ClockTypes == Spec => []TypeOK
  <1>1. ClockInv => TypeOK
    BY DEF ClockInv, Coherent, TypeOK
  <1> QED BY <1>1, ClockInvariant, PTL

\* Every barrier has its deadline, through every failure, reload and restart: no
\* source that never delivers holds the clock for good.
THEOREM BarriersAreTimed == Spec => []BarrierTimed
  <1>1. ClockInv => BarrierTimed
    BY DEF ClockInv, Coherent, BarrierTimed
  <1> QED BY <1>1, ClockInvariant, PTL

\* The barrier is left with every source ready and where the clock stands.
THEOREM BarriersAreLeftAligned == Spec => LeavesAligned
  <1> DEFINE Aligned == Leaving =>
               \A c \in Active(page) \cap Active(page') :
                 /\ page'.v[c].data = "ready"
                 /\ ~Misaligned(page, c) \/ AtTail(page, c)
                 /\ page'.v[c].seeking =>
                      \E d \in Cameras : page.v[d].rec # None /\ page'.v[d].rec = None
  <1>1. ASSUME ClockInv, [Next]_vars PROVE [Aligned]_page
    <2>1. CASE page' = page
      BY <2>1
    <2>2. CASE Next /\ ~Leaving
      BY <2>2
    <2>3. CASE Next /\ Leaving
      <3>1. Coherent(page)
        BY <1>1 DEF ClockInv
      <3>2. (page.playing /\ ClockTick) \/ Active(page') = {}
        BY <2>3, <3>1, NextSound
      <3>3. CASE Active(page') = {}
        BY <3>3
      <3>4. CASE page.playing /\ ClockTick
        <4>1. PICK cam \in Cameras, how \in Hows : page' = Tick(page, cam, how)
          BY <3>4, Ticked DEF ClockTick
        <4>2. page.barrier /\ ~page'.barrier /\ page'.playing
          BY <2>3 DEF Leaving
        <4>3. \A c \in Active(page') :
                 /\ c \in Active(page) /\ Ready(page.v[c]) /\ page'.v[c].data = "ready"
                 /\ ~Misaligned(page, c) \/ AtTail(page, c)
                 /\ page'.v[c].seeking =>
                      \E d \in Cameras : page.v[d].rec # None /\ page'.v[d].rec = None
          BY <3>1, <4>1, <4>2, TickLeaves
        <4> QED BY <4>3
      <3> QED BY <3>2, <3>3, <3>4
    <2>4. CASE UNCHANGED vars
      BY <2>4 DEF vars
    <2> QED BY <1>1, <2>1, <2>2, <2>3, <2>4
  <1>2. [Aligned]_page <=> [page.barrier /\ ~page'.barrier /\ page'.playing =>
          \A c \in Active(page) \cap Active(page') :
            /\ page'.v[c].data = "ready"
            /\ ~Misaligned(page, c) \/ AtTail(page, c)
            /\ page'.v[c].seeking =>
                 \E d \in Cameras : page.v[d].rec # None /\ page'.v[d].rec = None]_page
    BY DEF Leaving
  <1> QED BY <1>1, <1>2, ClockInvariant, PTL DEF Spec, LeavesAligned

\* What the clock keeps about the sources: only those of a running native page are
\* held, the cells show the clock's recordings, and outside the barrier every
\* source has started or was asked to at the barrier's end.
THEOREM StartInvariant == Spec => []StartInv
  <1>1. Fits(page) <=> StartInv
    BY DEF Fits, Placed, StartInv
  <1>2. Init => Fits(page)
    BY InitFits
  <1>3. ClockInv /\ Fits(page) /\ [Next]_vars => Fits(page)'
    <2> SUFFICES ASSUME ClockInv, Fits(page), [Next]_vars PROVE Fits(page')
      OBVIOUS
    <2>1. CASE Next
      BY <2>1, NextFits DEF ClockInv
    <2>2. CASE UNCHANGED vars
      BY <2>2 DEF vars
    <2> QED BY <2>1, <2>2
  <1>4. Spec => []Fits(page)
    BY <1>2, <1>3, ClockInvariant, PTL DEF Spec
  <1> QED BY <1>1, <1>4, PTL

\* No source of a progressive page, nor of a native one with at most two cameras,
\* is forgotten: outside the barrier one that is ready but paused waits for the
\* others, has come to its end, or is watched by checkVideoProgress().
THEOREM NobodyForgotten ==
  Spec => [](page.transport = "mp4" \/ Cardinality(Cameras) <= 2 => NoneForgotten)
  <1>1. ASSUME ClockInv, StartInv, page.transport = "mp4" \/ Cardinality(Cameras) <= 2,
               page.playing, ~page.barrier, NEW c \in Active(page),
               page.v[c].play = "paused", Ready(page.v[c])
        PROVE  page.v[c].held \/ page.v[c].data = "ended" \/ Watched(page, c)
    <2>1. page.v[c].played
      BY <1>1, TwoCameras DEF StartInv, Begun
    <2> QED BY <1>1, <2>1 DEF Ready, Watched
  <1>2. ClockInv /\ StartInv =>
          (page.transport = "mp4" \/ Cardinality(Cameras) <= 2 => NoneForgotten)
    BY <1>1 DEF NoneForgotten
  <1> QED BY <1>2, ClockInvariant, StartInvariant, PTL

=============================================================================
