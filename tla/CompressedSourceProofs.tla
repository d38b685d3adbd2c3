----------------------- MODULE CompressedSourceProofs -----------------------
(***************************************************************************)
(* Proofs about CompressedSource: its inductive invariant, and with it,    *)
(* for any cameras, recordings, limits and faults, the properties that the *)
(* run checks on two cameras; with a slot per camera the page is never     *)
(* refused because of its own sessions.                                    *)
(***************************************************************************)
EXTENDS CompressedSource, FiniteSetTheorems, TLAPS

-----------------------------------------------------------------------------
(* Cells *)

LEMMA RecordingType ==
  ASSUME NEW c \in Cameras, NEW p \in Positions
  PROVE  Recording(c, p) \in Recordings \cup {None}
  BY DEF Recording, Recordings

LEMMA CancelledCell ==
  ASSUME NEW x \in Cells
  PROVE  /\ Cancelled(x) \in Cells
         /\ Cancelled(x).job = NoId
         /\ Cancelled(x).src = FALSE /\ Cancelled(x).timer = FALSE
         /\ Cancelled(x).rec = x.rec
         /\ Cancelled(x).failed = x.failed
         /\ Cancelled(x).dropped = (x.dropped \/ x.job # NoId)
  BY DEF Cancelled, Cells

LEMMA FailedCell ==
  ASSUME NEW x \in Cells
  PROVE  LET y == [Cancelled(x) EXCEPT !.failed = TRUE]
         IN /\ y \in Cells
            /\ y.job = NoId /\ y.src = FALSE /\ y.timer = FALSE /\ y.failed = TRUE
            /\ y.rec = x.rec
  BY CancelledCell DEF Cells

\* What the cell y of camera c became when it was updated.
IsOpened(y, c, p, q, bad, id) ==
  /\ y \in Cells
  /\ y.job = id /\ y.timer = FALSE
  /\ y.rec = Recording(c, p)
  /\ y.failed = (Recording(c, p) \in bad)
  /\ y.src = (Recording(c, p) # None /\ Recording(c, p) \notin bad /\ q = "native")

LEMMA OpenedCell ==
  ASSUME NEW x \in Cells, NEW c \in Cameras, NEW p \in Positions, NEW q \in Profiles, NEW bad,
         NEW id \in Ids \cup {NoId}
  PROVE  IsOpened(Opened(x, c, p, q, bad, id), c, p, q, bad, id)
  <1>1. Recording(c, p) \in Recordings \cup {None}
    BY RecordingType
  <1>2. Key(c, p, q) \in Keys
    BY DEF Keys
  <1> DEFINE z == Cancelled(x)
             failed == Recording(c, p) \in bad
             native == Recording(c, p) # None /\ ~failed /\ q = "native"
  <1>3. z \in Cells /\ z.timer = FALSE
    BY CancelledCell
  <1>4. failed \in BOOLEAN /\ native \in BOOLEAN
    OBVIOUS
  <1>5. Opened(x, c, p, q, bad, id) =
          [z EXCEPT !.key = Key(c, p, q), !.rec = Recording(c, p), !.job = id,
                    !.src = native, !.failed = failed, !.dropped = failed /\ @]
    BY DEF Opened
  <1> HIDE DEF z, failed, native
  <1>6. LET y == Opened(x, c, p, q, bad, id)
        IN y \in Cells /\ y.job = id /\ y.timer = FALSE /\ y.rec = Recording(c, p)
           /\ y.failed = failed /\ y.src = native
    BY <1>1, <1>2, <1>3, <1>4, <1>5 DEF Cells
  <1> QED BY <1>6 DEF failed, native, IsOpened

-----------------------------------------------------------------------------
(* The ids that a rendering gives to the sources it opens *)

\* The number of c among the cells of S, in their order.
Rank(S, c) == Cardinality({d \in S : d <= c})

LEMMA RankBounds ==
  ASSUME NEW S \in SUBSET Cameras, NEW c \in S
  PROVE  Rank(S, c) \in 1..Cardinality(S)
  <1> DEFINE T == {d \in S : d <= c}
  <1>1. IsFiniteSet(S) /\ S \subseteq Nat
    BY CompressedSourceAssumption, FS_Subset DEF CompressedSourceAssumption
  <1>2. IsFiniteSet(T) /\ Cardinality(T) <= Cardinality(S)
    BY <1>1, FS_Subset
  <1>3. Cardinality(T) \in Nat /\ Cardinality(S) \in Nat
    BY <1>1, <1>2, FS_CardinalityType
  <1>4. c \in T
    BY <1>1
  <1>5. Cardinality(T) # 0
    BY <1>2, <1>4, FS_EmptySet
  <1> QED BY <1>2, <1>3, <1>5 DEF Rank

LEMMA RankGrows ==
  ASSUME NEW S \in SUBSET Cameras, NEW c \in S, NEW e \in S, c < e
  PROVE  Rank(S, c) < Rank(S, e)
  <1> DEFINE T == {d \in S : d <= c}
             U == {d \in S : d <= e}
  <1>1. IsFiniteSet(S) /\ S \subseteq Nat
    BY CompressedSourceAssumption, FS_Subset DEF CompressedSourceAssumption
  <1>2. IsFiniteSet(T) /\ IsFiniteSet(U)
    BY <1>1, FS_Subset
  <1>3. T \in SUBSET U /\ e \in U /\ e \notin T
    <2>1. c \in Nat /\ e \in Nat /\ \A d \in S : d \in Nat
      BY <1>1
    <2>2. e <= e /\ ~(e <= c) /\ \A d \in S : d <= c => d <= e
      BY <2>1
    <2> QED BY <2>2
  <1>4. Cardinality(T) <= Cardinality(U) /\ Cardinality(T) # Cardinality(U)
    BY <1>2, <1>3, FS_Subset
  <1> HIDE DEF T, U
  <1>5. Cardinality(T) < Cardinality(U)
    BY <1>2, <1>4, FS_CardinalityType
  <1> QED BY <1>5 DEF Rank, T, U

LEMMA RankInjective ==
  ASSUME NEW S \in SUBSET Cameras, NEW c \in S, NEW e \in S, Rank(S, c) = Rank(S, e)
  PROVE  c = e
  <1>1. c \in Nat /\ e \in Nat
    BY CompressedSourceAssumption DEF CompressedSourceAssumption
  <1>2. Rank(S, c) \in Int
    BY RankBounds
  <1>3. c < e \/ e < c \/ c = e
    BY <1>1
  <1> QED BY <1>2, <1>3, RankGrows

LEMMA RankOnto ==
  ASSUME NEW S \in SUBSET Cameras, NEW k \in 1..Cardinality(S)
  PROVE  \E c \in S : Rank(S, c) = k
  <1> DEFINE n == Cardinality(S)
             T == (1..n) \ {k}
             f == [c \in S |-> Rank(S, c)]
  <1>1. IsFiniteSet(S) /\ n \in Nat
    BY CompressedSourceAssumption, FS_Subset, FS_CardinalityType DEF CompressedSourceAssumption
  <1>2. IsFiniteSet(1..n) /\ Cardinality(1..n) = n
    BY <1>1, FS_Interval
  <1>3. IsFiniteSet(T) /\ Cardinality(T) = n - 1
    BY <1>2, FS_RemoveElement
  <1> SUFFICES ASSUME \A c \in S : Rank(S, c) # k PROVE FALSE
    OBVIOUS
  <1>4. f \in [S -> T]
    BY RankBounds
  <1> HIDE DEF T, f, n
  <1>5. n - 1 < n
    BY <1>1
  <1>6. \E c, d \in S : c # d /\ f[c] = f[d]
    BY <1>1, <1>3, <1>4, <1>5, FS_PigeonHole DEF n
  <1> QED BY <1>6, RankInjective DEF f

-----------------------------------------------------------------------------
(* A rendering *)

\* The cells of U are updated and those of O open a compressed source, under the
\* ids that id gives them.
Draws(old, V, p, q, bad, force, U, O, id) ==
  /\ U = {c \in V : force \/ Stale(old[c], c, p, q)}
  /\ O = {c \in U : q # "native" /\ Recording(c, p) \notin bad \cup {None}}
  /\ \A c \in Cameras : id[c] = NoId <=> c \notin O
  /\ \A c \in O : id[c] > ids /\ id[c] <= ids'
  /\ \A c, d \in O : id[c] = id[d] => c = d
  /\ ids' \in Ids \cup {ids} /\ ids' >= ids
  /\ \A s \in 1..ids' : s <= ids \/ \E c \in O : id[c] = s
  /\ cell' = [c \in Cameras |->
                IF c \in shown \ V THEN NoCell
                ELSE IF c \in U THEN Opened(old[c], c, p, q, bad, id[c]) ELSE old[c]]
  /\ deletes' = deletes \cup JobsOf((shown \ V) \cup U)
  /\ pending' = pending \cup JobsOf((shown \ V) \cup U)
  /\ loads' = loads \cup
       {[id |-> id[c], cam |-> c, stage |-> "release",
         waits |-> pending \cup Superseded(U, shown \ V, c)] : c \in O}
  /\ shown' = V /\ at' = p /\ profile' = q /\ broken' = bad

LEMMA RenderDraws ==
  ASSUME TypeOK, NEW old, NEW V \in SUBSET Cameras, NEW p, NEW q, NEW bad, NEW force,
         Render(old, V, p, q, bad, force)
  PROVE  \E U \in SUBSET V : \E O \in SUBSET U, id \in [Cameras -> Ids \cup {NoId}] :
           Draws(old, V, p, q, bad, force, U, O, id)
  <1> DEFINE U == {c \in V : force \/ Stale(old[c], c, p, q)}
             O == {c \in U : q # "native" /\ Recording(c, p) \notin bad \cup {None}}
             id == [c \in Cameras |-> IF c \in O THEN ids + Rank(O, c) ELSE NoId]
  <1>1. /\ ids + Cardinality(O) <= MaxIds /\ ids' = ids + Cardinality(O)
        /\ cell' = [c \in Cameras |->
                      CASE c \in shown \ V -> NoCell
                        [] c \in U -> Opened(old[c], c, p, q, bad, IF c \in O THEN ids + Rank(O, c) ELSE NoId)
                        [] OTHER -> old[c]]
        /\ Release(JobsOf((shown \ V) \cup U))
        /\ loads' = loads \cup
             {[id |-> IF c \in O THEN ids + Rank(O, c) ELSE NoId, cam |-> c, stage |-> "release",
               waits |-> pending \cup Superseded(U, shown \ V, c)] : c \in O}
        /\ shown' = V /\ at' = p /\ profile' = q /\ broken' = bad
    BY DEF Render, Rank
  <1>2. O \in SUBSET Cameras /\ O \in SUBSET U /\ U \in SUBSET V /\ IsFiniteSet(O)
    BY CompressedSourceAssumption, FS_Subset DEF CompressedSourceAssumption
  <1>3. Cardinality(O) \in Nat /\ ids \in Nat /\ MaxIds \in Nat
    BY <1>2, FS_CardinalityType, CompressedSourceAssumption DEF CompressedSourceAssumption, TypeOK
  <1>4. \A c \in O : Rank(O, c) \in 1..Cardinality(O)
    BY <1>2, RankBounds
  <1>5. \A c, d \in O : Rank(O, c) = Rank(O, d) => c = d
    BY <1>2, RankInjective
  <1> HIDE DEF U, O
  <1>6. \A c \in O : id[c] > ids /\ id[c] <= ids' /\ id[c] \in Ids
    BY <1>1, <1>2, <1>3, <1>4 DEF Ids
  <1>7. \A c, d \in O : id[c] = id[d] => c = d
    BY <1>2, <1>3, <1>4, <1>5
  <1>8. id \in [Cameras -> Ids \cup {NoId}] /\ \A c \in Cameras : id[c] = NoId <=> c \notin O
    <2>1. \A c \in Cameras : c \notin O => id[c] = NoId
      OBVIOUS
    <2>2. \A c \in O : id[c] # NoId
      BY <1>3, <1>6 DEF NoId
    <2>3. id \in [Cameras -> Ids \cup {NoId}]
      BY <1>6
    <2> QED BY <2>1, <2>2, <2>3
  <1>9. ids' \in Ids \cup {ids} /\ ids' >= ids
    BY <1>1, <1>3 DEF Ids
  <1>10. cell' = [c \in Cameras |->
                IF c \in shown \ V THEN NoCell
                ELSE IF c \in U THEN Opened(old[c], c, p, q, bad, id[c]) ELSE old[c]]
    BY <1>1, <1>2
  <1>11. loads' = loads \cup
       {[id |-> id[c], cam |-> c, stage |-> "release",
         waits |-> pending \cup Superseded(U, shown \ V, c)] : c \in O}
    BY <1>1, <1>2
  <1>12. ASSUME NEW s \in 1..ids', ~(s <= ids) PROVE \E c \in O : id[c] = s
    <2> DEFINE k == s - ids
    <2>1. k \in 1..Cardinality(O) /\ ids + k = s
      BY <1>1, <1>3, <1>12
    <2>2. PICK c \in O : Rank(O, c) = k
      BY <1>2, <2>1, RankOnto
    <2> QED BY <1>2, <2>1, <2>2
  <1>13. Draws(old, V, p, q, bad, force, U, O, id)
    <2>1. /\ U = {c \in V : force \/ Stale(old[c], c, p, q)}
          /\ O = {c \in U : q # "native" /\ Recording(c, p) \notin bad \cup {None}}
      BY DEF U, O
    <2> HIDE DEF id
    <2> QED BY <1>1, <1>6, <1>7, <1>8, <1>9, <1>10, <1>11, <1>12, <2>1 DEF Draws, Release
  <1> HIDE DEF id
  <1> QED BY <1>2, <1>8, <1>13

\* The cells that a caller passes to renderPlayers(): at most their keys were
\* forgotten and their timers cleared.
Prepared(old) ==
  /\ old \in [Cameras -> Cells]
  /\ \A c \in Cameras :
       /\ old[c].rec = cell[c].rec /\ old[c].job = cell[c].job /\ old[c].src = cell[c].src
       /\ old[c].failed = cell[c].failed /\ old[c].dropped = cell[c].dropped
       /\ old[c].timer => cell[c].timer

LEMMA Types ==
  ASSUME TypeOK
  PROVE  /\ ids \in Nat /\ MaxIds \in Nat /\ ids <= MaxIds
         /\ pending \subseteq Ids /\ posts \subseteq Ids /\ deletes \subseteq Ids /\ unsure \subseteq Ids
         /\ \A c \in Cameras : cell[c] \in Cells /\ cell[c].job \in Ids \cup {NoId}
         /\ \A C : C \subseteq Cameras => JobsOf(C) \subseteq Ids
  <1>1. ids \in Nat /\ MaxIds \in Nat /\ ids <= MaxIds
    BY CompressedSourceAssumption DEF CompressedSourceAssumption, TypeOK
  <1>2. pending \subseteq Ids /\ posts \subseteq Ids /\ deletes \subseteq Ids /\ unsure \subseteq Ids
    BY DEF TypeOK
  <1>3. \A c \in Cameras : cell[c] \in Cells /\ cell[c].job \in Ids \cup {NoId}
    BY DEF TypeOK, Cells
  <1>4. \A C : C \subseteq Cameras => JobsOf(C) \subseteq Ids
    BY <1>3 DEF JobsOf
  <1> QED BY <1>1, <1>2, <1>3, <1>4

LEMMA EmptyCell ==
  /\ NoCell \in Cells
  /\ NoCell.job = NoId /\ NoCell.rec = None /\ NoCell.src = FALSE /\ NoCell.timer = FALSE
  BY DEF NoCell, Cells, Keys

\* The cells after a rendering.
LEMMA DrawnCells ==
  ASSUME TypeOK, NEW old, Prepared(old), NEW V \in SUBSET Cameras, NEW p \in Positions,
         NEW q \in Profiles, NEW bad, NEW force, NEW U, NEW O, NEW id \in [Cameras -> Ids \cup {NoId}],
         Draws(old, V, p, q, bad, force, U, O, id), NEW c \in Cameras
  PROVE  /\ cell'[c] \in Cells
         /\ c \in shown \ V => cell'[c].job = NoId /\ cell'[c].rec = None /\ ~cell'[c].timer
         /\ c \in U => IsOpened(cell'[c], c, p, q, bad, id[c])
         /\ c \notin (shown \ V) \cup U => cell'[c] = old[c]
  <1>1. U \subseteq V
    BY DEF Draws
  <1>2. CASE c \in shown \ V
    <2>1. cell'[c] = NoCell
      BY <1>2 DEF Draws
    <2> QED BY <1>1, <1>2, <2>1, EmptyCell
  <1>3. CASE c \in U
    <2>1. cell'[c] = Opened(old[c], c, p, q, bad, id[c]) /\ c \notin shown \ V
      BY <1>1, <1>3 DEF Draws
    <2>2. old[c] \in Cells /\ id[c] \in Ids \cup {NoId}
      BY DEF Prepared
    <2>3. IsOpened(cell'[c], c, p, q, bad, id[c])
      BY <2>1, <2>2, OpenedCell
    <2> QED BY <1>3, <2>1, <2>3 DEF IsOpened
  <1>4. CASE c \notin (shown \ V) \cup U
    <2>1. cell'[c] = old[c] /\ old[c] \in Cells
      BY <1>4 DEF Draws, Prepared
    <2> QED BY <1>4, <2>1
  <1> QED BY <1>2, <1>3, <1>4

\* What the lemmas below know of the state and of the rendering.
Drawing(old, V, p, q, bad, force, U, O, id) ==
  /\ TypeOK /\ IdsFresh /\ Accounted /\ CellsClean
  /\ Prepared(old)
  /\ Draws(old, V, p, q, bad, force, U, O, id)
  /\ V \subseteq Cameras /\ p \in Positions /\ q \in Profiles /\ bad \subseteq Recordings
  /\ U \subseteq V /\ O \subseteq U /\ id \in [Cameras -> Ids \cup {NoId}]
  /\ playing' \in BOOLEAN
  /\ UNCHANGED <<posts, answers, unsure, faults, lease>>

LEMMA DrawingTypes ==
  ASSUME NEW old, NEW V, NEW p, NEW q, NEW bad, NEW force, NEW U, NEW O, NEW id,
         Drawing(old, V, p, q, bad, force, U, O, id)
  PROVE  TypeOK'
  <1>1. TypeOK /\ Prepared(old) /\ Draws(old, V, p, q, bad, force, U, O, id)
        /\ V \in SUBSET Cameras /\ p \in Positions /\ q \in Profiles /\ bad \subseteq Recordings
        /\ U \subseteq V /\ O \subseteq U /\ id \in [Cameras -> Ids \cup {NoId}]
        /\ playing' \in BOOLEAN
        /\ UNCHANGED <<posts, answers, unsure, faults, lease>>
    BY DEF Drawing
  <1>2. cell' \in [Cameras -> Cells]
    <2>1. \A c \in Cameras : cell'[c] \in Cells
      BY <1>1, DrawnCells
    <2>2. cell' = [c \in Cameras |-> cell'[c]]
      BY <1>1 DEF Draws
    <2> QED BY <2>1, <2>2
  <1>3. /\ \A C : C \subseteq Cameras => JobsOf(C) \subseteq Ids
        /\ pending \subseteq Ids /\ deletes \subseteq Ids /\ ids \in Nat /\ MaxIds \in Nat /\ ids <= MaxIds
        /\ shown \subseteq Cameras
    BY <1>1, Types DEF TypeOK
  <1>4. loads' \subseteq Loads
    <2>1. \A c \in O : id[c] \in Ids /\ c \in Cameras
      BY <1>1 DEF Draws
    <2>2. \A c \in O : pending \cup Superseded(U, shown \ V, c) \in SUBSET Ids
      <3>1. ASSUME NEW c \in O
            PROVE  JobsOf(shown \ V) \subseteq Ids /\ JobsOf({d \in U : d <= c}) \subseteq Ids
        <4>1. shown \ V \subseteq Cameras /\ {d \in U : d <= c} \subseteq Cameras
          BY <1>1, <1>3
        <4> QED BY <1>3, <4>1
      <3> QED BY <1>3, <3>1 DEF Superseded
    <2>3. \A c \in O : [id |-> id[c], cam |-> c, stage |-> "release",
                        waits |-> pending \cup Superseded(U, shown \ V, c)] \in Loads
      BY <2>1, <2>2 DEF Loads
    <2>4. loads \subseteq Loads
      BY <1>1 DEF TypeOK
    <2>5. loads' = loads \cup {[id |-> id[c], cam |-> c, stage |-> "release",
                                waits |-> pending \cup Superseded(U, shown \ V, c)] : c \in O}
      BY <1>1 DEF Draws
    <2> QED BY <2>3, <2>4, <2>5
  <1>5. ids' \in 0..MaxIds
    BY <1>1, <1>3 DEF Draws, Ids
  <1>6. pending' \subseteq Ids /\ deletes' \subseteq Ids
    <2>1. JobsOf((shown \ V) \cup U) \subseteq Ids
      <3>1. (shown \ V) \cup U \subseteq Cameras
        BY <1>1, <1>3
      <3> QED BY <1>3, <3>1
    <2> QED BY <1>1, <1>3, <2>1 DEF Draws
  <1>7. shown' \subseteq Cameras /\ at' \in Positions /\ profile' \in Profiles /\ broken' \subseteq Recordings
    BY <1>1 DEF Draws
  <1> QED BY <1>1, <1>2, <1>4, <1>5, <1>6, <1>7 DEF TypeOK

\* What a rendering leaves of the sessions: the jobs of the cells afterwards.
LEMMA DrawnJobs ==
  ASSUME NEW old, NEW V, NEW p, NEW q, NEW bad, NEW force, NEW U, NEW O, NEW id,
         Drawing(old, V, p, q, bad, force, U, O, id)
  PROVE  /\ ids \in Nat /\ ids' \in Nat /\ ids <= ids'
         /\ \A c \in Cameras : id[c] \in Nat /\ (id[c] = NoId <=> c \notin O)
         /\ \A c \in O : c \in Cameras /\ c \in Nat /\ id[c] \in Ids /\ ids < id[c] /\ id[c] <= ids'
         /\ \A c \in U : cell'[c].job = id[c]
         /\ \A c \in Cameras : c \notin U /\ cell'[c].job # NoId =>
              c \in shown /\ c \in V /\ cell'[c].job = cell[c].job
         /\ \A c \in shown : c \in V /\ c \notin U => cell'[c].job = cell[c].job
  <1>1. TypeOK /\ CellsClean /\ Prepared(old) /\ Draws(old, V, p, q, bad, force, U, O, id)
        /\ V \in SUBSET Cameras /\ p \in Positions /\ q \in Profiles
        /\ U \subseteq V /\ O \subseteq U /\ id \in [Cameras -> Ids \cup {NoId}]
    BY DEF Drawing
  <1>2. ids \in Nat /\ MaxIds \in Nat /\ shown \subseteq Cameras /\ Cameras \subseteq Nat
    BY <1>1, Types, CompressedSourceAssumption DEF CompressedSourceAssumption, TypeOK
  <1>3. ids' \in Nat /\ ids <= ids'
    BY <1>1, <1>2 DEF Draws, Ids
  <1>4. \A c \in Cameras : id[c] \in Nat /\ (id[c] = NoId <=> c \notin O)
    <2>1. \A c \in Cameras : id[c] \in Ids \cup {NoId}
      BY <1>1
    <2>2. Ids \cup {NoId} \subseteq Nat
      BY DEF Ids, NoId
    <2> QED BY <1>1, <2>1, <2>2 DEF Draws
  <1>5. \A c \in O : c \in Cameras /\ c \in Nat /\ id[c] \in Ids /\ ids < id[c] /\ id[c] <= ids'
    <2>1. \A c \in O : c \in Cameras /\ c \in Nat /\ id[c] \in Ids
      BY <1>1, <1>2, <1>4
    <2>2. \A c \in O : id[c] > ids /\ id[c] <= ids'
      BY <1>1 DEF Draws
    <2> QED BY <1>2, <1>4, <2>1, <2>2
  <1>6. ASSUME NEW c \in U PROVE cell'[c].job = id[c]
    <2>1. IsOpened(cell'[c], c, p, q, bad, id[c])
      BY <1>1, DrawnCells
    <2> QED BY <2>1 DEF IsOpened
  <1>7. ASSUME NEW c \in Cameras, c \notin U
        PROVE  /\ cell'[c].job # NoId => c \in shown /\ c \in V /\ cell'[c].job = cell[c].job
               /\ c \in shown /\ c \in V => cell'[c].job = cell[c].job
    <2>1. CASE c \in shown \ V
      BY <1>1, <2>1, DrawnCells
    <2>2. CASE c \notin (shown \ V) \cup U
      <3>1. cell'[c] = old[c]
        BY <1>1, <2>2 DEF Draws
      <3>3. old[c].job = cell[c].job
        BY <1>1 DEF Prepared
      <3>2. c \notin shown => cell[c].job = NoId
        BY <1>1 DEF CellsClean
      <3> QED BY <2>2, <3>1, <3>2, <3>3
    <2> QED BY <1>7, <2>1, <2>2
  <1> QED BY <1>2, <1>3, <1>4, <1>5, <1>6, <1>7

LEMMA DrawingAccounted ==
  ASSUME NEW old, NEW V, NEW p, NEW q, NEW bad, NEW force, NEW U, NEW O, NEW id,
         Drawing(old, V, p, q, bad, force, U, O, id)
  PROVE  IdsFresh' /\ Accounted' /\ CellsClean'
  <1>1. TypeOK /\ IdsFresh /\ Accounted /\ CellsClean /\ Prepared(old)
        /\ Draws(old, V, p, q, bad, force, U, O, id)
        /\ V \in SUBSET Cameras /\ p \in Positions /\ q \in Profiles
        /\ U \subseteq V /\ O \subseteq U /\ id \in [Cameras -> Ids \cup {NoId}]
        /\ UNCHANGED <<posts, unsure, lease>>
    BY DEF Drawing
  <1>2. /\ shown' = V
        /\ deletes' = deletes \cup JobsOf((shown \ V) \cup U)
        /\ pending' = pending \cup JobsOf((shown \ V) \cup U)
        /\ loads' = loads \cup {[id |-> id[c], cam |-> c, stage |-> "release",
                                 waits |-> pending \cup Superseded(U, shown \ V, c)] : c \in O}
        /\ \A s \in 1..ids' : s <= ids \/ \E c \in O : id[c] = s
    BY <1>1 DEF Draws
  <1>3. shown \subseteq Cameras
    BY <1>1 DEF TypeOK
  <1>4. IdsFresh'
    <2>1. ASSUME NEW c \in Cameras PROVE cell'[c].job <= ids'
      <3>1. cell[c].job \in Nat /\ cell[c].job <= ids
        <4>1. cell[c].job \in Ids \cup {NoId}
          BY <1>1, Types
        <4> QED BY <1>1, <4>1 DEF IdsFresh, Ids, NoId
      <3>2. CASE c \in O
        BY <1>1, <3>2, DrawnJobs
      <3>3. CASE c \in U /\ c \notin O
        BY <3>3, DrawnJobs DEF NoId
      <3>4. CASE c \notin U /\ cell'[c].job # NoId
        BY <3>1, <3>4, DrawnJobs
      <3>5. CASE c \notin U /\ cell'[c].job = NoId
        BY <3>5, DrawnJobs DEF NoId
      <3> QED BY <3>2, <3>3, <3>4, <3>5
    <2>2. ASSUME NEW l \in loads' PROVE l.id <= ids'
      <3>1. CASE l \in loads
        <4>1. l.id \in Nat /\ l.id <= ids
          BY <1>1, <3>1 DEF IdsFresh, TypeOK, Loads, Ids
        <4> QED BY <4>1, DrawnJobs
      <3>2. CASE l \notin loads
        <4>1. PICK c \in O : l.id = id[c]
          BY <1>2, <3>2
        <4> QED BY <4>1, DrawnJobs
      <3> QED BY <3>1, <3>2
    <2>3. ASSUME NEW s \in Ids, Sent(s)' PROVE s <= ids'
      <3>1. Sent(s) /\ s \in Nat
        BY <1>1, <2>3 DEF Sent, Ids
      <3>2. s <= ids
        BY <1>1, <3>1 DEF IdsFresh
      <3> QED BY <3>1, <3>2, DrawnJobs
    <2> QED BY <2>1, <2>2, <2>3 DEF IdsFresh
  <1>5. Accounted'
    <2>1. ASSUME NEW s \in 1..ids', ~(s <= ids) PROVE InUse(s)'
      <3>1. PICK c \in O : id[c] = s
        BY <1>2, <2>1
      <3>2. c \in shown' /\ cell'[c].job = s /\ s # NoId
        BY <1>1, <1>2, <3>1, DrawnJobs
      <3> QED BY <3>2 DEF InUse, JobsOf
    <2>2. ASSUME NEW s \in 1..ids', s <= ids, InUse(s) PROVE InUse(s)' \/ s \in pending'
      <3>1. PICK c \in shown : cell[c].job = s /\ s # NoId
        BY <2>2 DEF InUse, JobsOf
      <3>2. CASE c \in V /\ c \notin U
        <4>1. c \in shown' /\ cell'[c].job = s
          BY <1>2, <3>1, <3>2, DrawnJobs
        <4> QED BY <3>1, <4>1 DEF InUse, JobsOf
      <3>3. CASE c \in (shown \ V) \cup U
        <4>1. s \in JobsOf((shown \ V) \cup U)
          BY <3>1, <3>3 DEF JobsOf
        <4> QED BY <1>2, <4>1
      <3> QED BY <3>2, <3>3
    <2>3. ASSUME NEW s \in 1..ids', s <= ids
          PROVE  InUse(s) \/ s \in pending \cup unsure \/ lease[s] = "over"
      <3>1. s \in 1..ids
        BY <2>3, DrawnJobs
      <3> QED BY <1>1, <3>1 DEF Accounted
    <2>4. pending' \subseteq deletes'
      BY <1>1, <1>2 DEF Accounted
    <2>5. \A s \in 1..ids' : InUse(s)' \/ s \in pending' \cup unsure' \/ lease'[s] = "over"
      BY <1>1, <1>2, <2>1, <2>2, <2>3
    <2> QED BY <2>4, <2>5 DEF Accounted
  <1>6. CellsClean'
    <2>1. ASSUME NEW c \in Cameras
          PROVE  /\ c \notin V => cell'[c].job = NoId /\ cell'[c].rec = None
                 /\ cell'[c].job # NoId => cell'[c].rec # None
                 /\ cell'[c].timer => cell'[c].job # NoId
      <3>1. CASE c \in shown \ V
        BY <1>1, <3>1, DrawnCells
      <3>2. CASE c \in U
        <4>1. IsOpened(cell'[c], c, p, q, bad, id[c])
          BY <1>1, <3>2, DrawnCells
        <4>2. id[c] # NoId => Recording(c, p) # None
          BY <1>1, <3>2, DrawnJobs DEF Draws
        <4> QED BY <1>1, <3>2, <4>1, <4>2 DEF IsOpened
      <3>3. CASE c \notin (shown \ V) \cup U
        <4>1. cell'[c] = old[c]
          BY <1>1, <3>3, DrawnCells
        <4>2. old[c].job = cell[c].job /\ old[c].rec = cell[c].rec /\ (old[c].timer => cell[c].timer)
          BY <1>1 DEF Prepared
        <4>3. /\ c \notin shown => cell[c].job = NoId /\ cell[c].rec = None
              /\ cell[c].job # NoId => cell[c].rec # None
              /\ cell[c].timer => cell[c].job # NoId
          BY <1>1 DEF CellsClean
        <4> QED BY <3>3, <4>1, <4>2, <4>3
      <3> QED BY <3>1, <3>2, <3>3
    <2> QED BY <1>2, <2>1 DEF CellsClean
  <1> QED BY <1>4, <1>5, <1>6

\* The other cells on display: unchanged, up to what Prepared allows.
LEMMA KeptCells ==
  ASSUME NEW old, NEW V, NEW p, NEW q, NEW bad, NEW force, NEW U, NEW O, NEW id,
         Drawing(old, V, p, q, bad, force, U, O, id),
         NEW c \in V, c \notin U
  PROVE  /\ c \in Cameras /\ cell'[c] = old[c]
         /\ cell'[c].rec = cell[c].rec /\ cell'[c].job = cell[c].job /\ cell'[c].src = cell[c].src
         /\ cell'[c].failed = cell[c].failed /\ cell'[c].dropped = cell[c].dropped
         /\ c \notin shown => cell[c].job = NoId /\ cell[c].rec = None
         /\ ~force
  <1>1. CellsClean /\ Prepared(old) /\ Draws(old, V, p, q, bad, force, U, O, id) /\ c \in Cameras
    BY DEF Drawing
  <1>2. cell'[c] = old[c]
    BY <1>1 DEF Draws
  <1>3. ~force
    BY <1>1 DEF Draws
  <1>4. c \notin shown => cell[c].job = NoId /\ cell[c].rec = None
    BY <1>1 DEF CellsClean
  <1>5. /\ old[c].rec = cell[c].rec /\ old[c].job = cell[c].job /\ old[c].src = cell[c].src
        /\ old[c].failed = cell[c].failed /\ old[c].dropped = cell[c].dropped
    BY <1>1 DEF Prepared
  <1> QED BY <1>1, <1>2, <1>3, <1>4, <1>5

\* The updated cells.
LEMMA UpdatedCells ==
  ASSUME NEW old, NEW V, NEW p, NEW q, NEW bad, NEW force, NEW U, NEW O, NEW id,
         Drawing(old, V, p, q, bad, force, U, O, id),
         NEW c \in U
  PROVE  /\ c \in Cameras /\ IsOpened(cell'[c], c, p, q, bad, id[c])
         /\ c \in O <=> q # "native" /\ Recording(c, p) \notin bad \cup {None}
  <1>1. TypeOK /\ Prepared(old) /\ Draws(old, V, p, q, bad, force, U, O, id)
        /\ V \in SUBSET Cameras /\ p \in Positions /\ q \in Profiles
        /\ U \subseteq V /\ id \in [Cameras -> Ids \cup {NoId}] /\ c \in Cameras
    BY DEF Drawing
  <1>2. IsOpened(cell'[c], c, p, q, bad, id[c])
    BY <1>1, DrawnCells
  <1>3. c \in O <=> q # "native" /\ Recording(c, p) \notin bad \cup {None}
    BY <1>1 DEF Draws
  <1> QED BY <1>1, <1>2, <1>3

LEMMA DrawingAdmitted ==
  ASSUME NEW old, NEW V, NEW p, NEW q, NEW bad, NEW force, NEW U, NEW O, NEW id,
         Drawing(old, V, p, q, bad, force, U, O, id), AnswersAdmitted, SourceAdmitted
  PROVE  AnswersAdmitted' /\ SourceAdmitted'
  <1>1. UNCHANGED <<answers, lease>> /\ shown' = V
    BY DEF Drawing, Draws
  <1>2. AnswersAdmitted'
    BY <1>1 DEF AnswersAdmitted
  <1>3. ASSUME NEW c \in V, cell'[c].src, cell'[c].job # NoId
        PROVE  lease'[cell'[c].job] # "unknown"
    <2>1. CASE c \in U
      <3>1. IsOpened(cell'[c], c, p, q, bad, id[c])
        BY <2>1, UpdatedCells
      <3>2. q = "native" /\ cell'[c].job = id[c]
        BY <1>3, <3>1 DEF IsOpened
      <3>3. c \notin O /\ c \in Cameras
        BY <2>1, <3>2, UpdatedCells
      <3>4. id[c] = NoId
        BY <3>3, DrawnJobs
      <3> QED BY <1>3, <3>2, <3>4
    <2>2. CASE c \notin U
      <3>1. /\ cell'[c].job = cell[c].job /\ cell'[c].src = cell[c].src
            /\ c \notin shown => cell[c].job = NoId
        BY <2>2, KeptCells
      <3> QED BY <1>1, <1>3, <3>1 DEF SourceAdmitted
    <2> QED BY <2>1, <2>2
  <1>4. SourceAdmitted'
    BY <1>1, <1>3 DEF SourceAdmitted
  <1> QED BY <1>2, <1>4

LEMMA DrawingKept ==
  ASSUME NEW old, NEW V, NEW p, NEW q, NEW bad, NEW force, NEW U, NEW O, NEW id,
         Drawing(old, V, p, q, bad, force, U, O, id), CameraKept,
         playing' /\ ~playing => force \/ \A c \in shown : ~cell[c].dropped
  PROVE  CameraKept'
  <1>1. /\ shown' = V
        /\ loads' = loads \cup {[id |-> id[c], cam |-> c, stage |-> "release",
                                 waits |-> pending \cup Superseded(U, shown \ V, c)] : c \in O}
    BY DEF Drawing, Draws
  <1>2. ASSUME NEW c \in V, cell'[c].rec # None, ~cell'[c].failed
        PROVE  \/ cell'[c].src \/ \E l \in loads' : l.cam = c /\ cell'[c].job = l.id
               \/ ~playing' /\ cell'[c].dropped
    <2>1. CASE c \in U
      <3>1. IsOpened(cell'[c], c, p, q, bad, id[c])
        BY <2>1, UpdatedCells
      <3>2. Recording(c, p) # None /\ Recording(c, p) \notin bad /\ cell'[c].job = id[c]
        BY <1>2, <3>1 DEF IsOpened
      <3>3. CASE q = "native"
        BY <3>1, <3>2, <3>3 DEF IsOpened
      <3>4. CASE q # "native"
        <4>1. c \in O
          BY <2>1, <3>2, <3>4, UpdatedCells
        <4>2. [id |-> id[c], cam |-> c, stage |-> "release",
               waits |-> pending \cup Superseded(U, shown \ V, c)] \in loads'
          BY <1>1, <4>1
        <4> QED BY <3>2, <4>2
      <3> QED BY <3>3, <3>4
    <2>2. CASE c \notin U
      <3>1. /\ cell'[c].rec = cell[c].rec /\ cell'[c].job = cell[c].job /\ cell'[c].src = cell[c].src
            /\ cell'[c].failed = cell[c].failed /\ cell'[c].dropped = cell[c].dropped
            /\ ~force
        BY <2>2, KeptCells
      <3>2. c \in shown
        BY <1>2, <2>2, <3>1, KeptCells
      <3>3. \/ cell[c].src \/ \E l \in loads : l.cam = c /\ Wanted(l)
            \/ ~playing /\ cell[c].dropped
        BY <1>2, <3>1, <3>2 DEF CameraKept
      <3>4. CASE cell[c].src
        BY <3>1, <3>4
      <3>5. CASE \E l \in loads : l.cam = c /\ Wanted(l)
        <4>1. PICK l \in loads : l.cam = c /\ cell[c].job = l.id
          BY <3>5 DEF Wanted
        <4> QED BY <1>1, <3>1, <4>1
      <3>6. CASE ~playing /\ cell[c].dropped
        BY <3>1, <3>2, <3>6
      <3> QED BY <3>3, <3>4, <3>5, <3>6
    <2> QED BY <2>1, <2>2
  <1> QED BY <1>1, <1>2 DEF CameraKept, Wanted

LEMMA DrawingTimed ==
  ASSUME NEW old, NEW V, NEW p, NEW q, NEW bad, NEW force, NEW U, NEW O, NEW id,
         Drawing(old, V, p, q, bad, force, U, O, id), PausedIsTimed,
         \/ playing' \/ force
         \/ \A c \in shown : cell[c].job = NoId
         \/ ~playing /\ old = cell
  PROVE  PausedIsTimed'
  <1>1. shown' = V
    BY DEF Drawing, Draws
  <1>2. ASSUME NEW c \in V, ~playing', cell'[c].src, cell'[c].job # NoId
        PROVE  cell'[c].timer \/ cell'[c].full
    <2>1. CASE c \in U
      <3>1. IsOpened(cell'[c], c, p, q, bad, id[c])
        BY <2>1, UpdatedCells
      <3>2. q = "native" /\ cell'[c].job = id[c]
        BY <1>2, <3>1 DEF IsOpened
      <3>3. c \notin O /\ c \in Cameras
        BY <2>1, <3>2, UpdatedCells
      <3>4. id[c] = NoId
        BY <3>3, DrawnJobs
      <3> QED BY <1>2, <3>2, <3>4
    <2>2. CASE c \notin U
      <3>1. /\ cell'[c] = old[c] /\ cell'[c].job = cell[c].job /\ cell'[c].src = cell[c].src /\ ~force
            /\ c \notin shown => cell[c].job = NoId
        BY <2>2, KeptCells
      <3>2. c \in shown /\ ~playing /\ old = cell
        BY <1>2, <3>1
      <3> QED BY <1>2, <3>1, <3>2 DEF PausedIsTimed
    <2> QED BY <2>1, <2>2
  <1> QED BY <1>1, <1>2 DEF PausedIsTimed

\* A new session belongs to the camera it is opened for, and waits for every earlier
\* one of that camera whose release is not settled.
LEMMA DrawingTurns ==
  ASSUME NEW old, NEW V, NEW p, NEW q, NEW bad, NEW force, NEW U, NEW O, NEW id,
         Drawing(old, V, p, q, bad, force, U, O, id), CamerasTakeTurns
  PROVE  CamerasTakeTurns'
  <1>1. /\ TypeOK /\ IdsFresh /\ Accounted
        /\ U \subseteq V /\ V \subseteq Cameras /\ O \subseteq U
        /\ UNCHANGED <<posts, unsure, lease>>
    BY DEF Drawing
  <1>2. /\ loads' = loads \cup {[id |-> id[c], cam |-> c, stage |-> "release",
                                 waits |-> pending \cup Superseded(U, shown \ V, c)] : c \in O}
        /\ \A c, d \in O : id[c] = id[d] => c = d
        /\ \A s \in 1..ids' : s <= ids \/ \E c \in O : id[c] = s
    BY DEF Drawing, Draws
  <1>3. /\ ids \in Nat /\ ids' \in Nat /\ ids <= ids'
        /\ \A c \in O : c \in Cameras /\ c \in Nat /\ id[c] \in Ids /\ ids < id[c] /\ id[c] <= ids'
    BY DrawnJobs
  <1>4. PICK owner \in [Ids -> Cameras \cup {NoId}] : InTurn(owner)
    BY DEF CamerasTakeTurns
  <1> DEFINE camera(s) == CHOOSE c \in O : id[c] = s
             owner2 == [s \in Ids |-> IF \E c \in O : id[c] = s THEN camera(s) ELSE owner[s]]
  <1>5. \A c \in O : owner2[id[c]] = c
    <2>1. ASSUME NEW c \in O PROVE camera(id[c]) = c
      <3>1. camera(id[c]) \in O /\ id[camera(id[c])] = id[c]
        OBVIOUS
      <3> HIDE DEF camera
      <3> QED BY <1>2, <3>1
    <2> QED BY <1>3, <2>1
  <1>6. \A s \in Ids : s <= ids => owner2[s] = owner[s]
    <2>1. ASSUME NEW s \in Ids, s <= ids PROVE ~ \E c \in O : id[c] = s
      BY <1>3, <2>1 DEF Ids
    <2> QED BY <2>1
  <1>7. owner2 \in [Ids -> Cameras \cup {NoId}]
    <2>1. \A s \in Ids : (\E c \in O : id[c] = s) => camera(s) \in Cameras
      BY <1>3
    <2> HIDE DEF camera
    <2> QED BY <1>4, <2>1
  <1> HIDE DEF owner2
  <1>8. \A t \in Ids : Sent(t)' => Sent(t) /\ t <= ids
    BY <1>1 DEF Sent, IdsFresh
  <1>9. ASSUME NEW c \in Cameras, cell'[c].job # NoId PROVE owner2[cell'[c].job] = c
    <2>1. CASE c \in U
      BY <1>5, <1>9, <2>1, DrawnJobs
    <2>2. CASE c \notin U
      <3>1. cell'[c].job = cell[c].job
        BY <1>9, <2>2, DrawnJobs
      <3>2. cell[c].job \in Ids /\ cell[c].job <= ids
        BY <1>1, <1>9, <3>1, Types DEF IdsFresh
      <3> QED BY <1>4, <1>6, <1>9, <3>1, <3>2 DEF InTurn
    <2> QED BY <2>1, <2>2
  <1>10. ASSUME NEW l \in loads' PROVE owner2[l.id] = l.cam
    <2>1. CASE l \in loads
      <3>1. l.id \in Ids /\ l.id <= ids
        BY <1>1, <2>1 DEF TypeOK, Loads, IdsFresh
      <3> QED BY <1>4, <1>6, <2>1, <3>1 DEF InTurn
    <2>2. CASE l \notin loads
      <3>1. PICK c \in O : l.id = id[c] /\ l.cam = c
        BY <1>2, <2>2
      <3> QED BY <1>5, <3>1
    <2> QED BY <2>1, <2>2
  <1>11. \A t \in Ids : Sent(t)' => owner2[t] \in Cameras
    BY <1>4, <1>6, <1>8 DEF InTurn
  <1>12. ASSUME NEW s \in Ids, NEW t \in Ids, s < t, owner2[s] = owner2[t], Sent(t)'
         PROVE  lease'[s] = "over" \/ s \in unsure'
    <2>1. s <= ids /\ t <= ids /\ Sent(t)
      BY <1>3, <1>8, <1>12 DEF Ids
    <2>2. owner[s] = owner[t]
      BY <1>6, <1>12, <2>1
    <2> QED BY <1>1, <1>4, <1>12, <2>1, <2>2 DEF InTurn
  <1>13. ASSUME NEW l \in loads', NEW s \in Ids, l.stage = "release", s < l.id, owner2[s] = l.cam
         PROVE  lease'[s] = "over" \/ s \in l.waits \cup unsure'
    <2>1. CASE l \in loads
      <3>1. s <= ids
        <4>1. l.id \in Ids /\ l.id <= ids
          BY <1>1, <2>1 DEF TypeOK, Loads, IdsFresh
        <4> QED BY <1>3, <1>13, <4>1 DEF Ids
      <3>2. owner[s] = l.cam
        BY <1>6, <1>13, <3>1
      <3> QED BY <1>1, <1>4, <1>13, <2>1, <3>2 DEF InTurn
    <2>2. CASE l \notin loads
      <3> DEFINE W(c) == pending \cup Superseded(U, shown \ V, c)
      <3>1. loads' = loads \cup {[id |-> id[c], cam |-> c, stage |-> "release",
                                  waits |-> W(c)] : c \in O}
        BY <1>2
      <3> HIDE DEF W
      <3>2. PICK c \in O : l.id = id[c] /\ l.cam = c /\ l.waits = W(c)
        BY <2>2, <3>1
      <3>3. s <= ids
        <4>1. s \in 1..ids'
          BY <1>3, <1>13, <3>2 DEF Ids
        <4>2. ASSUME NEW d \in O, id[d] = s PROVE FALSE
          <5>1. d = c
            BY <1>5, <1>13, <3>2, <4>2
          <5> QED BY <1>3, <1>13, <3>2, <4>1, <4>2, <5>1
        <4> QED BY <1>2, <4>1, <4>2
      <3>4. owner[s] = c
        BY <1>6, <1>13, <3>2, <3>3
      <3>5. CASE InUse(s)
        <4>1. PICK d \in shown : cell[d].job = s /\ s # NoId
          BY <3>5 DEF InUse, JobsOf
        <4>2. d = c
          BY <1>1, <1>4, <3>4, <4>1 DEF InTurn, TypeOK
        <4>3. c \in {e \in U : e <= c}
          BY <1>1, <1>3
        <4>4. s \in Superseded(U, shown \ V, c)
          BY <4>1, <4>2, <4>3 DEF Superseded, JobsOf
        <4> QED BY <3>2, <4>4 DEF W
      <3>6. InUse(s) \/ s \in pending \cup unsure \/ lease[s] = "over"
        <4>1. s \in 1..ids
          BY <1>3, <3>3 DEF Ids
        <4> QED BY <1>1, <4>1 DEF Accounted
      <3> QED BY <1>1, <3>2, <3>5, <3>6 DEF W
    <2> QED BY <2>1, <2>2
  <1>14. InTurn(owner2)'
    BY <1>9, <1>10, <1>11, <1>12, <1>13 DEF InTurn
  <1> QED BY <1>7, <1>14 DEF CamerasTakeTurns

\* A rendering keeps the invariant.  It may start playback only when it opens what
\* was released while paused, and stop it only when no compressed source stays open.
LEMMA RenderKeeps ==
  ASSUME IInv, NEW old, Prepared(old), NEW V \in SUBSET Cameras, NEW p \in Positions,
         NEW q \in Profiles, NEW bad \in SUBSET Recordings, NEW force,
         Render(old, V, p, q, bad, force),
         playing' \in BOOLEAN, UNCHANGED <<posts, answers, unsure, faults, lease>>,
         playing' /\ ~playing => force \/ \A c \in shown : ~cell[c].dropped,
         \/ playing' \/ force
         \/ \A c \in shown : cell[c].job = NoId
         \/ ~playing /\ old = cell
  PROVE  IInv'
  <1>1. PICK U \in SUBSET V : \E O \in SUBSET U, id \in [Cameras -> Ids \cup {NoId}] :
                                Draws(old, V, p, q, bad, force, U, O, id)
    BY RenderDraws DEF IInv
  <1>2. PICK O \in SUBSET U, id \in [Cameras -> Ids \cup {NoId}] :
               Draws(old, V, p, q, bad, force, U, O, id)
    BY <1>1
  <1>3. Drawing(old, V, p, q, bad, force, U, O, id)
    BY <1>2 DEF Drawing, IInv
  <1>4. TypeOK'
    BY <1>3, DrawingTypes
  <1>5. IdsFresh' /\ Accounted' /\ CellsClean'
    BY <1>3, DrawingAccounted
  <1>6. AnswersAdmitted' /\ SourceAdmitted'
    BY <1>3, DrawingAdmitted DEF IInv
  <1>7. CameraKept'
    BY <1>3, DrawingKept DEF IInv
  <1>8. PausedIsTimed'
    BY <1>3, DrawingTimed DEF IInv
  <1>9. CamerasTakeTurns'
    BY <1>3, DrawingTurns DEF IInv
  <1> QED BY <1>4, <1>5, <1>6, <1>7, <1>8, <1>9 DEF IInv

-----------------------------------------------------------------------------
(* The user and the clock *)

LEMMA CellPrepared ==
  ASSUME TypeOK PROVE Prepared(cell)
  BY DEF TypeOK, Prepared

LEMMA DisplayKeeps ==
  ASSUME IInv, NEW V \in SUBSET Cameras, Display(V) PROVE IInv'
  <1>1. TypeOK /\ playing \in BOOLEAN /\ at \in Positions /\ profile \in Profiles
        /\ broken \in SUBSET Recordings
    BY DEF IInv, TypeOK
  <1>2. Prepared(cell)
    BY <1>1, CellPrepared
  <1>3. Render(cell, V, at, profile, broken, FALSE) /\ playing' = playing
        /\ UNCHANGED <<posts, answers, unsure, faults, lease>>
    BY DEF Display
  <1> QED BY <1>1, <1>2, <1>3, RenderKeeps

LEMMA SeekKeeps ==
  ASSUME IInv, NEW p \in Positions, Seek(p) PROVE IInv'
  <1>1. TypeOK /\ shown \in SUBSET Cameras /\ profile \in Profiles /\ broken \in SUBSET Recordings
    BY DEF IInv, TypeOK
  <1>2. Prepared(cell)
    BY <1>1, CellPrepared
  <1>3. Render(cell, shown, p, profile, broken, HasCompressed) /\ playing' = FALSE
        /\ UNCHANGED <<posts, answers, unsure, faults, lease>>
    BY DEF Seek
  <1>4. HasCompressed \/ \A c \in shown : cell[c].job = NoId
    BY DEF HasCompressed
  <1> QED BY <1>1, <1>2, <1>3, <1>4, RenderKeeps

LEMMA ClockCrossesKeeps ==
  ASSUME IInv, NEW p \in Positions, ClockCrosses(p) PROVE IInv'
  <1>1. TypeOK /\ shown \in SUBSET Cameras /\ profile \in Profiles /\ broken \in SUBSET Recordings
    BY DEF IInv, TypeOK
  <1>2. Prepared(cell)
    BY <1>1, CellPrepared
  <1>3. Render(cell, shown, p, profile, broken, FALSE) /\ playing /\ playing' = playing
        /\ playing \in BOOLEAN
        /\ UNCHANGED <<posts, answers, unsure, faults, lease>>
    BY <1>1 DEF ClockCrosses, TypeOK
  <1> QED BY <1>1, <1>2, <1>3, RenderKeeps

LEMMA ChangeQualityKeeps ==
  ASSUME IInv, NEW q \in Profiles, ChangeQuality(q) PROVE IInv'
  <1>1. TypeOK /\ shown \in SUBSET Cameras /\ at \in Positions /\ playing \in BOOLEAN
    BY DEF IInv, TypeOK
  <1>2. Prepared(cell)
    BY <1>1, CellPrepared
  <1>3. Render(cell, shown, at, q, {}, TRUE) /\ playing' = playing
        /\ UNCHANGED <<posts, answers, unsure, faults, lease>>
    BY DEF ChangeQuality
  <1> QED BY <1>1, <1>2, <1>3, RenderKeeps

LEMMA PlayKeeps ==
  ASSUME IInv, Play PROVE IInv'
  <1> DEFINE old == [c \in Cameras |->
                       [Untimed(cell[c]) EXCEPT !.key = IF cell[c].failed THEN NoKey ELSE @]]
             force == \E c \in shown : cell[c].dropped
  <1>1. TypeOK /\ shown \in SUBSET Cameras /\ at \in Positions /\ profile \in Profiles
        /\ cell \in [Cameras -> Cells]
    BY DEF IInv, TypeOK
  <1>2. Prepared(old)
    <2>1. ASSUME NEW c \in Cameras
          PROVE  /\ old[c] \in Cells
                 /\ old[c].rec = cell[c].rec /\ old[c].job = cell[c].job /\ old[c].src = cell[c].src
                 /\ old[c].failed = cell[c].failed /\ old[c].dropped = cell[c].dropped
                 /\ old[c].timer => cell[c].timer
      <3>1. cell[c] \in Cells /\ NoKey \in Keys
        BY <1>1 DEF Keys
      <3> QED BY <3>1 DEF Untimed, Cells
    <2> HIDE DEF old
    <2>2. old \in [Cameras -> Cells]
      BY <2>1 DEF old
    <2> QED BY <2>1, <2>2 DEF Prepared
  <1>3. Render(old, shown, at, profile, {}, force) /\ playing' = TRUE
        /\ UNCHANGED <<posts, answers, unsure, faults, lease>>
    BY DEF Play
  <1>4. force \/ \A c \in shown : ~cell[c].dropped
    OBVIOUS
  <1> HIDE DEF old, force
  <1> QED BY <1>1, <1>2, <1>3, <1>4, RenderKeeps

-----------------------------------------------------------------------------
(* Cells that lose their source *)

\* The sources of the cells of D are gone and their releases tracked; a load ends
\* when it is superseded or its cell is one of D.
Dropping(D) ==
  /\ D \subseteq Cameras /\ cell' \in [Cameras -> Cells]
  /\ \A c \in D : /\ cell'[c].job = NoId /\ cell'[c].src = FALSE /\ cell'[c].timer = FALSE
                  /\ cell'[c].rec = cell[c].rec
                  /\ cell'[c].failed \/ (~playing' /\ cell'[c].dropped)
  /\ \A c \in Cameras \ D : cell'[c] = cell[c]
  /\ Release(JobsOf(D))
  /\ loads' \subseteq loads /\ \A l \in loads \ loads' : ~Wanted(l) \/ l.cam \in D
  /\ answers' \subseteq answers
  /\ playing' \in BOOLEAN
  /\ playing' => playing
  /\ playing' = playing \/ \A c \in shown : cell[c].job # NoId => c \in D
  /\ broken' \subseteq Recordings /\ faults' \in 0..MaxFaults
  /\ UNCHANGED <<at, profile, shown, ids, posts, unsure, lease>>

LEMMA DroppingKeeps ==
  ASSUME IInv, NEW D, Dropping(D) PROVE IInv'
  <1>1. TypeOK /\ shown \subseteq Cameras /\ D \subseteq Cameras
    BY DEF IInv, TypeOK, Dropping
  <1>2. /\ \A c \in D : /\ cell'[c].job = NoId /\ cell'[c].src = FALSE /\ cell'[c].timer = FALSE
                        /\ cell'[c].rec = cell[c].rec
                        /\ cell'[c].failed \/ (~playing' /\ cell'[c].dropped)
        /\ \A c \in Cameras : c \notin D => cell'[c] = cell[c]
        /\ \A l \in loads' : l \in loads
        /\ UNCHANGED <<shown, ids, posts, unsure, lease>>
    BY DEF Dropping
  <1>3. deletes' = deletes \cup JobsOf(D) /\ pending' = pending \cup JobsOf(D)
    BY DEF Dropping, Release
  <1>4. \A c \in Cameras : cell'[c].job # NoId => c \notin D /\ cell'[c].job = cell[c].job
    BY <1>2
  <1>5. TypeOK'
    <2>1. JobsOf(D) \subseteq Ids
      BY <1>1, Types
    <2>2. loads' \subseteq Loads
      BY <1>1, <1>2 DEF TypeOK
    <2>3. answers' \subseteq Ids \X BOOLEAN
      BY <1>1 DEF TypeOK, Dropping
    <2>4. UNION {pending', posts', deletes', unsure'} \subseteq Ids
      BY <1>1, <1>2, <1>3, <2>1 DEF TypeOK
    <2>5. /\ playing' \in BOOLEAN /\ cell' \in [Cameras -> Cells]
          /\ broken' \subseteq Recordings /\ faults' \in 0..MaxFaults
          /\ UNCHANGED <<at, profile, shown, ids, posts, unsure, lease>>
      BY DEF Dropping
    <2>6. /\ at' \in Positions /\ profile' \in Profiles /\ shown' \subseteq Cameras
          /\ ids' \in 0..MaxIds /\ lease' \in [Ids -> Server!LeaseStates]
      BY <1>1, <2>5 DEF TypeOK
    <2> QED BY <2>2, <2>3, <2>4, <2>5, <2>6 DEF TypeOK
  <1>6. IdsFresh'
    <2>1. \A c \in Cameras : cell'[c].job <= ids
      <3>1. \A c \in Cameras : cell[c].job <= ids
        BY DEF IInv, IdsFresh
      <3>2. NoId <= ids
        BY <1>1, Types DEF NoId
      <3> QED BY <1>4, <3>1, <3>2
    <2> QED BY <1>2, <2>1 DEF IInv, IdsFresh, Sent
  <1>7. Accounted'
    <2>1. ASSUME NEW s, InUse(s) PROVE InUse(s)' \/ s \in pending'
      <3>1. PICK c \in shown : cell[c].job = s /\ s # NoId
        BY <2>1 DEF InUse, JobsOf
      <3>2. CASE c \in D
        BY <1>3, <3>1, <3>2 DEF JobsOf
      <3>3. CASE c \notin D
        <4>1. c \in shown' /\ cell'[c].job = s
          BY <1>1, <1>2, <3>1, <3>3
        <4> QED BY <3>1, <4>1 DEF InUse, JobsOf
      <3> QED BY <3>2, <3>3
    <2>2. \A s \in 1..ids : InUse(s) \/ s \in pending \cup unsure \/ lease[s] = "over"
      BY DEF IInv, Accounted
    <2>3. \A s \in 1..ids' : InUse(s)' \/ s \in pending' \cup unsure' \/ lease'[s] = "over"
      BY <1>2, <1>3, <2>1, <2>2
    <2> QED BY <1>3, <2>3 DEF IInv, Accounted
  <1>8. CellsClean'
    <2>1. ASSUME NEW c \in Cameras
          PROVE  /\ c \notin shown => cell'[c].job = NoId /\ cell'[c].rec = None
                 /\ cell'[c].job # NoId => cell'[c].rec # None
                 /\ cell'[c].timer => cell'[c].job # NoId
      <3>1. /\ c \notin shown => cell[c].job = NoId /\ cell[c].rec = None
            /\ cell[c].job # NoId => cell[c].rec # None
            /\ cell[c].timer => cell[c].job # NoId
        BY DEF IInv, CellsClean
      <3>2. CASE c \in D
        BY <1>2, <3>1, <3>2
      <3>3. CASE c \notin D
        BY <1>2, <3>1, <3>3
      <3> QED BY <3>2, <3>3
    <2> QED BY <1>2, <2>1 DEF CellsClean
  <1>9. AnswersAdmitted'
    BY <1>2 DEF IInv, AnswersAdmitted, Dropping
  <1>10. SourceAdmitted'
    BY <1>1, <1>2, <1>4 DEF IInv, SourceAdmitted
  <1>11. CameraKept'
    <2>1. ASSUME NEW c \in shown, cell'[c].rec # None, ~cell'[c].failed
          PROVE  \/ cell'[c].src \/ \E l \in loads' : l.cam = c /\ cell'[c].job = l.id
                 \/ ~playing' /\ cell'[c].dropped
      <3>1. CASE c \in D
        BY <1>2, <2>1, <3>1
      <3>2. CASE c \notin D
        <4>1. cell'[c] = cell[c]
          BY <1>1, <1>2, <3>2
        <4>2. \/ cell[c].src \/ \E l \in loads : l.cam = c /\ Wanted(l)
              \/ ~playing /\ cell[c].dropped
          BY <2>1, <4>1 DEF IInv, CameraKept
        <4>3. CASE \E l \in loads : l.cam = c /\ Wanted(l)
          <5>1. PICK l \in loads : l.cam = c /\ Wanted(l)
            BY <4>3
          <5>2. l \in loads'
            BY <3>2, <5>1 DEF Dropping
          <5> QED BY <4>1, <5>1, <5>2 DEF Wanted
        <4>4. playing' => playing
          BY DEF Dropping
        <4> QED BY <4>1, <4>2, <4>3, <4>4
      <3> QED BY <3>1, <3>2
    <2> QED BY <1>2, <2>1 DEF CameraKept, Wanted
  <1>12. PausedIsTimed'
    <2>1. ASSUME NEW c \in shown, ~playing', cell'[c].src, cell'[c].job # NoId
          PROVE  cell'[c].timer \/ cell'[c].full
      <3>1. c \notin D /\ cell'[c] = cell[c]
        BY <1>1, <1>2, <2>1
      <3>2. ~playing
        BY <2>1, <3>1 DEF Dropping
      <3> QED BY <2>1, <3>1, <3>2 DEF IInv, PausedIsTimed
    <2> QED BY <1>2, <2>1 DEF PausedIsTimed
  <1>13. CamerasTakeTurns'
    <2>1. PICK owner \in [Ids -> Cameras \cup {NoId}] : InTurn(owner)
      BY DEF IInv, CamerasTakeTurns
    <2>2. InTurn(owner)'
      BY <1>2, <1>4, <2>1 DEF InTurn, Sent
    <2> QED BY <2>2 DEF CamerasTakeTurns
  <1> QED BY <1>5, <1>6, <1>7, <1>8, <1>9, <1>10, <1>11, <1>12, <1>13 DEF IInv

\* failVideo() in a cell with a session.
LEMMA FailVideoDrops ==
  ASSUME IInv, NEW c \in Cameras, cell[c].job # NoId, FailVideo(c),
         loads' \subseteq loads, \A l \in loads \ loads' : ~Wanted(l) \/ l.cam = c,
         answers' \subseteq answers, faults' \in 0..MaxFaults,
         UNCHANGED <<playing, at, profile, shown, ids, posts, unsure, lease>>
  PROVE  IInv'
  <1>1. TypeOK /\ cell \in [Cameras -> Cells] /\ playing \in BOOLEAN /\ broken \subseteq Recordings
    BY DEF IInv, TypeOK
  <1> DEFINE y == [Cancelled(cell[c]) EXCEPT !.failed = TRUE]
  <1>2. cell' = [cell EXCEPT ![c] = y]
    BY DEF FailVideo
  <1>3. cell[c].rec \in Recordings
    <2>1. cell[c].rec # None
      BY DEF IInv, CellsClean
    <2> QED BY <1>1, <2>1 DEF Cells
  <1>4. y \in Cells /\ y.job = NoId /\ y.src = FALSE /\ y.timer = FALSE /\ y.failed = TRUE
        /\ y.rec = cell[c].rec
    <2>1. cell[c] \in Cells
      BY <1>1
    <2>2. y \in Cells /\ y.job = NoId /\ y.src = FALSE /\ y.timer = FALSE /\ y.failed = TRUE
         /\ y.rec = cell[c].rec
      BY <2>1, FailedCell
    <2> QED BY <2>2
  <1> HIDE DEF y
  <1>5. /\ cell' \in [Cameras -> Cells] /\ cell'[c] = y
        /\ \A d \in Cameras \ {c} : cell'[d] = cell[d]
    BY <1>1, <1>2, <1>4
  <1>6. broken' \subseteq Recordings /\ Release(JobsOf({c}))
    BY <1>1, <1>3 DEF FailVideo
  <1>7. Dropping({c})
    BY <1>1, <1>4, <1>5, <1>6 DEF Dropping
  <1> QED BY <1>7, DroppingKeeps

-----------------------------------------------------------------------------
(* Cells that keep their session *)

\* At most sources and timers change: a source is set once its session is admitted,
\* a timer where there is a session, and no source of a paused page is without one.
Touching ==
  /\ cell' \in [Cameras -> Cells]
  /\ \A c \in Cameras :
       /\ cell'[c].job = cell[c].job /\ cell'[c].rec = cell[c].rec
       /\ cell'[c].failed = cell[c].failed /\ cell'[c].dropped = cell[c].dropped
       /\ cell[c].src => cell'[c].src
       /\ cell'[c].timer => cell[c].job # NoId
       /\ cell'[c].src /\ cell[c].job # NoId =>
            (c \in shown /\ cell[c].src) \/ lease[cell[c].job] # "unknown"
       /\ c \in shown /\ ~playing' /\ cell'[c].src /\ cell[c].job # NoId =>
            cell'[c].timer \/ cell'[c].full
  /\ loads' \subseteq loads
  /\ \A l \in loads \ loads' : ~Wanted(l) \/ cell'[l.cam].src
  /\ answers' \subseteq answers
  /\ playing' \in BOOLEAN
  /\ playing' => playing
  /\ deletes \subseteq deletes' /\ deletes' \subseteq Ids
  /\ faults' \in 0..MaxFaults
  /\ UNCHANGED <<at, profile, shown, broken, ids, pending, posts, unsure, lease>>

LEMMA TouchingKeeps ==
  ASSUME IInv, Touching PROVE IInv'
  <1>1. TypeOK /\ shown \subseteq Cameras
    BY DEF IInv, TypeOK
  <1>2. \A c \in Cameras :
          /\ cell'[c].job = cell[c].job /\ cell'[c].rec = cell[c].rec
          /\ cell'[c].failed = cell[c].failed /\ cell'[c].dropped = cell[c].dropped
    BY DEF Touching
  <1>3. UNCHANGED <<at, profile, shown, broken, ids, pending, posts, unsure, lease>>
    BY DEF Touching
  <1>4. TypeOK'
    <2>1. /\ playing' \in BOOLEAN /\ cell' \in [Cameras -> Cells]
          /\ deletes' \subseteq Ids /\ faults' \in 0..MaxFaults
          /\ loads' \subseteq loads /\ answers' \subseteq answers
      BY DEF Touching
    <2>2. loads' \subseteq Loads /\ answers' \subseteq Ids \X BOOLEAN
      BY <1>1, <2>1 DEF TypeOK
    <2>3. /\ at' \in Positions /\ profile' \in Profiles /\ shown' \subseteq Cameras
          /\ broken' \subseteq Recordings
          /\ ids' \in 0..MaxIds /\ lease' \in [Ids -> Server!LeaseStates]
      BY <1>1, <1>3 DEF TypeOK
    <2>4. UNION {pending', posts', deletes', unsure'} \subseteq Ids
      BY <1>1, <1>3, <2>1 DEF TypeOK
    <2> QED BY <2>1, <2>2, <2>3, <2>4 DEF TypeOK
  <1>5. IdsFresh'
    <2>1. loads' \subseteq loads
      BY DEF Touching
    <2> QED BY <1>2, <1>3, <2>1 DEF IInv, IdsFresh, Sent
  <1>6. Accounted'
    <2>1. \A s : InUse(s)' <=> InUse(s)
      BY <1>1, <1>2, <1>3 DEF InUse, JobsOf
    <2>2. deletes \subseteq deletes'
      BY DEF Touching
    <2> QED BY <1>3, <2>1, <2>2 DEF IInv, Accounted
  <1>7. CellsClean'
    <2>1. \A c \in Cameras : cell'[c].timer => cell[c].job # NoId
      BY DEF Touching
    <2> QED BY <1>2, <1>3, <2>1 DEF IInv, CellsClean
  <1>8. AnswersAdmitted'
    <2>1. answers' \subseteq answers
      BY DEF Touching
    <2> QED BY <1>3, <2>1 DEF IInv, AnswersAdmitted
  <1>9. SourceAdmitted'
    <2>1. \A c \in Cameras : cell'[c].src /\ cell[c].job # NoId =>
            (c \in shown /\ cell[c].src) \/ lease[cell[c].job] # "unknown"
      BY DEF Touching
    <2> QED BY <1>1, <1>2, <1>3, <2>1 DEF IInv, SourceAdmitted
  <1>10. CameraKept'
    <2>1. ASSUME NEW c \in shown, cell'[c].rec # None, ~cell'[c].failed
          PROVE  \/ cell'[c].src \/ \E l \in loads' : l.cam = c /\ cell'[c].job = l.id
                 \/ ~playing' /\ cell'[c].dropped
      <3>1. c \in Cameras
        BY <1>1
      <3>2. \/ cell[c].src \/ \E l \in loads : l.cam = c /\ Wanted(l)
            \/ ~playing /\ cell[c].dropped
        BY <1>2, <2>1, <3>1 DEF IInv, CameraKept
      <3>3. CASE cell[c].src
        BY <3>1, <3>3 DEF Touching
      <3>4. CASE \E l \in loads : l.cam = c /\ Wanted(l)
        <4>1. PICK l \in loads : l.cam = c /\ Wanted(l)
          BY <3>4
        <4>2. CASE l \in loads'
          BY <1>2, <3>1, <4>1, <4>2 DEF Wanted
        <4>3. CASE l \notin loads'
          BY <4>1, <4>3 DEF Touching
        <4> QED BY <4>2, <4>3
      <3>5. CASE ~playing /\ cell[c].dropped
        <4>1. playing' => playing
          BY DEF Touching
        <4> QED BY <1>2, <3>1, <3>5, <4>1
      <3> QED BY <3>2, <3>3, <3>4, <3>5
    <2> QED BY <1>3, <2>1 DEF CameraKept, Wanted
  <1>11. PausedIsTimed'
    <2>1. \A c \in Cameras : c \in shown /\ ~playing' /\ cell'[c].src /\ cell[c].job # NoId =>
            cell'[c].timer \/ cell'[c].full
      BY DEF Touching
    <2> QED BY <1>1, <1>2, <1>3, <2>1 DEF PausedIsTimed
  <1>12. CamerasTakeTurns'
    <2>1. PICK owner \in [Ids -> Cameras \cup {NoId}] : InTurn(owner)
      BY DEF IInv, CamerasTakeTurns
    <2>2. loads' \subseteq loads
      BY DEF Touching
    <2>3. InTurn(owner)'
      BY <1>2, <1>3, <2>1, <2>2 DEF InTurn, Sent
    <2> QED BY <2>3 DEF CamerasTakeTurns
  <1> QED BY <1>4, <1>5, <1>6, <1>7, <1>8, <1>9, <1>10, <1>11, <1>12 DEF IInv

LEMMA StopKeeps ==
  ASSUME IInv, Stop PROVE IInv'
  <1>1. TypeOK /\ cell \in [Cameras -> Cells]
    BY DEF IInv, TypeOK
  <1>2. ASSUME NEW c \in Cameras
        PROVE  LET y == [cell[c] EXCEPT !.timer = @ \/ cell[c].job # NoId]
               IN /\ y \in Cells
                  /\ y.job = cell[c].job /\ y.rec = cell[c].rec /\ y.src = cell[c].src
                  /\ y.failed = cell[c].failed /\ y.dropped = cell[c].dropped
                  /\ y.timer = (cell[c].timer \/ cell[c].job # NoId)
    <2>1. cell[c] \in Cells
      BY <1>1
    <2> QED BY <2>1 DEF Cells
  <1>3. cell' = [c \in Cameras |-> [cell[c] EXCEPT !.timer = @ \/ cell[c].job # NoId]]
    BY DEF Stop
  <1>4. /\ cell' \in [Cameras -> Cells]
        /\ \A c \in Cameras :
             /\ cell'[c].job = cell[c].job /\ cell'[c].rec = cell[c].rec /\ cell'[c].src = cell[c].src
             /\ cell'[c].failed = cell[c].failed /\ cell'[c].dropped = cell[c].dropped
             /\ cell'[c].timer = (cell[c].timer \/ cell[c].job # NoId)
    BY <1>2, <1>3
  <1>5. \A c \in Cameras : /\ cell[c].timer => cell[c].job # NoId
                           /\ cell[c].job # NoId => c \in shown
    BY DEF IInv, CellsClean
  <1>6. playing' = FALSE
        /\ UNCHANGED <<at, profile, shown, broken, ids, loads, pending, posts, answers, deletes,
                       unsure, faults, lease>>
    BY DEF Stop, netVars
  <1>7. deletes' \subseteq Ids /\ faults' \in 0..MaxFaults
    BY <1>1, <1>6 DEF TypeOK
  <1>8. Touching
    BY <1>4, <1>5, <1>6, <1>7 DEF Touching
  <1> QED BY <1>8, TouchingKeeps

LEMMA HideKeeps ==
  ASSUME IInv, Hide PROVE IInv'
  <1> DEFINE D == {c \in Cameras : cell[c].job # NoId}
  <1>1. TypeOK /\ cell \in [Cameras -> Cells] /\ shown \subseteq Cameras
        /\ broken \subseteq Recordings /\ faults \in 0..MaxFaults
    BY DEF IInv, TypeOK
  <1>2. /\ playing' = FALSE /\ Release(JobsOf(shown))
        /\ cell' = [c \in Cameras |-> IF cell[c].job # NoId THEN Cancelled(cell[c]) ELSE cell[c]]
        /\ UNCHANGED <<at, profile, shown, broken, ids, loads, posts, answers, unsure, faults, lease>>
    BY DEF Hide
  <1>3. JobsOf(shown) = JobsOf(D)
    BY <1>1 DEF JobsOf, IInv, CellsClean
  <1>4. ASSUME NEW c \in Cameras
        PROVE  /\ Cancelled(cell[c]) \in Cells /\ Cancelled(cell[c]).job = NoId
               /\ Cancelled(cell[c]).src = FALSE /\ Cancelled(cell[c]).timer = FALSE
               /\ Cancelled(cell[c]).rec = cell[c].rec
               /\ cell[c].job # NoId => Cancelled(cell[c]).dropped
    <2>1. cell[c] \in Cells
      BY <1>1
    <2> QED BY <2>1, CancelledCell
  <1>5. /\ cell' \in [Cameras -> Cells]
        /\ \A c \in D : /\ cell'[c].job = NoId /\ cell'[c].src = FALSE /\ cell'[c].timer = FALSE
                        /\ cell'[c].rec = cell[c].rec
                        /\ cell'[c].dropped
        /\ \A c \in Cameras \ D : cell'[c] = cell[c]
    BY <1>1, <1>2, <1>4
  <1>6. D \subseteq Cameras /\ \A c \in shown : cell[c].job # NoId => c \in D
    BY <1>1
  <1> HIDE DEF D
  <1>7. Dropping(D)
    BY <1>1, <1>2, <1>3, <1>5, <1>6 DEF Dropping
  <1> QED BY <1>7, DroppingKeeps

LEMMA PauseTimerKeeps ==
  ASSUME IInv, NEW c \in Cameras, PauseTimer(c) PROVE IInv'
  <1>1. TypeOK /\ cell \in [Cameras -> Cells] /\ cell[c] \in Cells /\ playing \in BOOLEAN
        /\ broken \subseteq Recordings /\ faults \in 0..MaxFaults /\ deletes \subseteq Ids
    BY DEF IInv, TypeOK
  <1>2. cell[c].timer /\ ~playing /\ cell[c].job # NoId /\ c \in shown
    BY DEF PauseTimer, IInv, CellsClean
  <1>3. UNCHANGED <<playing, at, profile, shown, broken, ids, loads, posts, answers, unsure, faults, lease>>
    BY DEF PauseTimer
  <1>4. CASE cell' = [cell EXCEPT ![c] = Cancelled(@)] /\ Release(JobsOf({c}))
    <2> DEFINE y == Cancelled(cell[c])
    <2>1. /\ y \in Cells /\ y.job = NoId /\ y.src = FALSE /\ y.timer = FALSE /\ y.rec = cell[c].rec
          /\ y.dropped
      BY <1>1, <1>2, CancelledCell
    <2>2. cell' = [cell EXCEPT ![c] = y]
      BY <1>4
    <2> HIDE DEF y
    <2>3. /\ cell' \in [Cameras -> Cells] /\ cell'[c] = y
          /\ \A d \in Cameras \ {c} : cell'[d] = cell[d]
      BY <1>1, <2>1, <2>2
    <2>4. Dropping({c})
      BY <1>1, <1>2, <1>3, <1>4, <2>1, <2>3 DEF Dropping
    <2> QED BY <2>4, DroppingKeeps
  <1>5. CASE /\ cell' = [cell EXCEPT ![c] = [Untimed(@) EXCEPT !.full = TRUE]]
             /\ UNCHANGED <<pending, deletes>>
    <2> DEFINE y == [Untimed(cell[c]) EXCEPT !.full = TRUE]
    <2>1. /\ y \in Cells /\ y.job = cell[c].job /\ y.src = cell[c].src /\ y.rec = cell[c].rec
          /\ y.failed = cell[c].failed /\ y.dropped = cell[c].dropped
          /\ y.timer = FALSE /\ y.full = TRUE
      BY <1>1 DEF Untimed, Cells
    <2>2. cell' = [cell EXCEPT ![c] = y]
      BY <1>5
    <2> HIDE DEF y
    <2>3. /\ cell' \in [Cameras -> Cells] /\ cell'[c] = y
          /\ \A d \in Cameras \ {c} : cell'[d] = cell[d]
      BY <1>1, <2>1, <2>2
    <2>4. \A d \in Cameras : /\ cell[d].timer => cell[d].job # NoId
                             /\ cell[d].job # NoId => d \in shown
      BY DEF IInv, CellsClean
    <2>5. \A d \in shown : cell[d].src /\ cell[d].job # NoId => cell[d].timer \/ cell[d].full
      BY <1>2 DEF IInv, PausedIsTimed
    <2>6. \A d \in Cameras :
            /\ cell'[d].job = cell[d].job /\ cell'[d].rec = cell[d].rec
            /\ cell'[d].failed = cell[d].failed /\ cell'[d].dropped = cell[d].dropped
            /\ cell'[d].src = cell[d].src
            /\ cell'[d].timer => cell[d].job # NoId
            /\ d \in shown /\ cell'[d].src /\ cell[d].job # NoId => cell'[d].timer \/ cell'[d].full
      BY <2>1, <2>3, <2>4, <2>5
    <2>7. Touching
      BY <1>1, <1>3, <1>5, <2>3, <2>4, <2>6 DEF Touching
    <2> QED BY <2>7, TouchingKeeps
  <1> QED BY <1>4, <1>5 DEF PauseTimer

LEMMA StreamErrorKeeps ==
  ASSUME IInv, NEW c \in Cameras, StreamError(c) PROVE IInv'
  <1>1. faults' \in 0..MaxFaults
    BY CompressedSourceAssumption DEF CompressedSourceAssumption, IInv, TypeOK, StreamError, Fault
  <1> QED BY <1>1, FailVideoDrops DEF StreamError

-----------------------------------------------------------------------------
(* loadCompressedSource() *)

\* The admission of a session is sent when the releases it waited for are settled:
\* every earlier session of its camera is over then, or the page has given up on it.
LEMMA AdmissionSends ==
  ASSUME IInv, NEW l \in loads, Admission(l), Wanted(l),
         posts' = posts \cup {l.id},
         loads' = (loads \ {l}) \cup {[l EXCEPT !.stage = "posted", !.waits = {}]}
  PROVE  IInv'
  <1> DEFINE m == [l EXCEPT !.stage = "posted", !.waits = {}]
  <1>1. TypeOK /\ l \in Loads /\ l.id \in Ids /\ l.cam \in Cameras /\ loads \subseteq Loads
        /\ posts \subseteq Ids /\ shown \subseteq Cameras
    BY DEF IInv, TypeOK, Loads
  <1>2. m \in Loads /\ m.id = l.id /\ m.cam = l.cam /\ m.stage = "posted"
    BY <1>1 DEF Loads
  <1>3. loads' = (loads \ {l}) \cup {m}
    OBVIOUS
  <1> HIDE DEF m
  <1>4. /\ l.stage = "release" /\ l.waits \cap pending = {}
        /\ UNCHANGED <<playing, at, profile, shown, cell, broken, ids, pending, answers, deletes,
                       unsure, faults, lease>>
    BY DEF Admission, pageVars
  <1>5. l.id <= ids /\ l.id \in Nat /\ ids \in Nat
    BY <1>1, Types DEF IInv, IdsFresh, Ids
  <1>6. TypeOK'
    <2>1. loads' \subseteq Loads /\ posts' \subseteq Ids
      BY <1>1, <1>2, <1>3
    <2>2. UNION {pending', posts', deletes', unsure'} \subseteq Ids
      BY <1>1, <1>4, <2>1 DEF TypeOK
    <2> QED BY <1>1, <1>4, <2>1, <2>2 DEF TypeOK
  <1>7. \A t \in Ids : Sent(t)' => Sent(t) \/ t = l.id
    BY <1>4 DEF Sent
  <1>8. IdsFresh'
    <2>1. \A k \in loads' : k.id <= ids
      BY <1>2, <1>3, <1>5 DEF IInv, IdsFresh
    <2>2. \A t \in Ids : Sent(t)' => t <= ids
      BY <1>5, <1>7 DEF IInv, IdsFresh
    <2>3. \A c \in Cameras : cell[c].job <= ids
      BY DEF IInv, IdsFresh
    <2> QED BY <1>4, <2>1, <2>2, <2>3 DEF IdsFresh
  <1>9. Accounted' /\ CellsClean' /\ AnswersAdmitted' /\ SourceAdmitted' /\ PausedIsTimed'
    BY <1>4 DEF IInv, Accounted, InUse, JobsOf, CellsClean, AnswersAdmitted, SourceAdmitted,
                PausedIsTimed
  <1>10. CameraKept'
    <2>1. ASSUME NEW k \in loads, Wanted(k) PROVE \E j \in loads' : j.cam = k.cam /\ j.id = k.id
      BY <1>2, <1>3
    <2> QED BY <1>4, <2>1 DEF IInv, CameraKept, Wanted
  <1>11. CamerasTakeTurns'
    <2>1. PICK owner \in [Ids -> Cameras \cup {NoId}] : InTurn(owner)
      BY DEF IInv, CamerasTakeTurns
    <2>2. owner[l.id] = l.cam
      BY <2>1 DEF InTurn
    <2>3. \A k \in loads' : owner[k.id] = k.cam
      BY <1>2, <1>3, <2>1, <2>2 DEF InTurn
    <2>4. \A t \in Ids : Sent(t)' => owner[t] \in Cameras
      BY <1>1, <1>7, <2>1, <2>2 DEF InTurn
    <2>5. ASSUME NEW s \in Ids, s < l.id, owner[s] = l.cam
          PROVE  lease[s] = "over" \/ s \in unsure
      <3>1. lease[s] = "over" \/ s \in l.waits \cup unsure
        BY <1>4, <2>1, <2>5 DEF InTurn
      <3>2. InUse(s) \/ s \in pending \cup unsure \/ lease[s] = "over"
        <4>1. s \in 1..ids
          BY <1>5, <2>5 DEF Ids
        <4> QED BY <4>1 DEF IInv, Accounted
      <3>3. ~InUse(s)
        <4>1. SUFFICES ASSUME NEW d \in shown, cell[d].job = s, s # NoId PROVE FALSE
          BY DEF InUse, JobsOf
        <4>2. d = l.cam
          BY <1>1, <2>1, <2>5, <4>1 DEF InTurn
        <4>3. s = l.id
          BY <4>1, <4>2 DEF Wanted
        <4> QED BY <1>5, <2>5, <4>3
      <3> QED BY <1>4, <3>1, <3>2, <3>3
    <2>6. ASSUME NEW s \in Ids, NEW t \in Ids, s < t, owner[s] = owner[t], Sent(t)'
          PROVE  lease[s] = "over" \/ s \in unsure
      <3>1. CASE Sent(t)
        BY <2>1, <2>6, <3>1 DEF InTurn
      <3>2. CASE t = l.id
        BY <2>2, <2>5, <2>6, <3>2
      <3> QED BY <1>7, <2>6, <3>1, <3>2
    <2>7. \A k \in loads', s \in Ids :
            k.stage = "release" /\ s < k.id /\ owner[s] = k.cam =>
              lease[s] = "over" \/ s \in k.waits \cup unsure
      BY <1>2, <1>3, <2>1 DEF InTurn
    <2>8. \A c \in Cameras : cell[c].job # NoId => owner[cell[c].job] = c
      BY <2>1 DEF InTurn
    <2>9. InTurn(owner)'
      BY <1>4, <2>3, <2>4, <2>6, <2>7, <2>8 DEF InTurn
    <2> QED BY <2>9 DEF CamerasTakeTurns
  <1> QED BY <1>6, <1>8, <1>9, <1>10, <1>11 DEF IInv

\* A load that is superseded, or that fails in a cell that has moved on, ends.
LEMMA LoadEnds ==
  ASSUME IInv, NEW l \in loads, loads' = loads \ {l}, ~Wanted(l),
         answers' \subseteq answers, deletes \subseteq deletes', deletes' \subseteq Ids,
         faults' \in 0..MaxFaults,
         UNCHANGED <<playing, cell, at, profile, shown, broken, ids, pending, posts, unsure, lease>>
  PROVE  IInv'
  <1>1. TypeOK /\ cell \in [Cameras -> Cells] /\ playing \in BOOLEAN /\ shown \subseteq Cameras
    BY DEF IInv, TypeOK
  <1>2. \A c \in Cameras : /\ cell[c].timer => cell[c].job # NoId
                           /\ cell[c].job # NoId => c \in shown
    BY DEF IInv, CellsClean
  <1>3. \A c \in shown : ~playing /\ cell[c].src /\ cell[c].job # NoId => cell[c].timer \/ cell[c].full
    BY DEF IInv, PausedIsTimed
  <1>4. Touching
    BY <1>1, <1>2, <1>3 DEF Touching
  <1> QED BY <1>4, TouchingKeeps

LEMMA AdmissionKeeps ==
  ASSUME IInv, NEW l \in loads, Admission(l) PROVE IInv'
  <1>1. TypeOK /\ deletes \subseteq Ids /\ faults \in 0..MaxFaults
    BY DEF IInv, TypeOK
  <1>2. UNCHANGED <<playing, at, profile, shown, cell, broken, ids, pending, answers, deletes,
                    unsure, faults, lease>>
    BY DEF Admission, pageVars
  <1>3. CASE Wanted(l)
    BY <1>3, AdmissionSends DEF Admission
  <1>4. CASE ~Wanted(l)
    <2>1. loads' = loads \ {l} /\ UNCHANGED posts
      BY <1>4 DEF Admission
    <2> QED BY <1>1, <1>2, <1>4, <2>1, LoadEnds
  <1> QED BY <1>3, <1>4

LEMMA AnsweredKeeps ==
  ASSUME IInv, NEW l \in loads, NEW granted \in BOOLEAN, Answered(l, granted) PROVE IInv'
  <1>1. TypeOK /\ cell \in [Cameras -> Cells] /\ l.id \in Ids /\ l.cam \in Cameras
        /\ deletes \subseteq Ids /\ faults \in 0..MaxFaults /\ playing \in BOOLEAN
        /\ shown \subseteq Cameras
    BY DEF IInv, TypeOK, Loads
  <1>2. /\ <<l.id, granted>> \in answers /\ answers' \subseteq answers /\ loads' = loads \ {l}
        /\ UNCHANGED <<playing, at, profile, shown, ids, posts, unsure, faults, lease>>
    BY DEF Answered
  <1>3. CASE ~Wanted(l) /\ deletes' = deletes \cup {l.id} /\ UNCHANGED <<cell, broken, pending>>
    <2>1. deletes \subseteq deletes' /\ deletes' \subseteq Ids
      BY <1>1, <1>3
    <2> QED BY <1>1, <1>2, <1>3, <2>1, LoadEnds
  <1>4. CASE /\ Wanted(l) /\ granted
             /\ cell' = [cell EXCEPT ![l.cam] = Sourced(@)]
             /\ UNCHANGED <<broken, pending, deletes>>
    <2> DEFINE c == l.cam
               y == Sourced(cell[c])
    <2>1. cell[c].job = l.id /\ l.id # NoId /\ lease[l.id] # "unknown"
      <3>1. granted = TRUE
        BY <1>4
      <3>2. lease[l.id] # "unknown"
        BY <1>1, <1>2, <3>1 DEF IInv, AnswersAdmitted
      <3> QED BY <1>1, <1>4, <3>2 DEF Wanted, Ids, NoId
    <2>2. /\ y \in Cells /\ y.job = cell[c].job /\ y.src = TRUE /\ y.rec = cell[c].rec
          /\ y.failed = cell[c].failed /\ y.dropped = cell[c].dropped
          /\ ~playing => y.timer
      <3>1. cell[c] \in Cells
        BY <1>1
      <3> QED BY <1>1, <3>1 DEF Sourced, Cells
    <2>3. c \in Cameras /\ cell' = [cell EXCEPT ![c] = y]
      BY <1>1, <1>4
    <2> HIDE DEF y, c
    <2>4. /\ cell' \in [Cameras -> Cells] /\ cell'[c] = y
          /\ \A d \in Cameras \ {c} : cell'[d] = cell[d]
      BY <1>1, <2>2, <2>3
    <2>5. \A d \in Cameras : /\ cell[d].timer => cell[d].job # NoId
                             /\ cell[d].job # NoId => d \in shown
      BY DEF IInv, CellsClean
    <2>6. \A d \in shown : ~playing /\ cell[d].src /\ cell[d].job # NoId => cell[d].timer \/ cell[d].full
      BY DEF IInv, PausedIsTimed
    <2>7. \A d \in Cameras :
            /\ cell'[d].job = cell[d].job /\ cell'[d].rec = cell[d].rec
            /\ cell'[d].failed = cell[d].failed /\ cell'[d].dropped = cell[d].dropped
            /\ cell[d].src => cell'[d].src
            /\ cell'[d].timer => cell[d].job # NoId
            /\ cell'[d].src /\ cell[d].job # NoId =>
                 (d \in shown /\ cell[d].src) \/ lease[cell[d].job] # "unknown"
            /\ d \in shown /\ ~playing /\ cell'[d].src /\ cell[d].job # NoId =>
                 cell'[d].timer \/ cell'[d].full
      <3>1. ASSUME NEW d \in Cameras, d # c
            PROVE  cell'[d] = cell[d] /\ (cell[d].timer => cell[d].job # NoId)
                   /\ (cell[d].job # NoId => d \in shown)
        BY <2>4, <2>5, <3>1
      <3> QED BY <2>1, <2>2, <2>4, <2>6, <3>1
    <2>8. \A k \in loads \ loads' : cell'[k.cam].src
      BY <1>2, <2>2, <2>4 DEF c
    <2>9. Touching
      BY <1>1, <1>2, <1>4, <2>4, <2>7, <2>8 DEF Touching
    <2> QED BY <2>9, TouchingKeeps
  <1>5. CASE Wanted(l) /\ ~granted /\ FailVideo(l.cam)
    <2>1. cell[l.cam].job # NoId
      BY <1>1, <1>5 DEF Wanted, Ids, NoId
    <2>2. loads' \subseteq loads /\ \A k \in loads \ loads' : ~Wanted(k) \/ k.cam = l.cam
      BY <1>2
    <2> QED BY <1>1, <1>2, <1>5, <2>1, <2>2, FailVideoDrops
  <1> QED BY <1>3, <1>4, <1>5 DEF Answered

LEMMA AdmissionFailsKeeps ==
  ASSUME IInv, NEW l \in loads, AdmissionFails(l) PROVE IInv'
  <1>1. TypeOK /\ l.id \in Ids /\ l.cam \in Cameras /\ deletes \subseteq Ids
    BY DEF IInv, TypeOK, Loads
  <1>2. faults' \in 0..MaxFaults
    BY CompressedSourceAssumption
       DEF CompressedSourceAssumption, IInv, TypeOK, AdmissionFails, Fault
  <1>3. /\ loads' = loads \ {l}
        /\ UNCHANGED <<playing, at, profile, shown, ids, posts, answers, unsure, lease>>
    BY DEF AdmissionFails
  <1>4. CASE Wanted(l) /\ FailVideo(l.cam)
    <2>1. cell[l.cam].job # NoId
      BY <1>1, <1>4 DEF Wanted, Ids, NoId
    <2>2. loads' \subseteq loads /\ \A k \in loads \ loads' : ~Wanted(k) \/ k.cam = l.cam
      BY <1>3
    <2> QED BY <1>1, <1>2, <1>3, <1>4, <2>1, <2>2, FailVideoDrops
  <1>5. CASE ~Wanted(l) /\ UNCHANGED <<cell, broken, pending, deletes>>
    BY <1>1, <1>2, <1>3, <1>5, LoadEnds
  <1> QED BY <1>4, <1>5 DEF AdmissionFails

-----------------------------------------------------------------------------
(* The server and the network *)

\* A request or a timer of the server, or a release that the page gives up on: what
\* is over stays over, and a release is settled when its session is over or lost.
Serving ==
  /\ lease' \in [Ids -> Server!LeaseStates]
  /\ \A t \in Ids : /\ lease[t] = "over" => lease'[t] = "over"
                    /\ lease[t] # "unknown" => lease'[t] # "unknown"
                    /\ Sent(t)' => Sent(t)
                    /\ <<t, TRUE>> \in answers' => <<t, TRUE>> \in answers \/ lease'[t] # "unknown"
                    /\ t \in pending => t \in pending' \cup unsure' \/ lease'[t] = "over"
  /\ answers' \subseteq Ids \X BOOLEAN
  /\ UNION {posts', deletes', unsure'} \subseteq Ids
  /\ unsure \subseteq unsure'
  /\ pending' \subseteq deletes'
  /\ faults' \in 0..MaxFaults
  /\ UNCHANGED <<playing, at, profile, shown, cell, broken, ids, loads>>

LEMMA ServingKeeps ==
  ASSUME IInv, Serving PROVE IInv'
  <1>1. TypeOK /\ shown \subseteq Cameras /\ cell \in [Cameras -> Cells] /\ ids \in Nat /\ ids <= MaxIds
    BY Types DEF IInv, TypeOK
  <1>2. UNCHANGED <<playing, at, profile, shown, cell, broken, ids, loads>>
    BY DEF Serving
  <1>3. \A t \in Ids : /\ lease[t] = "over" => lease'[t] = "over"
                       /\ lease[t] # "unknown" => lease'[t] # "unknown"
                       /\ Sent(t)' => Sent(t)
    BY DEF Serving
  <1>4. pending' \subseteq deletes' /\ unsure \subseteq unsure'
    BY DEF Serving
  <1>5. TypeOK'
    <2>1. UNION {pending', posts', deletes', unsure'} \subseteq Ids
      BY <1>4 DEF Serving
    <2>2. /\ lease' \in [Ids -> Server!LeaseStates] /\ answers' \subseteq Ids \X BOOLEAN
          /\ faults' \in 0..MaxFaults
      BY DEF Serving
    <2> QED BY <1>1, <1>2, <2>1, <2>2 DEF TypeOK
  <1>6. IdsFresh'
    BY <1>2, <1>3 DEF IInv, IdsFresh
  <1>7. Accounted'
    <2>1. ASSUME NEW s \in 1..ids
          PROVE  InUse(s)' \/ s \in pending' \cup unsure' \/ lease'[s] = "over"
      <3>1. s \in Ids
        BY <1>1, <2>1, CompressedSourceAssumption DEF Ids, CompressedSourceAssumption
      <3>2. InUse(s) \/ s \in pending \cup unsure \/ lease[s] = "over"
        BY DEF IInv, Accounted
      <3>3. InUse(s)' <=> InUse(s)
        BY <1>2 DEF InUse, JobsOf
      <3>4. s \in pending => s \in pending' \cup unsure' \/ lease'[s] = "over"
        BY <3>1 DEF Serving
      <3> QED BY <1>3, <1>4, <3>1, <3>2, <3>3, <3>4
    <2> QED BY <1>2, <1>4, <2>1 DEF Accounted
  <1>8. CellsClean' /\ CameraKept' /\ PausedIsTimed'
    BY <1>2 DEF IInv, CellsClean, CameraKept, Wanted, PausedIsTimed
  <1>9. AnswersAdmitted'
    BY <1>3 DEF IInv, AnswersAdmitted, Serving
  <1>10. SourceAdmitted'
    <2>1. \A c \in Cameras : cell[c].job # NoId => cell[c].job \in Ids
      BY <1>1, Types
    <2> QED BY <1>1, <1>2, <1>3, <2>1 DEF IInv, SourceAdmitted
  <1>11. CamerasTakeTurns'
    <2>1. PICK owner \in [Ids -> Cameras \cup {NoId}] : InTurn(owner)
      BY DEF IInv, CamerasTakeTurns
    <2>2. InTurn(owner)'
      BY <1>2, <1>3, <1>4, <2>1 DEF InTurn
    <2> QED BY <2>2 DEF CamerasTakeTurns
  <1> QED BY <1>5, <1>6, <1>7, <1>8, <1>9, <1>10, <1>11 DEF IInv

LEMMA PostArrivesKeeps ==
  ASSUME IInv, NEW s \in Ids, PostArrives(s) PROVE IInv'
  <1>1. /\ lease \in [Ids -> Server!LeaseStates] /\ answers \subseteq Ids \X BOOLEAN
        /\ UNION {posts, deletes, unsure} \subseteq Ids /\ faults \in 0..MaxFaults
        /\ pending \subseteq deletes
    BY DEF IInv, TypeOK, Accounted
  <1>2. s \in posts /\ posts' = posts \ {s}
        /\ UNCHANGED <<playing, at, profile, shown, cell, broken, ids, loads, pending, deletes,
                       unsure, faults>>
    BY DEF PostArrives, pageVars
  <1>3. CASE lease[s] = "unknown" /\ lease' = [lease EXCEPT ![s] = "held"]
             /\ answers' = answers \cup {<<s, TRUE>>}
    <2>1. lease' \in [Ids -> Server!LeaseStates] /\ lease'[s] = "held"
          /\ \A t \in Ids : t # s => lease'[t] = lease[t]
      BY <1>1, <1>3 DEF Server!LeaseStates
    <2>2. \A t \in Ids : Sent(t)' => Sent(t)
      BY <1>2, <2>1 DEF Sent
    <2>3. answers' \subseteq Ids \X BOOLEAN
      <3>1. <<s, TRUE>> \in Ids \X BOOLEAN
        OBVIOUS
      <3> QED BY <1>1, <1>3, <3>1
    <2>4. ASSUME NEW t \in Ids, <<t, TRUE>> \in answers'
          PROVE  <<t, TRUE>> \in answers \/ lease'[t] # "unknown"
      <3>1. <<t, TRUE>> = <<s, TRUE>> => t = s
        OBVIOUS
      <3> QED BY <1>3, <2>1, <2>4, <3>1
    <2>5. /\ \A t \in Ids : /\ lease[t] = "over" => lease'[t] = "over"
                            /\ lease[t] # "unknown" => lease'[t] # "unknown"
          /\ pending' \subseteq deletes' /\ UNION {posts', deletes', unsure'} \subseteq Ids
      BY <1>1, <1>2, <1>3, <2>1
    <2>6. Serving
      BY <1>1, <1>2, <2>1, <2>2, <2>3, <2>4, <2>5 DEF Serving
    <2> QED BY <2>6, ServingKeeps
  <1>4. CASE answers' = answers \cup {<<s, FALSE>>} /\ UNCHANGED lease
    <2>1. \A t \in Ids : Sent(t)' => Sent(t)
      BY <1>2, <1>4 DEF Sent
    <2>2. answers' \subseteq Ids \X BOOLEAN
      <3>1. <<s, FALSE>> \in Ids \X BOOLEAN
        OBVIOUS
      <3> QED BY <1>1, <1>4, <3>1
    <2>3. ASSUME NEW t \in Ids, <<t, TRUE>> \in answers' PROVE <<t, TRUE>> \in answers
      <3>1. <<t, TRUE>> # <<s, FALSE>>
        OBVIOUS
      <3> QED BY <1>4, <2>3, <3>1
    <2>4. Serving
      BY <1>1, <1>2, <1>4, <2>1, <2>2, <2>3 DEF Serving
    <2> QED BY <2>4, ServingKeeps
  <1> QED BY <1>3, <1>4 DEF PostArrives, Server!Admit

\* A session ends at the server.
LEMMA SessionOver ==
  ASSUME TypeOK, NEW s \in Ids, Server!End(s) \/ (lease[s] = "over" /\ UNCHANGED lease),
         UNCHANGED posts
  PROVE  /\ lease' \in [Ids -> Server!LeaseStates] /\ lease'[s] = "over"
         /\ \A t \in Ids : /\ t # s => lease'[t] = lease[t]
                           /\ Sent(t)' => Sent(t)
  <1>1. lease \in [Ids -> Server!LeaseStates]
    BY DEF TypeOK
  <1>2. /\ lease' \in [Ids -> Server!LeaseStates] /\ lease'[s] = "over"
        /\ \A t \in Ids : t # s => lease'[t] = lease[t]
    BY <1>1 DEF Server!End, Server!LeaseStates
  <1> QED BY <1>2 DEF Sent

LEMMA DeleteArrivesKeeps ==
  ASSUME IInv, NEW s \in Ids, DeleteArrives(s) PROVE IInv'
  <1>1. /\ TypeOK /\ answers \subseteq Ids \X BOOLEAN
        /\ UNION {posts, deletes, unsure} \subseteq Ids /\ faults \in 0..MaxFaults
        /\ pending \subseteq deletes
    BY DEF IInv, TypeOK, Accounted
  <1>2. /\ deletes' = deletes \ {s} /\ pending' = pending \ {s}
        /\ Server!End(s) \/ (lease[s] = "over" /\ UNCHANGED lease)
        /\ UNCHANGED <<playing, at, profile, shown, cell, broken, ids, loads, posts, answers,
                       unsure, faults>>
    BY DEF DeleteArrives, pageVars
  <1>3. /\ lease' \in [Ids -> Server!LeaseStates] /\ lease'[s] = "over"
        /\ \A t \in Ids : /\ t # s => lease'[t] = lease[t]
                          /\ Sent(t)' => Sent(t)
    BY <1>1, <1>2, SessionOver
  <1>4. Serving
    BY <1>1, <1>2, <1>3 DEF Serving
  <1> QED BY <1>4, ServingKeeps

LEMMA ReleaseFailsKeeps ==
  ASSUME IInv, NEW s \in Ids, ReleaseFails(s) PROVE IInv'
  <1>1. /\ lease \in [Ids -> Server!LeaseStates] /\ answers \subseteq Ids \X BOOLEAN
        /\ UNION {posts, deletes, unsure} \subseteq Ids
        /\ pending \subseteq deletes
    BY DEF IInv, TypeOK, Accounted
  <1>2. faults' \in 0..MaxFaults
    BY CompressedSourceAssumption
       DEF CompressedSourceAssumption, IInv, TypeOK, ReleaseFails, Fault
  <1>3. /\ deletes' = deletes \ {s} /\ pending' = pending \ {s} /\ unsure' = unsure \cup {s}
        /\ UNCHANGED <<playing, at, profile, shown, cell, broken, ids, loads, posts, answers, lease>>
    BY DEF ReleaseFails, pageVars
  <1>4. \A t \in Ids : Sent(t)' => Sent(t)
    BY <1>3 DEF Sent
  <1>5. Serving
    BY <1>1, <1>2, <1>3, <1>4 DEF Serving
  <1> QED BY <1>5, ServingKeeps

LEMMA WatchdogKeeps ==
  ASSUME IInv, NEW s \in Ids, Watchdog(s) PROVE IInv'
  <1>1. /\ TypeOK /\ answers \subseteq Ids \X BOOLEAN
        /\ UNION {posts, deletes, unsure} \subseteq Ids /\ faults \in 0..MaxFaults
        /\ pending \subseteq deletes
    BY DEF IInv, TypeOK, Accounted
  <1>2. /\ Server!End(s)
        /\ UNCHANGED <<playing, at, profile, shown, cell, broken, ids, loads, pending, posts,
                       answers, deletes, unsure, faults>>
    BY DEF Watchdog, pageVars
  <1>3. /\ lease' \in [Ids -> Server!LeaseStates] /\ lease'[s] = "over"
        /\ \A t \in Ids : /\ t # s => lease'[t] = lease[t]
                          /\ Sent(t)' => Sent(t)
    BY <1>1, <1>2, SessionOver
  <1>4. Serving
    BY <1>1, <1>2, <1>3 DEF Serving
  <1> QED BY <1>4, ServingKeeps

-----------------------------------------------------------------------------
(* The invariant *)

LEMMA InitIInv == Init => IInv
  <1> SUFFICES ASSUME Init PROVE IInv
    OBVIOUS
  <1>1. /\ playing = FALSE /\ at \in Positions /\ profile \in Profiles
        /\ shown = {} /\ cell = [c \in Cameras |-> NoCell]
        /\ broken = {} /\ ids = 0 /\ loads = {} /\ pending = {}
        /\ posts = {} /\ answers = {} /\ deletes = {} /\ unsure = {}
        /\ faults = 0
        /\ lease = [s \in Ids |-> "unknown"]
    BY DEF Init, Server!Init
  <1>2. \A c \in Cameras : cell[c] = NoCell
    BY <1>1
  <1>3. TypeOK
    <2>1. cell \in [Cameras -> Cells]
      BY <1>1, EmptyCell
    <2>2. faults \in 0..MaxFaults /\ ids \in 0..MaxIds
      BY <1>1, CompressedSourceAssumption DEF CompressedSourceAssumption
    <2> QED BY <1>1, <2>1, <2>2 DEF TypeOK, Server!LeaseStates
  <1>4. \A s \in Ids : ~Sent(s)
    BY <1>1 DEF Sent
  <1>5. IdsFresh
    BY <1>1, <1>2, <1>4, EmptyCell DEF IdsFresh, NoId
  <1>6. Accounted
    BY <1>1 DEF Accounted
  <1>7. CellsClean
    BY <1>2, EmptyCell DEF CellsClean
  <1>8. AnswersAdmitted /\ SourceAdmitted /\ CameraKept /\ PausedIsTimed
    BY <1>1 DEF AnswersAdmitted, SourceAdmitted, CameraKept, PausedIsTimed
  <1>9. CamerasTakeTurns
    <2> DEFINE nobody == [s \in Ids |-> NoId]
    <2>1. InTurn(nobody)
      BY <1>1, <1>2, <1>4, EmptyCell DEF InTurn
    <2> QED BY <2>1 DEF CamerasTakeTurns
  <1> QED BY <1>3, <1>5, <1>6, <1>7, <1>8, <1>9 DEF IInv

LEMMA NextIInv == IInv /\ [Next]_vars => IInv'
  <1> SUFFICES ASSUME IInv, [Next]_vars PROVE IInv'
    OBVIOUS
  <1>1. CASE UNCHANGED vars
    <2>1. UNCHANGED <<playing, at, profile, shown, cell, broken, ids, loads, pending, posts,
                      answers, deletes, unsure, faults, lease>>
      BY <1>1 DEF vars, pageVars, netVars
    <2>2. TypeOK' /\ IdsFresh' /\ Accounted' /\ CellsClean' /\ AnswersAdmitted'
      BY <2>1 DEF IInv, TypeOK, IdsFresh, Accounted, CellsClean, AnswersAdmitted, Sent, InUse, JobsOf
    <2>3. SourceAdmitted' /\ CameraKept' /\ PausedIsTimed'
      BY <2>1 DEF IInv, SourceAdmitted, CameraKept, PausedIsTimed, Wanted
    <2>4. CamerasTakeTurns'
      BY <2>1 DEF IInv, CamerasTakeTurns, InTurn, Sent
    <2> QED BY <2>2, <2>3, <2>4 DEF IInv
  <1>2. ASSUME NEW V \in SUBSET Cameras, Display(V) PROVE IInv'
    BY <1>2, DisplayKeeps
  <1>3. ASSUME NEW p \in Positions, Seek(p) \/ ClockCrosses(p) PROVE IInv'
    BY <1>3, SeekKeeps, ClockCrossesKeeps
  <1>4. ASSUME NEW q \in Profiles, ChangeQuality(q) PROVE IInv'
    BY <1>4, ChangeQualityKeeps
  <1>5. CASE Play
    BY <1>5, PlayKeeps
  <1>6. CASE Stop
    BY <1>6, StopKeeps
  <1>7. CASE Hide
    BY <1>7, HideKeeps
  <1>8. ASSUME NEW c \in Cameras, PauseTimer(c) \/ StreamError(c) PROVE IInv'
    BY <1>8, PauseTimerKeeps, StreamErrorKeeps
  <1>9. ASSUME NEW l \in loads, LoadStep(l) \/ AdmissionFails(l) PROVE IInv'
    BY <1>9, AdmissionKeeps, AnsweredKeeps, AdmissionFailsKeeps DEF LoadStep
  <1>10. ASSUME NEW s \in Ids,
                PostArrives(s) \/ DeleteArrives(s) \/ ReleaseFails(s) \/ Watchdog(s)
         PROVE  IInv'
    BY <1>10, PostArrivesKeeps, DeleteArrivesKeeps, ReleaseFailsKeeps, WatchdogKeeps
  <1> QED BY <1>1, <1>2, <1>3, <1>4, <1>5, <1>6, <1>7, <1>8, <1>9, <1>10 DEF Next

-----------------------------------------------------------------------------
(* The properties *)

\* The page's cells, loads and releases agree with each other and with the server,
\* whatever the user does and whatever requests are lost, late or out of order.
THEOREM CompressedSourceInvariant == Spec => []IInv
  BY InitIInv, NextIInv, PTL DEF Spec

\* Every variable of the page and of the network keeps its type.
THEOREM CompressedSourceTypes == Spec => []TypeOK
  <1>1. IInv => TypeOK
    BY DEF IInv
  <1> QED BY <1>1, CompressedSourceInvariant, PTL

\* No slot of the server is forgotten by the page: its session is in use, or a DELETE
\* for it is under way, or the page has given up on that DELETE.
THEOREM NoSlotForgotten == Spec => []NoOrphan
  <1>1. IInv => NoOrphan
    <2> SUFFICES ASSUME IInv, NEW s \in Ids, lease[s] = "held"
                 PROVE  InUse(s) \/ s \in deletes \cup unsure
      BY DEF NoOrphan
    <2>1. s \in 1..ids
      BY Types DEF IInv, IdsFresh, Sent, Ids
    <2> QED BY <2>1 DEF IInv, Accounted
  <1> QED BY <1>1, CompressedSourceInvariant, PTL

\* A media element gets a session's URL only after the server admitted that session.
THEOREM SourcesAreAdmitted == Spec => []SourceAdmitted
  <1>1. IInv => SourceAdmitted
    BY DEF IInv
  <1> QED BY <1>1, CompressedSourceInvariant, PTL

\* While playing no camera with a recording stays blank for good.
THEOREM CamerasAreServed == Spec => []CameraServed
  <1>1. IInv => CameraServed
    BY DEF IInv, CameraKept, CameraServed
  <1> QED BY <1>1, CompressedSourceInvariant, PTL

\* A source that is open while nothing plays is about to be released.
THEOREM PausedSourcesAreTimed == Spec => []PausedIsTimed
  <1>1. IInv => PausedIsTimed
    BY DEF IInv
  <1> QED BY <1>1, CompressedSourceInvariant, PTL

\* Only the arrival of an admission takes it off the way to the server.
LEMMA OnlyArrivals ==
  ASSUME [Next]_vars, NEW s \in posts, s \notin posts' PROVE PostArrives(s)
  <1>1. CASE UNCHANGED vars
    BY <1>1 DEF vars, netVars
  <1>2. ASSUME NEW V \in SUBSET Cameras, Display(V) PROVE FALSE
    BY <1>2 DEF Display
  <1>3. ASSUME NEW p \in Positions, Seek(p) \/ ClockCrosses(p) PROVE FALSE
    BY <1>3 DEF Seek, ClockCrosses
  <1>4. ASSUME NEW q \in Profiles, ChangeQuality(q) PROVE FALSE
    BY <1>4 DEF ChangeQuality
  <1>5. CASE Play \/ Stop \/ Hide
    BY <1>5 DEF Play, Stop, Hide, netVars
  <1>6. ASSUME NEW c \in Cameras, PauseTimer(c) \/ StreamError(c) PROVE FALSE
    BY <1>6 DEF PauseTimer, StreamError
  <1>7. ASSUME NEW l \in loads, LoadStep(l) \/ AdmissionFails(l) PROVE FALSE
    BY <1>7 DEF LoadStep, Admission, Answered, AdmissionFails
  <1>8. ASSUME NEW t \in Ids, DeleteArrives(t) \/ ReleaseFails(t) \/ Watchdog(t) PROVE FALSE
    BY <1>8 DEF DeleteArrives, ReleaseFails, Watchdog
  <1>9. ASSUME NEW t \in Ids, PostArrives(t) PROVE PostArrives(s)
    BY <1>9 DEF PostArrives
  <1> QED BY <1>1, <1>2, <1>3, <1>4, <1>5, <1>6, <1>7, <1>8, <1>9 DEF Next

LEMMA ServerCardinality == ASSUME NEW S PROVE Server!Cardinality(S) = Cardinality(S)
  BY DEF Server!Cardinality, Cardinality

\* While no DELETE is given up, the sessions that hold a slot and the one whose
\* admission arrives are of different cameras.
LEMMA SlotPerCamera ==
  ASSUME IInv, unsure = {}, NEW s \in posts, lease[s] = "unknown"
  PROVE  /\ IsFiniteSet(Server!Held) /\ IsFiniteSet(Cameras)
         /\ Cardinality(Server!Held) < Cardinality(Cameras)
  <1> DEFINE H == Server!Held
             T == H \cup {s}
  <1>1. TypeOK /\ s \in Ids /\ MaxIds \in Nat
    BY Types DEF IInv, TypeOK
  <1>2. H \subseteq Ids /\ s \notin H /\ \A t \in H : lease[t] = "held"
    BY <1>1 DEF Server!Held
  <1>3. IsFiniteSet(Ids) /\ IsFiniteSet(Cameras)
    BY <1>1, FS_Interval, CompressedSourceAssumption DEF Ids, CompressedSourceAssumption
  <1> HIDE DEF H
  <1>4. IsFiniteSet(H)
    BY <1>2, <1>3, FS_Subset
  <1>5. IsFiniteSet(T) /\ Cardinality(T) = Cardinality(H) + 1
    BY <1>2, <1>4, FS_AddElement
  <1>6. PICK owner \in [Ids -> Cameras \cup {NoId}] : InTurn(owner)
    BY DEF IInv, CamerasTakeTurns
  <1>7. \A t \in T : t \in Ids /\ Sent(t) /\ lease[t] # "over" /\ owner[t] \in Cameras
    BY <1>1, <1>2, <1>6 DEF Sent, InTurn
  <1>8. ASSUME NEW t \in T, NEW u \in T, owner[t] = owner[u] PROVE t = u
    <2>1. t < u \/ u < t \/ t = u
      BY <1>7 DEF Ids
    <2> QED BY <1>6, <1>7, <1>8, <2>1 DEF InTurn
  <1> DEFINE f == [t \in T |-> owner[t]]
  <1>9. f \in [T -> Cameras]
    BY <1>7
  <1> HIDE DEF T
  <1>10. ~ \E t, u \in T : t # u /\ f[t] = f[u]
    BY <1>8
  <1> HIDE DEF f
  <1>11. ~ (Cardinality(Cameras) < Cardinality(T))
    BY <1>3, <1>5, <1>9, <1>10, FS_PigeonHole
  <1>12. Cardinality(H) \in Nat /\ Cardinality(Cameras) \in Nat
    BY <1>3, <1>4, FS_CardinalityType
  <1> QED BY <1>3, <1>4, <1>5, <1>11, <1>12 DEF H

\* "Wait for superseded sources to release their slots before admission": with a slot
\* per camera the page is never refused because of its own sessions.
THEOREM PageNeverRefusesItself ==
  Limit = 0 \/ Cardinality(Cameras) <= Limit => (Spec => NeverRefusesItself)
  <1> SUFFICES ASSUME Limit = 0 \/ Cardinality(Cameras) <= Limit
               PROVE  Spec => NeverRefusesItself
    OBVIOUS
  <1>1. ASSUME IInv, [Next]_vars
        PROVE  [\A s \in posts : s \notin posts' /\ lease[s] = "unknown" /\ unsure = {}
                  => lease'[s] = "held"]_vars
    <2> SUFFICES ASSUME NEW s \in posts, s \notin posts', lease[s] = "unknown", unsure = {}
                 PROVE  lease'[s] = "held"
      OBVIOUS
    <2>1. PostArrives(s)
      BY <1>1, OnlyArrivals
    <2>2. s \in Ids /\ lease \in [Ids -> Server!LeaseStates]
      BY <1>1 DEF IInv, TypeOK
    <2>3. CASE Server!Admit(s)
      BY <2>2, <2>3 DEF Server!Admit
    <2>4. CASE ~Server!HasRoom
      <3>1. Limit # 0 /\ ~(Cardinality(Server!Held) < Limit)
        BY <2>4, ServerCardinality DEF Server!HasRoom
      <3>2. IsFiniteSet(Server!Held) /\ IsFiniteSet(Cameras)
            /\ Cardinality(Server!Held) < Cardinality(Cameras)
        BY <1>1, SlotPerCamera
      <3>3. Cardinality(Server!Held) \in Nat /\ Cardinality(Cameras) \in Nat /\ Limit \in Nat
        BY <3>2, FS_CardinalityType, CompressedSourceAssumption DEF CompressedSourceAssumption
      <3> QED BY <3>1, <3>2, <3>3
    <2> QED BY <2>1, <2>3, <2>4 DEF PostArrives
  <1> QED BY <1>1, CompressedSourceInvariant, PTL DEF Spec, NeverRefusesItself

=============================================================================
