---------------------- MODULE PlaybackTraceStoreProofs ----------------------
(***************************************************************************)
(* What the session recorder stores, until a session is begun over chunks  *)
(* of the former one that have not settled: start() does not wait for them *)
(***************************************************************************)
EXTENDS PlaybackTraceProofs

USE PlaybackTraceAssumption

-----------------------------------------------------------------------------
(* The samples in a queue of chunks and in the store *)

\* The samples of the chunks of q that are in T, and of the stored chunks K.
Held(q, T) == Total(Sizing(q), {i \in DOMAIN q : q[i] \in T})
Amount(K) == Total(Weighing(K), K)

\* The chunks of a session, and those whose number is at most b.
Own(s) == {c \in Batches : c.meta.session = s}
Under(b) == {c \in Batches : c.meta.chunks <= b}
Mine(st, m) == {k \in st.chunks : k.session = m.session /\ k.sequence <= m.chunks}
Upto(st, b) == {k \in st.chunks : k.sequence <= b}

LEMMA HeldNatural ==
  ASSUME NEW q \in Seq(Batches), NEW T
  PROVE  Held(q, T) \in Nat
  <1> DEFINE S == {i \in DOMAIN q : q[i] \in T}
  <1>1. S \in SUBSET DOMAIN q
    OBVIOUS
  <1> HIDE DEF S
  <1>2. Total(Sizing(q), S) \in Nat
    BY <1>1, QueueSum
  <1> QED BY <1>2 DEF Held, S

LEMMA HeldNone ==
  ASSUME NEW q \in Seq(Batches), NEW T, \A i \in DOMAIN q : q[i] \notin T
  PROVE  Held(q, T) = 0
  <1>1. {i \in DOMAIN q : q[i] \in T} = {}
    OBVIOUS
  <1> QED BY <1>1, TotalEmpty DEF Held

LEMMA HeldEmpty == ASSUME NEW T PROVE Held(<<>>, T) = 0
  <1>1. <<>> \in Seq(Batches) /\ \A i \in DOMAIN <<>> : <<>>[i] \notin T
    OBVIOUS
  <1> QED BY <1>1, HeldNone

LEMMA HeldMore ==
  ASSUME NEW q \in Seq(Batches), NEW T, NEW U, \A i \in DOMAIN q : q[i] \in T => q[i] \in U
  PROVE  Held(q, T) <= Held(q, U)
  <1> DEFINE S == {i \in DOMAIN q : q[i] \in T}
             R == {i \in DOMAIN q : q[i] \in U}
             w == Sizing(q)
  <1>1. S \in SUBSET DOMAIN q /\ R \ S \in SUBSET DOMAIN q /\ R = S \cup (R \ S) /\ S \cap (R \ S) = {}
    OBVIOUS
  <1> HIDE DEF S, R
  <1>2. /\ Total(w, S) \in Nat /\ IsFiniteSet(S) /\ Total(w, R \ S) \in Nat /\ IsFiniteSet(R \ S)
        /\ \A i \in DOMAIN q : w[i] = q[i].n /\ q[i].n \in Nat
    BY <1>1, QueueSum
  <1> HIDE DEF w
  <1>3. Total(w, S \cup (R \ S)) = Total(w, S) + Total(w, R \ S)
    <2>1. \A i \in S \cup (R \ S) : w[i] \in Nat
      BY <1>1, <1>2
    <2> QED BY <1>1, <1>2, <2>1, TotalUnion
  <1>4. Total(w, S) <= Total(w, R)
    <2>1. Total(w, S \cup (R \ S)) = Total(w, R)
      BY <1>1
    <2> QED BY <1>2, <1>3, <2>1
  <1> QED BY <1>4 DEF Held, w, S, R

\* A chunk at the end of the queue.
LEMMA HeldAppend ==
  ASSUME NEW q \in Seq(Batches), NEW c \in Batches, NEW T
  PROVE  /\ c \in T => Held(Append(q, c), T) = Held(q, T) + c.n
         /\ c \notin T => Held(Append(q, c), T) = Held(q, T)
  <1> DEFINE a == Append(q, c)
             l == Len(q) + 1
             S == {i \in DOMAIN q : q[i] \in T}
             R == {i \in DOMAIN a : a[i] \in T}
             v == Sizing(q)
             w == Sizing(a)
  <1>1. /\ a \in Seq(Batches) /\ DOMAIN q = 1..Len(q) /\ DOMAIN a = 1..l
        /\ \A i \in 1..Len(q) : a[i] = q[i]
        /\ a[l] = c
    BY AppendElements
  <1>2. Len(q) \in Nat
    OBVIOUS
  <1> HIDE DEF a
  <1>3. S \in SUBSET DOMAIN q /\ S \in SUBSET DOMAIN a /\ l \notin S /\ l \in DOMAIN a
    BY <1>1, <1>2
  <1>4. (c \in T => R = S \cup {l}) /\ (c \notin T => R = S)
    <2>1. \A i \in DOMAIN a : i \in DOMAIN q \/ i = l
      BY <1>1, <1>2
    <2>2. \A i \in DOMAIN q : i \in DOMAIN a /\ a[i] = q[i]
      BY <1>1, <1>2
    <2> QED BY <1>1, <1>3, <2>1, <2>2
  <1> HIDE DEF S, R
  <1>5. /\ IsFiniteSet(S) /\ Total(v, S) \in Nat
        /\ \A i \in DOMAIN q : v[i] = q[i].n
        /\ \A i \in DOMAIN a : w[i] = a[i].n /\ w[i] \in Nat
    <2>1. IsFiniteSet(S) /\ Total(v, S) \in Nat /\ \A i \in DOMAIN q : v[i] = q[i].n
      BY <1>3, QueueSum
    <2>2. \A i \in DOMAIN a : w[i] = a[i].n /\ a[i].n \in Nat
      BY <1>1, <1>3, QueueSum
    <2> QED BY <2>1, <2>2
  <1> HIDE DEF v, w
  <1>6. Total(v, S) = Total(w, S)
    <2>1. \A i \in S : v[i] = w[i]
      BY <1>1, <1>3, <1>5
    <2> QED BY <2>1, TotalSame
  <1>7. Total(w, S \cup {l}) = Total(w, S) + c.n
    <2>1. \A i \in S \cup {l} : w[i] \in Nat
      BY <1>3, <1>5
    <2>2. w[l] = c.n
      BY <1>1, <1>3, <1>5
    <2>3. l \notin S
      BY <1>3
    <2> HIDE DEF l
    <2>4. Total(w, S \cup {l}) = Total(w, S) + w[l]
      BY <1>5, <2>1, <2>3, TotalAdd
    <2> QED BY <2>2, <2>4
  <1>8. Held(q, T) = Total(v, S) /\ Held(a, T) = Total(w, R)
    BY DEF Held, v, w, S, R
  <1> QED BY <1>4, <1>6, <1>7, <1>8 DEF a

\* The chunk at the front of the queue.
LEMMA HeldTail ==
  ASSUME NEW q \in Seq(Batches), NEW T, q # <<>>
  PROVE  /\ q[1] \in T => Held(q, T) = Held(Tail(q), T) + q[1].n
         /\ q[1] \notin T => Held(q, T) = Held(Tail(q), T)
  <1> DEFINE a == Tail(q)
             S == {i \in DOMAIN a : a[i] \in T}
             R == {i \in DOMAIN q : q[i] \in T}
             v == Sizing(a)
             w == Sizing(q)
             b == [i \in Nat |-> i + 1]
             B == {b[i] : i \in S}
             front == 1
  <1>1. /\ a \in Seq(Batches) /\ Len(q) \in Nat \ {0} /\ DOMAIN q = 1..Len(q)
        /\ DOMAIN a = 1..(Len(q) - 1) /\ 1 \in DOMAIN q
        /\ \A i \in 1..(Len(q) - 1) : i + 1 \in DOMAIN q /\ a[i] = q[i + 1]
    BY TailElements
  <1> HIDE DEF a
  <1>0. b \in [Nat -> Nat] /\ \A i \in Nat : b[i] = i + 1
    OBVIOUS
  <1> HIDE DEF b
  <1>2. /\ S \in SUBSET DOMAIN a /\ \A i \in S : b[i] = i + 1 /\ i \in Nat /\ i # 0
        /\ B \in SUBSET DOMAIN q /\ 1 \notin B
    <2>1. S \in SUBSET DOMAIN a
      OBVIOUS
    <2> HIDE DEF S
    <2>2. ASSUME NEW i \in S PROVE b[i] = i + 1 /\ i \in Nat /\ i # 0 /\ b[i] \in DOMAIN q /\ b[i] # 1
      <3>1. i \in 1..(Len(q) - 1)
        BY <1>1, <2>1
      <3>2. i \in Nat /\ i # 0 /\ i + 1 \in DOMAIN q
        BY <1>1, <3>1
      <3> QED BY <1>0, <3>2
    <2> QED BY <2>1, <2>2
  <1>3. (q[1] \in T => R = B \cup {1}) /\ (q[1] \notin T => R = B)
    <2>1. \A i \in DOMAIN q : i # 1 => (i - 1 \in DOMAIN a /\ a[i - 1] = q[i])
      <3> SUFFICES ASSUME NEW i \in DOMAIN q, i # 1 PROVE i - 1 \in DOMAIN a /\ a[i - 1] = q[i]
        OBVIOUS
      <3>1. i - 1 \in 1..(Len(q) - 1) /\ i - 1 + 1 = i
        BY <1>1
      <3> QED BY <1>1, <3>1
    <2>2. ASSUME NEW i \in R, i # 1 PROVE i \in B
      <3>1. i - 1 \in S
        BY <1>1, <2>1, <2>2
      <3>2. i \in Nat /\ i # 0
        BY <1>1, <2>2
      <3>3. i - 1 \in Nat /\ i = b[i - 1]
        BY <1>0, <3>2
      <3> QED BY <3>1, <3>3
    <2>3. \A i \in B : i \in R
      BY <1>1, <1>2
    <2> QED BY <1>1, <2>2, <2>3
  <1>4. /\ IsFiniteSet(S) /\ \A i \in DOMAIN a : v[i] = a[i].n /\ a[i].n \in Nat
    BY <1>1, <1>2, QueueSum
  <1>5. /\ IsFiniteSet(B) /\ Total(w, B) \in Nat /\ \A i \in DOMAIN q : w[i] = q[i].n /\ q[i].n \in Nat
    BY <1>2, QueueSum
  <1> HIDE DEF v, w, S, R
  <1>6. Total(v, S) = Total(w, B)
    <2>1. ASSUME NEW i \in S PROVE v[i] \in Nat /\ w[b[i]] = v[i]
      <3>1. i \in DOMAIN a /\ b[i] = i + 1 /\ i \in 1..(Len(q) - 1)
        BY <1>1, <1>2
      <3>2. b[i] \in DOMAIN q /\ a[i] = q[b[i]]
        BY <1>1, <3>1
      <3> QED BY <1>4, <1>5, <3>1, <3>2
    <2>2. \A i, j \in S : b[i] = b[j] => i = j
      BY <1>2
    <2> QED BY <1>4, <2>1, <2>2, TotalRenamed
  <1> HIDE DEF B
  <1>7. Total(w, B \cup {1}) = Total(w, B) + q[1].n
    <2>1. \A i \in B \cup {1} : w[i] \in Nat
      BY <1>1, <1>2, <1>5
    <2>2. w[front] = q[1].n /\ front \notin B /\ \A i \in B \cup {front} : w[i] \in Nat
      BY <1>1, <1>2, <1>5, <2>1
    <2>3. B \cup {front} = B \cup {1}
      OBVIOUS
    <2> HIDE DEF front
    <2>4. Total(w, B \cup {front}) = Total(w, B) + w[front]
      BY <1>5, <2>2, TotalAdd
    <2> QED BY <2>2, <2>3, <2>4
  <1>8. Held(a, T) = Total(v, S) /\ Held(q, T) = Total(w, R)
    BY DEF Held, v, w, S, R
  <1> QED BY <1>3, <1>6, <1>7, <1>8 DEF a

LEMMA AmountNatural ==
  ASSUME NEW K, IsFiniteSet(K), \A k \in K : k.n \in Nat
  PROVE  Amount(K) \in Nat /\ Amount(K) = Sum(K, LAMBDA k : k.n)
  <1>1. K \in SUBSET K
    OBVIOUS
  <1> QED BY <1>1, StoreSum DEF Amount

LEMMA AmountEmpty == Amount({}) = 0
  BY TotalEmpty DEF Amount

LEMMA AmountSame ==
  ASSUME NEW K, IsFiniteSet(K), \A k \in K : k.n \in Nat, NEW S \in SUBSET K
  PROVE  /\ IsFiniteSet(S) /\ Amount(S) \in Nat /\ Amount(S) = Total(Weighing(K), S)
         /\ Amount(S) = Sum(S, LAMBDA k : k.n) /\ \A k \in K : Weighing(K)[k] = k.n
  <1>1. /\ Sum(S, LAMBDA k : k.n) = Total(Weighing(K), S) /\ Total(Weighing(K), S) \in Nat
        /\ IsFiniteSet(S) /\ \A k \in K : Weighing(K)[k] = k.n
    BY StoreSum
  <1>2. Amount(S) \in Nat /\ Amount(S) = Sum(S, LAMBDA k : k.n)
    BY <1>1, AmountNatural
  <1> QED BY <1>1, <1>2

LEMMA AmountMore ==
  ASSUME NEW K, IsFiniteSet(K), \A k \in K : k.n \in Nat, NEW S \in SUBSET K, NEW R \in SUBSET S
  PROVE  Amount(R) <= Amount(S)
  <1> DEFINE w == Weighing(K)
             D == S \ R
  <1>1. R \in SUBSET K /\ D \in SUBSET K /\ R \cup D = S /\ R \cap D = {}
    OBVIOUS
  <1> HIDE DEF D
  <1>2. /\ IsFiniteSet(R) /\ Amount(R) \in Nat /\ Amount(R) = Total(w, R)
        /\ IsFiniteSet(D) /\ Amount(D) \in Nat /\ Amount(D) = Total(w, D)
        /\ Amount(S) = Total(w, S) /\ \A k \in K : w[k] = k.n
    BY <1>1, AmountSame
  <1> HIDE DEF w
  <1>3. Total(w, R \cup D) = Total(w, R) + Total(w, D)
    <2>1. \A k \in R \cup D : w[k] \in Nat
      BY <1>1, <1>2
    <2> QED BY <1>1, <1>2, <2>1, TotalUnion
  <1>4. Total(w, R \cup D) = Total(w, S)
    BY <1>1
  <1> QED BY <1>2, <1>3, <1>4

LEMMA AmountAdd ==
  ASSUME NEW K, IsFiniteSet(K), \A k \in K : k.n \in Nat, NEW x, x.n \in Nat, x \notin K
  PROVE  Amount(K \cup {x}) = Amount(K) + x.n
  <1> DEFINE L == K \cup {x}
             w == Weighing(L)
  <1>1. IsFiniteSet(L) /\ \A k \in L : k.n \in Nat
    BY FS_AddElement
  <1>2. K \in SUBSET L /\ L \in SUBSET L
    OBVIOUS
  <1>3. Amount(L) = Total(w, L)
    BY <1>1, <1>2, AmountSame
  <1>4. Amount(K) = Total(w, K) /\ \A k \in L : w[k] = k.n
    BY <1>1, <1>2, AmountSame
  <1> HIDE DEF w
  <1>5. Total(w, K \cup {x}) = Total(w, K) + w[x]
    <2>1. \A k \in K \cup {x} : w[k] \in Nat
      BY <1>1, <1>4
    <2> QED BY <2>1, TotalAdd
  <1> QED BY <1>3, <1>4, <1>5

LEMMA ChunksTyped ==
  ASSUME NEW st \in Stores
  PROVE  /\ \A k \in st.chunks : k.n \in Nat /\ k.sequence \in Nat /\ k.session \in Nat
         /\ st.meta \in Described
         /\ \A k, l \in st.chunks : (k.session = l.session /\ k.sequence = l.sequence /\ k.n = l.n) => k = l
  BY DEF Stores

-----------------------------------------------------------------------------
(* The invariant, its sums as numbers of samples *)

Kept(p, st) ==
  LET own == Own(p.meta.session)
  IN Amount(Mine(st, p.meta)) + Held(p.writes, own) + Held(p.failed, own) + p.batch >= p.meta.count

Whole(st) ==
  /\ {k.sequence : k \in st.chunks} = 1..st.meta.chunks
  /\ Amount(st.chunks) = st.meta.count
  /\ \A k \in st.chunks : k.session = st.meta.session

Delivers(p, st, x) ==
  LET h == x.header
      sent == Under(h.chunks)
  IN /\ (p.busy = "clear" /\ x.stage # "none") => h.session < p.meta.session
     /\ (h.session = p.meta.session /\ x.stage = "waits") =>
          /\ h.chunks <= p.meta.chunks
          /\ Amount(Upto(st, h.chunks)) + Held(p.writes, sent) + Held(p.failed, sent) >= h.count
          /\ \A i \in DOMAIN p.writes : p.writes[i].meta.chunks <= h.chunks => p.writes[i] \in x.wait
     /\ (h.session = p.meta.session /\ x.stage = "reads") => x.rest + Amount(Upto(st, h.chunks)) >= h.count

LEMMA QueueHeld ==
  ASSUME NEW q \in Seq(Batches), NEW T, NEW S, S = {i \in DOMAIN q : q[i] \in T}
  PROVE  Sum(S, LAMBDA i : q[i].n) = Held(q, T)
  <1>1. S \in SUBSET DOMAIN q
    OBVIOUS
  <1>2. Sum(S, LAMBDA i : q[i].n) = Total(Sizing(q), S)
    BY <1>1, QueueSum
  <1> QED BY <1>2 DEF Held

LEMMA KeptSum ==
  ASSUME page \in Pages, store \in Stores, IsFiniteSet(store.chunks), ~early
  PROVE  NoSampleLost <=> Kept(page, store)
  <1> DEFINE m == page.meta
             own(q) == {i \in DOMAIN q : q[i].meta.session = m.session}
             size(q) == Sum(own(q), LAMBDA i : q[i].n)
             kept == {k \in store.chunks : k.session = m.session /\ k.sequence <= m.chunks}
  <1>1. NoSampleLost <=>
          Sum(kept, LAMBDA k : k.n) + size(page.writes) + size(page.failed) + page.batch >= m.count
    BY DEF NoSampleLost
  <1>2. Sum(kept, LAMBDA k : k.n) = Amount(Mine(store, m))
    <2>1. kept = Mine(store, m) /\ kept \in SUBSET store.chunks
      BY DEF Mine
    <2>2. \A k \in store.chunks : k.n \in Nat
      BY ChunksTyped
    <2> HIDE DEF kept
    <2> QED BY <2>1, <2>2, AmountSame
  <1>3. ASSUME NEW q \in Seq(Batches) PROVE size(q) = Held(q, Own(m.session))
    <2>1. own(q) = {i \in DOMAIN q : q[i] \in Own(m.session)}
      BY DEF Own
    <2> HIDE DEF own
    <2> QED BY <2>1, QueueHeld
  <1>4. page.writes \in Seq(Batches) /\ page.failed \in Seq(Batches)
    BY DEF Pages
  <1>5. size(page.writes) = Held(page.writes, Own(m.session)) /\ size(page.failed) = Held(page.failed, Own(m.session))
    BY <1>3, <1>4
  <1> HIDE DEF kept, size, own
  <1> QED BY <1>1, <1>2, <1>5 DEF Kept

LEMMA WholeSum ==
  ASSUME store \in Stores, IsFiniteSet(store.chunks), ~early
  PROVE  (StoreWhole /\ ReplacesPrevious) <=> Whole(store)
  <1>1. \A k \in store.chunks : k.n \in Nat
    BY ChunksTyped
  <1>2. Sum(store.chunks, LAMBDA k : k.n) = Amount(store.chunks)
    BY <1>1, AmountNatural
  <1> QED BY <1>2 DEF StoreWhole, ReplacesPrevious, Whole

LEMMA DeliversSum ==
  ASSUME NEW p \in Pages, NEW st \in Stores, NEW x, IsFiniteSet(st.chunks)
  PROVE  Deliverable(p, st, x) <=> Delivers(p, st, x)
  <1> DEFINE h == x.header
  <1>1. StoredBelow(st, h) = Amount(Upto(st, h.chunks))
    <2>1. Upto(st, h.chunks) \in SUBSET st.chunks /\ \A k \in st.chunks : k.n \in Nat
      BY ChunksTyped DEF Upto
    <2>2. Sum(Upto(st, h.chunks), LAMBDA k : k.n) = Amount(Upto(st, h.chunks))
      BY <2>1, AmountSame
    <2> QED BY <2>2 DEF StoredBelow, Upto
  <1>2. ASSUME NEW q \in Seq(Batches) PROVE Below(q, h) = Held(q, Under(h.chunks))
    <2> DEFINE S == {i \in DOMAIN q : q[i].meta.chunks <= h.chunks}
    <2>1. S = {i \in DOMAIN q : q[i] \in Under(h.chunks)}
      BY DEF Under
    <2>2. Below(q, h) = Sum(S, LAMBDA i : q[i].n)
      BY DEF Below
    <2> HIDE DEF S
    <2> QED BY <2>1, <2>2, QueueHeld
  <1>3. p.writes \in Seq(Batches) /\ p.failed \in Seq(Batches)
    BY DEF Pages
  <1>4. Below(p.writes, h) = Held(p.writes, Under(h.chunks)) /\ Below(p.failed, h) = Held(p.failed, Under(h.chunks))
    BY <1>2, <1>3
  <1> QED BY <1>1, <1>4 DEF Deliverable, Delivers

\* The invariant but for what a stop leaves to its last flush; and all of it.
Nearly(p, st, x, ss, f) ==
  /\ f \in Nat /\ IsFiniteSet(st.chunks) /\ Bounded(p, st, x, ss, f) /\ Counted(p, st)
  /\ Settling(p, st, ss) /\ Resumable(p, st) /\ Consecutive(p, st) /\ Delivers(p, st, x)
  /\ Whole(st) /\ Kept(p, st)
Sound(p, st, x, ss, f) == Nearly(p, st, x, ss, f) /\ Attended(p)

LEMMA InvariantParts ==
  ASSUME OrderlyInv, ~early
  PROVE  IInv <=> (Sound(page, store, export, sessions, faults) /\ ExportWhole)
  <1>1. page \in Pages /\ store \in Stores
    BY DEF OrderlyInv, Orderly
  <1>2. CASE IsFiniteSet(store.chunks)
    <2>1. /\ NoSampleLost <=> Kept(page, store)
          /\ (StoreWhole /\ ReplacesPrevious) <=> Whole(store)
          /\ Deliverable(page, store, export) <=> Delivers(page, store, export)
      BY <1>1, <1>2, KeptSum, WholeSum, DeliversSum
    <2> QED BY <1>2, <2>1 DEF IInv, Sound, Nearly
  <1>3. CASE ~IsFiniteSet(store.chunks)
    BY <1>3 DEF IInv, Sound, Nearly
  <1> QED BY <1>2, <1>3

-----------------------------------------------------------------------------
(* What the operations on a page keep *)

\* What is open, saved or asked of IndexedDB is of no importance here.
LEMMA NearlySame ==
  ASSUME NEW p, NEW r, NEW st, NEW x, NEW ss, NEW f, Nearly(p, st, x, ss, f),
         r.active = p.active, r.flag = p.flag, r.meta = p.meta, r.batch = p.batch,
         r.writes = p.writes, r.failed = p.failed, r.life = p.life, r.busy = p.busy
  PROVE  Nearly(r, st, x, ss, f) /\ (Attended(p) => Attended(r))
  <1>1. /\ f \in Nat /\ IsFiniteSet(st.chunks) /\ Bounded(p, st, x, ss, f) /\ Counted(p, st)
        /\ Settling(p, st, ss) /\ Resumable(p, st) /\ Consecutive(p, st) /\ Delivers(p, st, x)
        /\ Whole(st) /\ Kept(p, st)
    BY DEF Nearly
  <1>2. Loads(r) <=> Loads(p)
    BY DEF Loads
  <1>3. Bounded(r, st, x, ss, f)
    BY <1>1, <1>2 DEF Bounded
  <1>4. Counted(r, st)
    BY <1>1 DEF Counted
  <1>5. Settling(r, st, ss)
    BY <1>1 DEF Settling
  <1>6. Resumable(r, st)
    BY <1>1, <1>2 DEF Resumable
  <1>7. Consecutive(r, st)
    <2>1. \A i : Before(r, st, i) = Before(p, st, i)
      BY DEF Before
    <2>2. Last(r, st) = Last(p, st)
      BY <2>1 DEF Last
    <2> QED BY <1>1, <2>1, <2>2 DEF Consecutive
  <1>8. Delivers(r, st, x)
    BY <1>1 DEF Delivers
  <1>9. Kept(r, st)
    BY <1>1 DEF Kept
  <1>10. Attended(p) => Attended(r)
    BY DEF Attended
  <1> QED BY <1>1, <1>3, <1>4, <1>5, <1>6, <1>7, <1>8, <1>9, <1>10 DEF Nearly

LEMMA Typed ==
  ASSUME NEW p, NEW st, NEW x, NEW ss, Orderly(p, st, x, ss)
  PROVE  /\ p \in Pages /\ st \in Stores /\ x \in Exports /\ ss \in Nat
         /\ p.meta \in Described /\ st.meta \in Described /\ x.header \in Described /\ p.batch \in Nat
         /\ p.writes \in Seq(Batches) /\ p.failed \in Seq(Batches)
         /\ \A i \in DOMAIN p.writes : p.writes[i] \in Batches
         /\ \A i \in DOMAIN p.failed : p.failed[i] \in Batches
         /\ \A c \in Batches : c.meta \in Described /\ c.n \in Nat \ {0}
         /\ \A m \in Described : m.session \in Nat /\ m.count \in Nat /\ m.chunks \in Nat
  <1>1. p \in Pages /\ st \in Stores /\ x \in Exports /\ ss \in Nat
    BY DEF Orderly
  <1>2. /\ p.meta \in Described /\ st.meta \in Described /\ x.header \in Described /\ p.batch \in Nat
        /\ p.writes \in Seq(Batches) /\ p.failed \in Seq(Batches)
    BY <1>1 DEF Pages, Stores, Exports
  <1>3. /\ \A i \in DOMAIN p.writes : p.writes[i] \in Batches
        /\ \A i \in DOMAIN p.failed : p.failed[i] \in Batches
    BY <1>2
  <1>4. /\ \A c \in Batches : c.meta \in Described /\ c.n \in Nat \ {0}
        /\ \A m \in Described : m.session \in Nat /\ m.count \in Nat /\ m.chunks \in Nat
    BY DEF Batches, Described
  <1> QED BY <1>1, <1>2, <1>3, <1>4

LEMMA SoundMore ==
  ASSUME NEW p, NEW st, NEW x, NEW ss, NEW f, Orderly(p, st, x, ss),
         Sound(p, st, x, ss, f), f + 1 <= MaxFaults
  PROVE  Sound(p, st, x, ss, f + 1)
  <1>1. f \in Nat /\ Bounded(p, st, x, ss, f) /\ p \in Pages /\ st \in Stores /\ x \in Exports
    BY DEF Sound, Nearly, Orderly
  <1>2. /\ p.meta \in Described /\ st.meta \in Described /\ x.header \in Described /\ p.batch \in Nat
        /\ \A i \in DOMAIN p.writes : p.writes[i].meta \in Described /\ p.writes[i].n \in Nat
        /\ \A i \in DOMAIN p.failed : p.failed[i].meta \in Described /\ p.failed[i].n \in Nat
    BY Typed
  <1>3. ASSUME NEW m \in Described, Small(m, f) PROVE Small(m, f + 1)
    BY <1>1, <1>3 DEF Small, Described
  <1>4. \A n \in Nat : n <= MaxSamples + f => n <= MaxSamples + (f + 1)
    BY <1>1
  <1>5. Bounded(p, st, x, ss, f + 1)
    <2>1. Loads(p) => st.meta.count + 1 <= MaxSamples + (f + 1)
      BY <1>1, <1>2 DEF Bounded, Described
    <2>2. Small(p.meta, f + 1) /\ Small(st.meta, f + 1) /\ Small(x.header, f + 1)
          /\ p.batch <= MaxSamples + (f + 1)
      BY <1>1, <1>2, <1>3, <1>4 DEF Bounded
    <2>3. /\ \A i \in DOMAIN p.writes : Small(p.writes[i].meta, f + 1) /\ p.writes[i].n <= MaxSamples + (f + 1)
          /\ \A i \in DOMAIN p.failed : Small(p.failed[i].meta, f + 1) /\ p.failed[i].n <= MaxSamples + (f + 1)
      BY <1>1, <1>2, <1>3, <1>4 DEF Bounded
    <2> QED BY <1>1, <2>1, <2>2, <2>3 DEF Bounded
  <1> QED BY <1>1, <1>5 DEF Sound, Nearly

\* A session that is recorded is the stored one.
LEMMA ActiveStored ==
  ASSUME NEW p, NEW st, NEW x, NEW ss, NEW f, Orderly(p, st, x, ss), Nearly(p, st, x, ss, f),
         p.active \/ p.writes # <<>> \/ p.meta.count # 0
  PROVE  /\ p.meta.session = st.meta.session /\ (p.active => p.failed = <<>>)
         /\ (p.writes # <<>> => (p.failed = <<>> /\ p.meta.session # 0))
         /\ (p.active => p.meta.session # 0)
  <1>1. p \in Pages /\ Numbered(p, st, x, ss) /\ Visible(p) /\ Settling(p, st, ss)
    BY DEF Orderly, Nearly
  <1>2. p.meta.session = st.meta.session
    BY <1>1 DEF Settling
  <1>3. p.active => (p.failed = <<>> /\ p.meta.session # 0)
    BY <1>1 DEF Visible, Numbered
  <1>4. ASSUME p.writes # <<>> PROVE p.failed = <<>> /\ p.meta.session # 0
    <2>1. 1 \in DOMAIN p.writes /\ ss \in Nat
      BY <1>1, <1>4, TailElements DEF Pages, Orderly
    <2>2. p.writes[1].meta.session # 0 /\ p.writes[1].meta.session = st.meta.session
      BY <1>1, <2>1 DEF Numbered, Nearly, Consecutive
    <2> QED BY <1>1, <1>2, <1>4, <2>2 DEF Visible
  <1> QED BY <1>2, <1>3, <1>4

LEMMA SampledSound ==
  ASSUME NEW p, NEW st, NEW x, NEW ss, NEW f, Orderly(p, st, x, ss), Sound(p, st, x, ss, f),
         p.active => (p.meta.count < MaxSamples + f /\ p.life = <<>>)
  PROVE  Sound(Sampled(p), st, x, ss, f)
  <1>1. CASE ~p.active
    BY <1>1 DEF Sampled
  <1>2. CASE p.active
    <2> DEFINE r == Sampled(p)
    <2>1. p \in Pages /\ p.meta \in Described /\ p.batch \in Nat /\ p.life = <<>> /\ p.meta.count < MaxSamples + f
      BY <1>2 DEF Orderly, Pages
    <2>2. /\ r \in Pages
          /\ r.active = p.active /\ r.writes = p.writes
          /\ r.failed = p.failed /\ r.life = p.life /\ r.busy = p.busy /\ r.flag = p.flag
          /\ r.meta.session = p.meta.session /\ r.meta.chunks = p.meta.chunks
          /\ r.meta.stopped = p.meta.stopped /\ r.meta.error = p.meta.error
          /\ r.batch = p.batch + 1 /\ r.meta.count = p.meta.count + 1
      <3> HIDE DEF r
      <3>1. /\ r.batch = p.batch + (IF p.active THEN 1 ELSE 0)
            /\ r.meta.count = p.meta.count + (IF p.active THEN 1 ELSE 0)
        BY <2>1, SampledFields DEF r
      <3>2. r.batch = p.batch + 1 /\ r.meta.count = p.meta.count + 1
        BY <1>2, <3>1
      <3> QED BY <2>1, <3>2, SampledFields DEF r
    <2> HIDE DEF r
    <2>3. /\ f \in Nat /\ IsFiniteSet(st.chunks) /\ Bounded(p, st, x, ss, f) /\ Counted(p, st)
          /\ Settling(p, st, ss) /\ Resumable(p, st) /\ Consecutive(p, st) /\ Delivers(p, st, x)
          /\ Whole(st) /\ Kept(p, st) /\ Attended(p)
      BY DEF Sound, Nearly
    <2>4. p.meta.session = st.meta.session /\ p.meta.session # 0 /\ p.failed = <<>>
      BY <1>2, ActiveStored DEF Sound
    <2>5. ~Loads(p) /\ ~Loads(r)
      BY <2>1, <2>2 DEF Loads
    <2>6. p.meta.count \in Nat /\ p.meta.chunks \in Nat /\ p.meta.session \in Nat
      BY <2>1 DEF Described
    <2>7. p.meta.chunks + p.batch <= p.meta.count
      BY <1>2, <2>3 DEF Counted
    <2>8. Bounded(r, st, x, ss, f)
      <3>1. Small(r.meta, f)
        BY <2>1, <2>2, <2>3, <2>6 DEF Bounded, Small
      <3>2. r.batch <= MaxSamples + f
        BY <2>1, <2>2, <2>3, <2>6, <2>7
      <3>3. r.life # <<"stop">>
        BY <2>1, <2>2, OneElement
      <3> QED BY <2>2, <2>3, <2>5, <3>1, <3>2, <3>3 DEF Bounded
    <2>9. Counted(r, st)
      BY <2>1, <2>2, <2>3, <2>6, <2>7 DEF Counted
    <2>10. Settling(r, st, ss)
      <3>1. r.busy # "clear"
        BY <1>2, <2>2 DEF Orderly, Lined
      <3> QED BY <2>2, <2>3, <2>4, <3>1 DEF Settling
    <2>11. Attended(r)
      BY <1>2, <2>2 DEF Attended
    <2>12. Resumable(r, st)
      BY <2>2, <2>3, <2>5 DEF Resumable, Clean
    <2>13. Consecutive(r, st)
      <3>1. \A i : Before(r, st, i) = Before(p, st, i)
        BY <2>2 DEF Before
      <3>2. Last(r, st) = Last(p, st)
        BY <2>2, <3>1 DEF Last
      <3>3. p.meta.count = Last(p, st) + p.batch /\ p.meta.chunks = st.meta.chunks + Len(p.writes)
        BY <2>3, <2>4 DEF Consecutive
      <3>4. Last(p, st) \in Nat
        <4>1. st.meta.count \in Nat
          BY DEF Orderly, Stores, Described
        <4>2. p.writes \in Seq(Batches)
          BY <2>1 DEF Pages
        <4>3. CASE p.writes = <<>>
          BY <4>1, <4>3 DEF Last, Before
        <4>4. CASE p.writes # <<>>
          <5>1. Len(p.writes) \in DOMAIN p.writes /\ Len(p.writes) + 1 # 1 /\ Len(p.writes) + 1 - 1 = Len(p.writes)
            BY <4>2, <4>4, TailElements
          <5>2. p.writes[Len(p.writes)] \in Batches
            BY <4>2, <5>1
          <5>3. Last(p, st) = p.writes[Len(p.writes)].meta.count
            BY <5>1 DEF Last, Before
          <5> QED BY <5>2, <5>3 DEF Batches, Described
        <4> QED BY <4>3, <4>4
      <3>5. r.meta.count = Last(r, st) + r.batch
        BY <2>1, <2>2, <3>2, <3>3, <3>4
      <3> QED BY <2>2, <2>3, <3>1, <3>3, <3>5 DEF Consecutive
    <2>14. Delivers(r, st, x)
      BY <2>2, <2>3 DEF Delivers
    <2>15. Kept(r, st)
      <3> DEFINE a == Amount(Mine(st, p.meta))
                 b == Held(p.writes, Own(p.meta.session))
                 c == Held(p.failed, Own(p.meta.session))
      <3>1. a \in Nat
        <4>1. Mine(st, p.meta) \in SUBSET st.chunks /\ st \in Stores
          BY DEF Mine, Orderly
        <4> QED BY <2>3, <4>1, ChunksTyped, AmountSame
      <3>2. b \in Nat /\ c \in Nat
        BY <2>1, HeldNatural DEF Pages
      <3>3. Mine(st, r.meta) = Mine(st, p.meta)
        BY <2>2 DEF Mine
      <3>4. a + b + c + p.batch >= p.meta.count
        BY <2>3 DEF Kept
      <3> HIDE DEF a, b, c
      <3>5. a + b + c + r.batch >= r.meta.count
        BY <2>1, <2>2, <2>6, <3>1, <3>2, <3>4
      <3> QED BY <2>2, <3>3, <3>5 DEF Kept, a, b, c
    <2> QED BY <2>3, <2>8, <2>9, <2>10, <2>11, <2>12, <2>13, <2>14, <2>15 DEF Sound, Nearly, r
  <1> QED BY <1>1, <1>2

\* A queue that ends in one more chunk.
LEMMA BeforeKept ==
  ASSUME NEW p, NEW r, NEW st, NEW c \in Batches, p.writes \in Seq(Batches),
         r.writes = Append(p.writes, c), NEW i \in DOMAIN r.writes
  PROVE  Before(r, st, i) = Before(p, st, i)
  <1> DEFINE q == p.writes
             a == r.writes
  <1>1. Len(q) \in Nat /\ \A j \in 1..Len(q) : a[j] = q[j]
    BY AppendElements
  <1>2. i \in 1..(Len(q) + 1)
    BY AppendElements
  <1>3. CASE i = 1
    BY <1>3 DEF Before
  <1>4. CASE i # 1
    <2>1. i - 1 \in 1..Len(q)
      BY <1>1, <1>2, <1>4
    <2>2. a[i - 1] = q[i - 1]
      BY <1>1, <2>1
    <2> QED BY <1>4, <2>2 DEF Before
  <1> QED BY <1>3, <1>4

LEMMA LastAppend ==
  ASSUME NEW p, NEW r, NEW st, NEW c \in Batches, p.writes \in Seq(Batches),
         r.writes = Append(p.writes, c)
  PROVE  Last(r, st) = c.meta.count
  <1> DEFINE q == p.writes
             a == r.writes
  <1>1. Len(q) \in Nat /\ Len(a) = Len(q) + 1 /\ a[Len(q) + 1] = c
    BY AppendElements
  <1>2. Len(a) + 1 # 1 /\ Len(a) + 1 - 1 = Len(q) + 1
    BY <1>1
  <1> QED BY <1>1, <1>2 DEF Last, Before

LEMMA BeforeTyped ==
  ASSUME NEW p, NEW st, p.writes \in Seq(Batches), st.meta \in Described
  PROVE  \A i \in 1..(Len(p.writes) + 1) : Before(p, st, i) \in Nat
  <1> SUFFICES ASSUME NEW i \in 1..(Len(p.writes) + 1) PROVE Before(p, st, i) \in Nat
    OBVIOUS
  <1>1. Len(p.writes) \in Nat
    OBVIOUS
  <1>2. CASE i = 1
    BY <1>2 DEF Before, Described
  <1>3. CASE i # 1
    <2>1. i - 1 \in DOMAIN p.writes
      BY <1>1, <1>3
    <2>2. p.writes[i - 1] \in Batches
      BY <2>1
    <2> QED BY <1>3, <2>2 DEF Before, Batches, Described
  <1> QED BY <1>2, <1>3

LEMMA LastTyped ==
  ASSUME NEW p, NEW st, p.writes \in Seq(Batches), st.meta \in Described
  PROVE  Last(p, st) \in Nat
  <1>1. Len(p.writes) + 1 \in 1..(Len(p.writes) + 1)
    OBVIOUS
  <1> QED BY <1>1, BeforeTyped DEF Last

\* A batch can become a chunk of the stored session, or it is kept aside.
Flushable(p, st) ==
  (p.batch > 0 /\ p.failed = <<>>) =>
    /\ p.meta.session = st.meta.session /\ p.meta.session # 0 /\ Len(p.writes) < Backlog
    /\ p.meta.chunks + p.batch <= p.meta.count /\ "start" \notin Range(p.life)

LEMMA AmountsTyped ==
  ASSUME NEW st \in Stores, IsFiniteSet(st.chunks)
  PROVE  /\ \A m : Mine(st, m) \in SUBSET st.chunks /\ Amount(Mine(st, m)) \in Nat
         /\ \A b : Upto(st, b) \in SUBSET st.chunks /\ Amount(Upto(st, b)) \in Nat
  <1>1. \A k \in st.chunks : k.n \in Nat
    BY ChunksTyped
  <1>2. ASSUME NEW m PROVE Mine(st, m) \in SUBSET st.chunks /\ Amount(Mine(st, m)) \in Nat
    <2>1. Mine(st, m) \in SUBSET st.chunks
      BY DEF Mine
    <2> QED BY <1>1, <2>1, AmountSame
  <1>3. ASSUME NEW b PROVE Upto(st, b) \in SUBSET st.chunks /\ Amount(Upto(st, b)) \in Nat
    <2>1. Upto(st, b) \in SUBSET st.chunks
      BY DEF Upto
    <2> QED BY <1>1, <2>1, AmountSame
  <1> QED BY <1>2, <1>3

LEMMA FlushedSound ==
  ASSUME NEW p, NEW st, NEW x, NEW ss, NEW f, Orderly(p, st, x, ss), Nearly(p, st, x, ss, f),
         Flushable(p, st), p.busy # "clear"
  PROVE  Sound(Flushed(p), st, x, ss, f)
  <1>1. CASE p.batch = 0
    BY <1>1, Typed, FlushedEmpty DEF Sound, Attended
  <1>2. CASE p.batch # 0
    <2> DEFINE r == Flushed(p)
               c == NewChunk(p)
    <2>1. /\ p \in Pages /\ p.meta \in Described /\ p.batch \in Nat /\ p.batch > 0
          /\ p.writes \in Seq(Batches) /\ p.failed \in Seq(Batches) /\ st \in Stores
          /\ st.meta \in Described
          /\ p.meta.count \in Nat /\ p.meta.chunks \in Nat /\ p.meta.session \in Nat
          /\ st.meta.count \in Nat /\ st.meta.chunks \in Nat
      BY <1>2, Typed
    <2>2. c \in Batches /\ c.n = p.batch /\ c.meta \in Described
          /\ c.meta.session = p.meta.session /\ c.meta.count = p.meta.count
          /\ c.meta.chunks = p.meta.chunks + 1
          /\ c.meta.stopped = p.meta.stopped /\ c.meta.error = p.meta.error
      BY <1>2, <2>1, NewChunkFields
    <2>3. /\ r \in Pages
          /\ r.batch = 0 /\ r.life = p.life /\ r.busy = p.busy
          /\ r.active = (p.active /\ ~Overfull(p)) /\ r.flag = (p.flag /\ ~Overfull(p))
          /\ r.meta.session = p.meta.session /\ r.meta.count = p.meta.count
          /\ r.meta.chunks = p.meta.chunks + 1 /\ r.meta.stopped = p.meta.stopped
          /\ r.meta.error = (IF Overfull(p) THEN p.meta.session # 0 ELSE p.meta.error)
          /\ p.writes # <<>> => r.writes = Append(p.writes, c) /\ r.failed = p.failed
          /\ (p.writes = <<>> /\ p.failed # <<>>) => r.writes = <<>> /\ r.failed = Append(p.failed, c)
          /\ (p.writes = <<>> /\ p.failed = <<>>) => r.writes = <<c>> /\ r.failed = <<>>
      BY <1>2, <2>1, FlushedFields
    <2> HIDE DEF r, c
    <2>20. /\ p.batch \in Nat /\ p.batch > 0
           /\ p.meta.count \in Nat /\ p.meta.chunks \in Nat /\ p.meta.session \in Nat
           /\ st.meta.count \in Nat /\ st.meta.chunks \in Nat
      BY <2>1
    <2>21. /\ r.batch = 0 /\ r.meta.session = p.meta.session /\ r.meta.count = p.meta.count
           /\ r.meta.chunks = p.meta.chunks + 1
      BY <2>3
    <2>22. /\ c.n = p.batch /\ c.meta.session = p.meta.session /\ c.meta.count = p.meta.count
           /\ c.meta.chunks = p.meta.chunks + 1
      BY <2>2
    <2>23. (r.active => (p.active /\ ~Overfull(p))) /\ (r.flag => (p.flag /\ ~Overfull(p)))
      BY <2>3
    <2>4. /\ f \in Nat /\ IsFiniteSet(st.chunks) /\ Bounded(p, st, x, ss, f) /\ Counted(p, st)
          /\ Settling(p, st, ss) /\ Resumable(p, st) /\ Consecutive(p, st) /\ Delivers(p, st, x)
          /\ Whole(st) /\ Kept(p, st)
      BY DEF Nearly
    <2>5. ~Loads(p) /\ ~Loads(r)
      BY <2>1, <2>3 DEF Orderly, Untouched, Loads
    <2>6. p.failed # <<>> => p.writes = <<>>
      BY DEF Orderly, Visible
    <2>7. \/ p.failed = <<>> /\ r.failed = <<>> /\ r.writes = Append(p.writes, c)
          \/ p.failed # <<>> /\ r.failed = Append(p.failed, c) /\ r.writes = p.writes /\ p.writes = <<>>
      <3>1. Append(<<>>, c) = <<c>>
        OBVIOUS
      <3> QED BY <2>3, <2>6, <3>1
    <2>8. /\ p.failed = <<>> =>
               /\ p.meta.session = st.meta.session /\ p.meta.session # 0 /\ Len(p.writes) < Backlog
               /\ p.meta.chunks + p.batch <= p.meta.count /\ "start" \notin Range(p.life)
               /\ p.meta.chunks = st.meta.chunks + Len(p.writes) /\ p.meta.count = Last(p, st) + p.batch
      BY <2>1, <2>4 DEF Flushable, Consecutive
    <2>9. p.meta.count <= MaxSamples + f /\ p.batch <= MaxSamples + f /\ p.meta.chunks + 1 <= MaxSamples + f
      <3>1. p.meta.count <= MaxSamples + f /\ p.batch <= MaxSamples + f
        BY <2>4 DEF Bounded, Small
      <3>2. p.meta.chunks + p.batch <= p.meta.count \/ p.meta.chunks = 0
        BY <2>4, <2>20 DEF Counted
      <3>3. MaxSamples \in Nat \ {0} /\ f \in Nat
        BY <2>4, PlaybackTraceAssumption
      <3> QED BY ONLY <2>20, <3>1, <3>2, <3>3
    <2>10. \A i \in DOMAIN r.writes :
             (i \in DOMAIN p.writes /\ r.writes[i] = p.writes[i])
             \/ (p.failed = <<>> /\ i = Len(p.writes) + 1 /\ r.writes[i] = c)
      <3>1. ASSUME p.failed = <<>>, NEW i \in DOMAIN r.writes
            PROVE  (i \in DOMAIN p.writes /\ r.writes[i] = p.writes[i]) \/ (i = Len(p.writes) + 1 /\ r.writes[i] = c)
        <4>1. r.writes = Append(p.writes, c)
          BY <2>7, <3>1
        <4> QED BY <2>1, <2>2, <4>1, AppendElements
      <3>2. p.failed # <<>> => r.writes = p.writes
        BY <2>7
      <3> QED BY <3>1, <3>2
    <2>11. \A i \in DOMAIN r.failed :
             (i \in DOMAIN p.failed /\ r.failed[i] = p.failed[i]) \/ (p.failed # <<>> /\ r.failed[i] = c)
      <3>1. ASSUME p.failed # <<>>, NEW i \in DOMAIN r.failed
            PROVE  (i \in DOMAIN p.failed /\ r.failed[i] = p.failed[i]) \/ r.failed[i] = c
        <4>1. r.failed = Append(p.failed, c)
          BY <2>7, <3>1
        <4> QED BY <2>1, <2>2, <4>1, AppendElements
      <3>2. p.failed = <<>> => r.failed = p.failed
        BY <2>7
      <3> QED BY <3>1, <3>2
    <2>12. Bounded(r, st, x, ss, f)
      <3>1. Small(r.meta, f) /\ Small(c.meta, f)
        BY <2>1, <2>2, <2>3, <2>4, <2>9 DEF Bounded, Small
      <3>2. r.batch <= MaxSamples + f /\ c.n <= MaxSamples + f
        BY <2>2, <2>3, <2>4, <2>9
      <3> QED BY <2>3, <2>4, <2>5, <2>10, <2>11, <3>1, <3>2 DEF Bounded
    <2>13. Counted(r, st)
      <3>1. \A i \in DOMAIN r.writes : r.writes[i].meta.chunks <= r.writes[i].meta.count
        <4>1. p.failed = <<>> => c.meta.chunks <= c.meta.count
          <5>1. p.failed = <<>> => p.meta.chunks + p.batch <= p.meta.count
            BY <2>8
          <5> QED BY ONLY <2>20, <2>22, <5>1
        <4> QED BY <2>4, <2>10, <4>1 DEF Counted
      <3>2. \/ r.meta.chunks + r.batch <= r.meta.count
            \/ ~r.active /\ r.meta.count = 0 /\ r.meta.chunks = 1 /\ r.batch = 0
        <4>1. \/ p.meta.chunks + p.batch <= p.meta.count
              \/ ~p.active /\ p.meta.count = 0 /\ p.meta.chunks = 0
          BY <2>4, <2>20 DEF Counted
        <4> QED BY <2>20, <2>21, <2>23, <4>1
      <3> QED BY <2>4, <3>1, <3>2 DEF Counted
    <2>14. Settling(r, st, ss)
      <3>1. r.active => p.active
        BY <2>3
      <3>3. Len(p.writes) \in Nat
        BY <2>1
      <3>4. p.failed = <<>> => Len(r.writes) = Len(p.writes) + 1
        BY <2>1, <2>2, <2>7, AppendElements
      <3>5. Len(r.writes) <= Backlog
        BY <2>4, <2>7, <2>8, <3>3, <3>4 DEF Settling
      <3>6. r.active => Len(r.writes) < Backlog
        <4>1. r.active => Len(p.writes) + 1 < Backlog
          BY <2>23, <3>3 DEF Overfull
        <4>2. r.active => Len(p.writes) < Backlog
          BY <2>4, <3>1 DEF Settling
        <4>3. p.failed # <<>> => Len(r.writes) = Len(p.writes)
          BY <2>7
        <4> QED BY <3>4, <4>1, <4>2, <4>3
      <3>7. r.meta.session # st.meta.session => (~r.active /\ r.writes = <<>> /\ r.meta.count = 0)
        BY <2>3, <2>4, <2>7, <2>8, <3>1 DEF Settling
      <3> QED BY <2>3, <2>4, <3>5, <3>6, <3>7 DEF Settling
    <2>15. Attended(r)
      BY <2>3 DEF Attended
    <2>16. Resumable(r, st)
      <3>1. p.busy \in {"resume", "view"} => Loads(p)
        BY LifeTails DEF Orderly, Lined, Loads
      <3>2. r.busy # "resume" /\ r.busy # "view"
        BY <2>3, <2>5, <3>1
      <3>3. p.flag => (p.active /\ st.meta.session # 0 /\ Clean(st.meta))
        BY <2>4, <2>5 DEF Resumable
      <3>4. r.flag => (r.active /\ st.meta.session # 0 /\ Clean(st.meta))
        BY <2>3, <3>3
      <3>5. ASSUME r.active PROVE Clean(r.meta) /\ \A i \in DOMAIN r.writes : Clean(r.writes[i].meta)
        <4>1. p.active /\ ~Overfull(p)
          BY <2>3, <3>5
        <4>2. Clean(p.meta) /\ \A i \in DOMAIN p.writes : Clean(p.writes[i].meta)
          BY <2>4, <4>1 DEF Resumable
        <4>3. Clean(r.meta) /\ Clean(c.meta)
          BY <2>2, <2>3, <4>1, <4>2 DEF Clean
        <4> QED BY <2>10, <4>2, <4>3
      <3> QED BY <3>2, <3>4, <3>5 DEF Resumable
    <2>17. Consecutive(r, st)
      <3>1. ASSUME NEW i \in DOMAIN r.writes
            PROVE  /\ r.writes[i].meta.session = st.meta.session
                   /\ r.writes[i].meta.chunks = st.meta.chunks + i
                   /\ r.writes[i].meta.count = Before(r, st, i) + r.writes[i].n
        <4>1. CASE p.failed = <<>>
          <5>1. r.writes = Append(p.writes, c)
            BY <2>7, <4>1
          <5>2. /\ \A j \in DOMAIN r.writes : Before(r, st, j) = Before(p, st, j)
                /\ Last(p, st) = Before(p, st, Len(p.writes) + 1)
            <6>1. p.writes \in Seq(Batches) /\ c \in Batches
              BY <2>1, <2>2
            <6>2. \A j \in DOMAIN r.writes : Before(r, st, j) = Before(p, st, j)
              BY <5>1, <6>1, BeforeKept
            <6>3. Last(p, st) = Before(p, st, Len(p.writes) + 1)
              BY DEF Last
            <6> QED BY <6>2, <6>3
          <5>3. DOMAIN p.writes = 1..Len(p.writes) /\ DOMAIN r.writes = 1..(Len(p.writes) + 1)
                /\ Len(p.writes) \in Nat
            BY <2>1, <2>2, <5>1, AppendElements
          <5>4. CASE i \in DOMAIN p.writes /\ r.writes[i] = p.writes[i]
            BY <2>4, <5>2, <5>3, <5>4 DEF Consecutive
          <5>5. CASE i = Len(p.writes) + 1 /\ r.writes[i] = c
            <6>1. Before(r, st, i) = Last(p, st)
              BY <5>2, <5>3, <5>5
            <6>2. Last(p, st) \in Nat
              BY <2>1, LastTyped
            <6>3. /\ p.meta.session = st.meta.session
                  /\ p.meta.chunks = st.meta.chunks + Len(p.writes) /\ p.meta.count = Last(p, st) + p.batch
              BY <2>8, <4>1
            <6>4. Len(p.writes) \in Nat
              BY <5>3
            <6>5. /\ c.meta.chunks = st.meta.chunks + (Len(p.writes) + 1)
                  /\ c.meta.count = Last(p, st) + c.n /\ c.meta.session = st.meta.session
              BY <2>20, <2>22, <6>2, <6>3, <6>4
            <6> QED BY <5>5, <6>1, <6>5
          <5> QED BY <2>10, <5>4, <5>5
        <4>2. CASE p.failed # <<>>
          <5>1. r.writes = <<>>
            BY <2>7, <4>2
          <5> QED BY <5>1
        <4> QED BY <4>1, <4>2
      <3>2. ASSUME NEW i \in DOMAIN r.failed, r.failed[i].meta.session = r.meta.session
            PROVE  r.failed[i].meta.chunks <= r.meta.chunks
        <4>1. CASE i \in DOMAIN p.failed /\ r.failed[i] = p.failed[i]
          <5>1. p.failed[i].meta.chunks <= p.meta.chunks
            BY <2>3, <2>4, <3>2, <4>1 DEF Consecutive
          <5>2. p.failed[i].meta.chunks \in Nat
            BY <4>1, Typed
          <5> QED BY <2>1, <2>3, <4>1, <5>1, <5>2
        <4>2. CASE r.failed[i] = c
          BY <2>1, <2>2, <2>3, <4>2
        <4> QED BY <2>11, <4>1, <4>2
      <3>3. ASSUME r.failed = <<>>
            PROVE  r.meta.chunks = st.meta.chunks + Len(r.writes) /\ r.meta.count = Last(r, st) + r.batch
        <4>1. p.failed = <<>> /\ r.writes = Append(p.writes, c)
          <5>1. p.failed # <<>> => r.failed # <<>>
            BY <2>1, <2>2, <2>7, AppendElements
          <5> QED BY <2>7, <3>3, <5>1
        <4>2. Last(r, st) = p.meta.count
          <5>1. p.writes \in Seq(Batches) /\ c \in Batches /\ r.writes = Append(p.writes, c)
            BY <2>1, <2>2, <4>1
          <5>2. Last(r, st) = c.meta.count
            BY ONLY <5>1, LastAppend
          <5> QED BY <2>22, <5>2
        <4>3. Len(r.writes) = Len(p.writes) + 1 /\ Len(p.writes) \in Nat
          BY <2>1, <2>2, <4>1, AppendElements
        <4>4. p.meta.chunks = st.meta.chunks + Len(p.writes)
          BY <2>8, <4>1
        <4> QED BY ONLY <2>20, <2>21, <4>2, <4>3, <4>4
      <3> QED BY <3>1, <3>2, <3>3 DEF Consecutive
    <2>18. Delivers(r, st, x)
      <3> DEFINE h == x.header
                 sent == Under(h.chunks)
      <3>1. h.chunks \in Nat
        BY Typed
      <3>2. ASSUME h.session = p.meta.session, x.stage = "waits"
            PROVE  /\ h.chunks <= r.meta.chunks
                   /\ Amount(Upto(st, h.chunks)) + Held(r.writes, sent) + Held(r.failed, sent) >= h.count
                   /\ \A i \in DOMAIN r.writes : r.writes[i].meta.chunks <= h.chunks => r.writes[i] \in x.wait
        <4>1. /\ h.chunks <= p.meta.chunks
              /\ Amount(Upto(st, h.chunks)) + Held(p.writes, sent) + Held(p.failed, sent) >= h.count
              /\ \A i \in DOMAIN p.writes : p.writes[i].meta.chunks <= h.chunks => p.writes[i] \in x.wait
          BY <2>4, <3>2 DEF Delivers
        <4>2. ~(c.meta.chunks <= h.chunks)
          BY <2>1, <2>2, <3>1, <4>1
        <4>3. c \notin sent
          BY <4>2 DEF Under
        <4> HIDE DEF sent
        <4>4. Held(r.writes, sent) = Held(p.writes, sent) /\ Held(r.failed, sent) = Held(p.failed, sent)
          <5>1. CASE p.failed = <<>>
            <6>1. r.writes = Append(p.writes, c) /\ r.failed = p.failed
              BY <2>7, <5>1
            <6> QED BY <2>1, <2>2, <4>3, <6>1, HeldAppend
          <5>2. CASE p.failed # <<>>
            <6>1. r.writes = p.writes /\ r.failed = Append(p.failed, c)
              BY <2>7, <5>2
            <6> QED BY <2>1, <2>2, <4>3, <6>1, HeldAppend
          <5> QED BY <5>1, <5>2
        <4>5. \A i \in DOMAIN r.writes : r.writes[i].meta.chunks <= h.chunks => r.writes[i] \in x.wait
          BY <2>10, <4>1, <4>2
        <4>6. h.chunks <= r.meta.chunks
          BY <2>20, <2>21, <3>1, <4>1
        <4>7. Amount(Upto(st, h.chunks)) + Held(r.writes, sent) + Held(r.failed, sent) >= h.count
          BY <4>1, <4>4
        <4> QED BY <4>5, <4>6, <4>7 DEF sent
      <3>3. r.busy # "clear" /\ r.meta.session = p.meta.session
        BY <2>3
      <3> QED BY <2>4, <3>2, <3>3 DEF Delivers
    <2>19. Kept(r, st)
      <3> DEFINE own == Own(p.meta.session)
                 a == Amount(Mine(st, p.meta))
                 b == Amount(Mine(st, r.meta))
      <3>1. a \in Nat /\ b \in Nat /\ a <= b
        <4>1. \A k \in st.chunks : k.n \in Nat /\ k.sequence \in Nat
          BY <2>1, ChunksTyped
        <4>2. Mine(st, p.meta) \in SUBSET Mine(st, r.meta)
          BY <2>1, <2>3, <4>1 DEF Mine
        <4>3. Mine(st, r.meta) \in SUBSET st.chunks
          BY DEF Mine
        <4> QED BY <2>1, <2>4, <4>1, <4>2, <4>3, AmountsTyped, AmountMore
      <3>2. c \in own
        BY <2>2 DEF Own
      <3>3. a + Held(p.writes, own) + Held(p.failed, own) + p.batch >= p.meta.count
        BY <2>4 DEF Kept
      <3> HIDE DEF own, a, b
      <3>4. Held(p.writes, own) \in Nat /\ Held(p.failed, own) \in Nat
        BY <2>1, HeldNatural
      <3>5. \/ Held(r.writes, own) = Held(p.writes, own) + p.batch /\ Held(r.failed, own) = Held(p.failed, own)
            \/ Held(r.writes, own) = Held(p.writes, own) /\ Held(r.failed, own) = Held(p.failed, own) + p.batch
        <4>1. CASE p.failed = <<>>
          <5>1. r.writes = Append(p.writes, c) /\ r.failed = p.failed
            BY <2>7, <4>1
          <5> QED BY <2>1, <2>2, <3>2, <5>1, HeldAppend
        <4>2. CASE p.failed # <<>>
          <5>1. r.writes = p.writes /\ r.failed = Append(p.failed, c)
            BY <2>7, <4>2
          <5> QED BY <2>1, <2>2, <3>2, <5>1, HeldAppend
        <4> QED BY <4>1, <4>2
      <3>6. b + Held(r.writes, own) + Held(r.failed, own) + r.batch >= r.meta.count
        BY <2>20, <2>21, <3>1, <3>3, <3>4, <3>5
      <3> QED BY <2>21, <3>6 DEF Kept, own, b
    <2> QED BY <2>4, <2>12, <2>13, <2>14, <2>15, <2>16, <2>17, <2>18, <2>19 DEF Sound, Nearly, r
  <1> QED BY <1>1, <1>2

\* What is on its way does not change.
LEMMA DataSame ==
  ASSUME NEW p, NEW r, NEW st, NEW x, NEW ss, NEW f, Nearly(p, st, x, ss, f),
         r.meta.session = p.meta.session, r.meta.count = p.meta.count, r.meta.chunks = p.meta.chunks,
         r.batch = p.batch, r.writes = p.writes, r.failed = p.failed,
         r.active => p.active, r.busy # "clear"
  PROVE  Counted(r, st) /\ Consecutive(r, st) /\ Kept(r, st) /\ Delivers(r, st, x)
  <1>1. Counted(p, st) /\ Consecutive(p, st) /\ Kept(p, st) /\ Delivers(p, st, x)
    BY DEF Nearly
  <1>2. Counted(r, st)
    BY <1>1 DEF Counted
  <1>3. Consecutive(r, st)
    <2>1. \A i : Before(r, st, i) = Before(p, st, i)
      BY DEF Before
    <2>2. Last(r, st) = Last(p, st)
      BY <2>1 DEF Last
    <2> QED BY <1>1, <2>1, <2>2 DEF Consecutive
  <1>4. Kept(r, st)
    <2>1. Mine(st, r.meta) = Mine(st, p.meta)
      BY DEF Mine
    <2> QED BY <1>1, <2>1 DEF Kept
  <1>5. Delivers(r, st, x)
    BY <1>1 DEF Delivers
  <1> QED BY <1>2, <1>3, <1>4, <1>5

\* Recording ends, or an operation on a session that is not recorded.
LEMMA QuietSound ==
  ASSUME NEW p, NEW r, NEW st, NEW x, NEW ss, NEW f, Orderly(p, st, x, ss), Sound(p, st, x, ss, f),
         r.meta.session = p.meta.session, r.meta.count = p.meta.count, r.meta.chunks = p.meta.chunks,
         r.batch = p.batch, r.writes = p.writes, r.failed = p.failed,
         ~r.active, ~r.flag, r.busy \notin {"clear", "resume"}, ~Loads(r), r.life # <<"stop">>,
         p.active => p.batch = 0,
         "start" \in Range(r.life) => ("start" \in Range(p.life) /\ p.busy # "clear")
  PROVE  Sound(r, st, x, ss, f)
  <1>1. /\ f \in Nat /\ IsFiniteSet(st.chunks) /\ Bounded(p, st, x, ss, f) /\ Counted(p, st)
        /\ Settling(p, st, ss) /\ Resumable(p, st) /\ Consecutive(p, st) /\ Delivers(p, st, x)
        /\ Whole(st) /\ Kept(p, st) /\ Attended(p)
    BY DEF Sound, Nearly
  <1>2. Counted(r, st) /\ Consecutive(r, st) /\ Kept(r, st) /\ Delivers(r, st, x)
    BY DataSame DEF Sound
  <1>3. Bounded(r, st, x, ss, f)
    <2>1. Small(r.meta, f)
      BY <1>1 DEF Bounded, Small
    <2> QED BY <1>1, <2>1 DEF Bounded
  <1>4. Settling(r, st, ss)
    BY <1>1 DEF Settling
  <1>5. Attended(r)
    BY <1>1, Typed DEF Attended
  <1>6. Resumable(r, st)
    BY DEF Resumable
  <1> QED BY <1>1, <1>2, <1>3, <1>4, <1>5, <1>6 DEF Sound, Nearly

\* What is queued behind an operation.
LEMMA LifeEnds ==
  ASSUME NEW p, Lined(p), ~p.active, p.life # <<>>
  PROVE  /\ Tail(p.life) = <<>> \/ Tail(p.life) = <<"start">>
         /\ "start" \in Range(Tail(p.life)) => ("start" \in Range(p.life) /\ p.busy # "clear")
  <1>1. \/ Tail(p.life) = <<>>
        \/ p.life \in {<<"load", "start">>, <<"stop", "start">>} /\ p.busy # "clear" /\ Tail(p.life) = <<"start">>
    BY LifeTails DEF Lined
  <1>2. "start" \in Range(<<"load", "start">>) /\ "start" \in Range(<<"stop", "start">>)
    <2>1. <<"load", "start">>[2] = "start" /\ 2 \in DOMAIN <<"load", "start">>
          /\ <<"stop", "start">>[2] = "start" /\ 2 \in DOMAIN <<"stop", "start">>
      OBVIOUS
    <2> QED BY <2>1 DEF Range
  <1>3. "start" \notin Range(<<>>)
    BY DEF Range
  <1> QED BY <1>1, <1>2, <1>3

LEMMA OverSound ==
  ASSUME NEW p, NEW st, NEW x, NEW ss, NEW f, Orderly(p, st, x, ss), Sound(p, st, x, ss, f),
         ~p.active, ~p.flag, p.life # <<>>
  PROVE  Sound(Over(p), st, x, ss, f)
  <1> DEFINE r == Over(p)
  <1>1. p \in Pages /\ Lined(p)
    BY DEF Orderly
  <1>2. /\ r.active = p.active /\ r.meta = p.meta /\ r.batch = p.batch
        /\ r.writes = p.writes /\ r.failed = p.failed
        /\ r.flag = p.flag /\ r.busy = "no" /\ r.life = Tail(p.life)
    BY <1>1, OverFields
  <1>3. /\ r.life = <<>> \/ r.life = <<"start">>
        /\ "start" \in Range(r.life) => ("start" \in Range(p.life) /\ p.busy # "clear")
    BY <1>1, <1>2, LifeEnds
  <1>4. ~Loads(r) /\ r.life # <<"stop">>
    BY <1>3, OneElement, LifeTails DEF Loads
  <1>5. ~r.active /\ ~r.flag
    BY <1>2
  <1> HIDE DEF r
  <1>6. Sound(r, st, x, ss, f)
    BY <1>2, <1>3, <1>4, <1>5, QuietSound
  <1> QED BY <1>6 DEF r

LEMMA FailedSound ==
  ASSUME NEW p, NEW st, NEW x, NEW ss, NEW f, Orderly(p, st, x, ss), Sound(p, st, x, ss, f),
         p.life = <<>>, p.batch = 0
  PROVE  Sound(Failed(p), st, x, ss, f)
  <1> DEFINE r == Failed(p)
  <1>1. p \in Pages /\ Lined(p)
    BY DEF Orderly
  <1>2. /\ ~r.active /\ ~r.flag /\ r.batch = p.batch
        /\ r.writes = p.writes /\ r.failed = p.failed /\ r.busy = p.busy /\ r.life = p.life
        /\ r.meta.session = p.meta.session /\ r.meta.count = p.meta.count /\ r.meta.chunks = p.meta.chunks
    BY <1>1, FailedFields
  <1> HIDE DEF r
  <1>3. r.busy = "no" /\ ~Loads(r) /\ r.life # <<"stop">> /\ "start" \notin Range(r.life)
    <2>1. p.busy = "no"
      BY <1>1, LifeTails DEF Lined
    <2>2. "start" \notin Range(<<>>)
      BY DEF Range
    <2> QED BY <1>2, <2>1, <2>2, LifeTails DEF Loads
  <1>4. Sound(r, st, x, ss, f)
    BY <1>2, <1>3, QuietSound
  <1> QED BY <1>4 DEF r

LEMMA RejectedSound ==
  ASSUME NEW p, NEW st, NEW x, NEW ss, NEW f, Orderly(p, st, x, ss), Sound(p, st, x, ss, f),
         ~p.active, p.life # <<>>
  PROVE  Sound(Rejected(p), st, x, ss, f)
  <1> DEFINE q == Failed(p)
             r == Over(q)
  <1>1. p \in Pages /\ Lined(p)
    BY DEF Orderly
  <1>2. /\ q \in Pages /\ ~q.active /\ ~q.flag /\ q.batch = p.batch
        /\ q.writes = p.writes /\ q.failed = p.failed /\ q.busy = p.busy /\ q.life = p.life
        /\ q.meta.session = p.meta.session /\ q.meta.count = p.meta.count /\ q.meta.chunks = p.meta.chunks
    BY <1>1, FailedFields
  <1> HIDE DEF q
  <1>3. /\ r.active = q.active /\ r.meta = q.meta /\ r.batch = q.batch
        /\ r.writes = q.writes /\ r.failed = q.failed
        /\ r.flag = q.flag /\ r.busy = "no" /\ r.life = Tail(q.life)
    BY <1>2, OverFields
  <1> HIDE DEF r
  <1>4. /\ ~r.active /\ ~r.flag /\ r.batch = p.batch /\ r.writes = p.writes /\ r.failed = p.failed
        /\ r.busy = "no" /\ r.life = Tail(p.life)
        /\ r.meta.session = p.meta.session /\ r.meta.count = p.meta.count /\ r.meta.chunks = p.meta.chunks
    BY <1>2, <1>3
  <1>5. /\ r.life = <<>> \/ r.life = <<"start">>
        /\ "start" \in Range(r.life) => ("start" \in Range(p.life) /\ p.busy # "clear")
    BY <1>1, <1>4, LifeEnds
  <1>6. ~Loads(r) /\ r.life # <<"stop">>
    BY <1>5, OneElement, LifeTails DEF Loads
  <1>7. Sound(r, st, x, ss, f)
    BY <1>4, <1>5, <1>6, QuietSound
  <1> QED BY <1>7 DEF Rejected, r, q

\* All that a whole store holds is of the session it describes.
LEMMA WholeMine ==
  ASSUME NEW st \in Stores, IsFiniteSet(st.chunks), Whole(st)
  PROVE  Mine(st, st.meta) = st.chunks /\ Upto(st, st.meta.chunks) = st.chunks
         /\ \A k \in st.chunks : k.sequence \in 1..st.meta.chunks /\ k.session = st.meta.session
  <1>1. \A k \in st.chunks : k.sequence \in 1..st.meta.chunks /\ k.session = st.meta.session
    BY DEF Whole
  <1>2. st.meta.chunks \in Nat
    BY DEF Stores, Described
  <1>3. \A k \in st.chunks : k.sequence <= st.meta.chunks
    BY <1>1, <1>2
  <1> QED BY <1>1, <1>3 DEF Mine, Upto

\* A page that is about to record the session that is stored.
Recordable(p, st, x, ss, f) ==
  /\ p \in Pages /\ st \in Stores /\ x \in Exports /\ ss \in Nat /\ f \in Nat
  /\ Matched(p, x) /\ Numbered(p, st, x, ss) /\ p.open
  /\ p.life = <<"load">> \/ p.life = <<"start">>
  /\ \A i \in DOMAIN p.db : p.db[i].kind # "read" /\ p.db[i].kind # "clear"
  /\ p.meta = st.meta /\ p.meta.session # 0 /\ Clean(st.meta) /\ p.writes = <<>>
  /\ IsFiniteSet(st.chunks) /\ Whole(st) /\ st.meta.chunks <= st.meta.count
  /\ st.meta.count + 1 <= MaxSamples + f
  /\ Small(st.meta, f) /\ Small(x.header, f) /\ ss <= MaxSessions /\ f <= MaxFaults
  /\ x.stage # "none" => x.header.session < p.meta.session

LEMMA BegunSound ==
  ASSUME NEW p, NEW st, NEW x, NEW ss, NEW f, Recordable(p, st, x, ss, f)
  PROVE  Sound(Begun(p), st, x, ss, f)
  <1> DEFINE r == Begun(p)
  <1>1. /\ p \in Pages /\ st \in Stores /\ x \in Exports /\ ss \in Nat /\ f \in Nat
        /\ p.life = <<"load">> \/ p.life = <<"start">>
        /\ p.meta = st.meta /\ p.meta.session # 0 /\ Clean(st.meta) /\ p.writes = <<>>
        /\ IsFiniteSet(st.chunks) /\ Whole(st) /\ st.meta.chunks <= st.meta.count
        /\ Small(st.meta, f) /\ Small(x.header, f) /\ ss <= MaxSessions /\ f <= MaxFaults
        /\ x.stage # "none" => x.header.session < p.meta.session
    BY DEF Recordable
  <1>2. p.life # <<>> /\ Tail(p.life) = <<>>
    BY <1>1, LifeTails
  <1>3. /\ r \in Pages /\ r.active /\ r.meta = st.meta /\ r.batch = 0
        /\ r.writes = <<>> /\ r.failed = <<>> /\ r.flag /\ r.busy = "no" /\ r.life = <<>>
    <2> HIDE DEF r
    <2>1. /\ r \in Pages /\ r.active = TRUE /\ r.meta = p.meta /\ r.batch = 0
          /\ r.writes = p.writes /\ r.failed = <<>> /\ r.flag = TRUE /\ r.busy = "no" /\ r.life = Tail(p.life)
      BY <1>1, <1>2, BegunFields DEF r
    <2> QED BY <1>1, <1>2, <2>1
  <1> HIDE DEF r
  <1>4. st.meta.count \in Nat /\ st.meta.chunks \in Nat /\ st.meta.session \in Nat /\ x.header.session \in Nat
    BY <1>1 DEF Stores, Exports, Described
  <1>5. ~Loads(r) /\ "start" \notin Range(r.life) /\ r.life # <<"stop">>
    BY <1>3, LifeTails DEF Loads, Range
  <1>6. DOMAIN r.writes = {} /\ DOMAIN r.failed = {} /\ Len(r.writes) = 0
    BY <1>3
  <1>7. Bounded(r, st, x, ss, f)
    <2>1. r.batch <= MaxSamples + f
      BY <1>1, <1>3
    <2> QED BY <1>1, <1>3, <1>5, <1>6, <2>1 DEF Bounded
  <1>8. Counted(r, st)
    BY <1>1, <1>3, <1>4, <1>6 DEF Counted
  <1>9. Settling(r, st, ss)
    BY <1>3, <1>5, <1>6 DEF Settling
  <1>10. Attended(r)
    BY <1>3 DEF Attended
  <1>11. Resumable(r, st)
    BY <1>1, <1>3, <1>6 DEF Resumable
  <1>12. Consecutive(r, st)
    <2>1. Last(r, st) = st.meta.count
      BY <1>6 DEF Last, Before
    <2> QED BY <1>3, <1>4, <1>6, <2>1 DEF Consecutive
  <1>13. Delivers(r, st, x)
    <2>1. x.header.session = r.meta.session => x.stage = "none"
      BY <1>1, <1>3, <1>4
    <2> QED BY <1>3, <2>1 DEF Delivers
  <1>14. Kept(r, st)
    <2>1. Mine(st, r.meta) = st.chunks
      BY <1>1, <1>3, WholeMine
    <2>2. Amount(st.chunks) = st.meta.count
      BY <1>1 DEF Whole
    <2>3. Held(r.writes, Own(r.meta.session)) = 0 /\ Held(r.failed, Own(r.meta.session)) = 0
      BY <1>3, HeldEmpty
    <2> QED BY <1>3, <1>4, <2>1, <2>2, <2>3 DEF Kept
  <1> QED BY <1>1, <1>7, <1>8, <1>9, <1>10, <1>11, <1>12, <1>13, <1>14 DEF Sound, Nearly, r

LEMMA ActivatedSound ==
  ASSUME NEW p, NEW st, NEW x, NEW ss, NEW f, Recordable(p, st, x, ss, f)
  PROVE  Sound(Activated(p), st, x, ss, f)
  <1> DEFINE b == Begun(p)
             s == Sampled(b)
  <1>1. Orderly(b, st, x, ss) /\ Sound(b, st, x, ss, f)
    BY BegunOrderly, BegunSound DEF Recordable
  <1>2. b \in Pages /\ b.active = TRUE /\ b.busy = "no" /\ b.life = <<>> /\ b.meta = p.meta
        /\ b.writes = p.writes /\ b.failed = <<>>
    <2>1. p.life # <<>> /\ Tail(p.life) = <<>> /\ p \in Pages
      BY LifeTails DEF Recordable
    <2> HIDE DEF b
    <2> QED BY <2>1, BegunFields DEF b
  <1>3. p.writes = <<>> /\ p.meta = st.meta /\ p.meta.session # 0 /\ st.meta.count + 1 <= MaxSamples + f
        /\ f \in Nat /\ st.meta.count \in Nat
    BY DEF Recordable, Stores, Described
  <1> HIDE DEF b
  <1>4. Orderly(s, st, x, ss)
    BY <1>1, SampledOrderly
  <1>5. Sound(s, st, x, ss, f)
    <2>1. b.meta.count < MaxSamples + f /\ b.life = <<>>
      BY <1>2, <1>3
    <2> QED BY <1>1, <2>1, SampledSound
  <1>6. s.busy = "no" /\ s.life = <<>> /\ s.active = TRUE /\ s.meta.session = p.meta.session /\ s.writes = <<>>
    BY <1>2, <1>3, SampledFields
  <1> HIDE DEF s
  <1>7. Flushable(s, st)
    <2>1. s.meta.chunks + s.batch <= s.meta.count
      BY <1>5, <1>6 DEF Sound, Nearly, Counted
    <2>2. "start" \notin Range(s.life) /\ Len(s.writes) = 0
      BY <1>6 DEF Range
    <2> QED BY <1>3, <1>6, <2>1, <2>2 DEF Flushable
  <1>8. Sound(Flushed(s), st, x, ss, f)
    BY <1>4, <1>5, <1>6, <1>7, FlushedSound DEF Sound
  <1>9. Activated(p) = Flushed(s)
    BY ActivatedBegun DEF s, b
  <1> QED BY <1>8, <1>9

LEMMA FreshSound ==
  ASSUME NEW p, NEW st, NEW x, NEW f, Orderly(p, st, x, sessions), Sound(p, st, x, sessions, f),
         ~p.active, p.life = <<"start">>, p.busy = "no", p.writes = <<>>
  PROVE  Sound(Fresh(p), st, x, sessions + 1, f)
  <1> DEFINE r == Fresh(p)
  <1>1. /\ p \in Pages /\ st \in Stores /\ x \in Exports /\ sessions \in Nat
        /\ Numbered(p, st, x, sessions) /\ p.batch \in Nat
    BY Typed DEF Orderly
  <1>2. /\ r \in Pages /\ ~r.active /\ r.batch = p.batch /\ r.writes = p.writes /\ r.failed = p.failed
        /\ r.life = p.life /\ r.flag = p.flag /\ r.busy = "clear"
        /\ r.meta = [NoMeta EXCEPT !.session = sessions + 1]
        /\ r.meta.session = sessions + 1
    BY <1>1, FreshFields
  <1> HIDE DEF r
  <1>3. r.meta.count = 0 /\ r.meta.chunks = 0 /\ Clean(r.meta)
    BY <1>2 DEF NoMeta, Clean
  <1>4. /\ f \in Nat /\ IsFiniteSet(st.chunks) /\ Bounded(p, st, x, sessions, f) /\ Counted(p, st)
        /\ Settling(p, st, sessions) /\ Resumable(p, st) /\ Consecutive(p, st)
        /\ Whole(st) /\ Attended(p)
    BY DEF Sound, Nearly
  <1>5. "start" \in Range(p.life) /\ ~Loads(p) /\ ~Loads(r) /\ r.life # <<"stop">>
    <2>1. <<"start">>[1] = "start" /\ 1 \in DOMAIN <<"start">> /\ <<"start">> # <<"stop">>
      OBVIOUS
    <2> QED BY <1>2, <2>1, LifeTails DEF Loads, Range
  <1>6. sessions < MaxSessions
    BY <1>4, <1>5 DEF Bounded
  <1>7. DOMAIN r.writes = {} /\ Len(r.writes) = 0 /\ r.writes = <<>>
    BY <1>2
  <1>8. st.meta.session \in Nat /\ x.header.session \in Nat
        /\ st.meta.session <= sessions /\ x.header.session <= sessions
    BY <1>1, Typed DEF Numbered
  <1>9. Bounded(r, st, x, sessions + 1, f)
    <2>1. Small(r.meta, f) /\ sessions + 1 <= MaxSessions
      BY <1>1, <1>2, <1>3, <1>4, <1>6 DEF Small
    <2> QED BY <1>2, <1>4, <1>5, <1>7, <2>1 DEF Bounded
  <1>10. Counted(r, st)
    BY <1>2, <1>3, <1>4, <1>7 DEF Counted
  <1>11. Settling(r, st, sessions + 1)
    <2>1. sessions + 1 > st.meta.session
      BY <1>1, <1>8
    <2> QED BY <1>2, <1>3, <1>7, <2>1 DEF Settling
  <1>12. Attended(r)
    BY <1>2, <1>4 DEF Attended
  <1>13. Resumable(r, st)
    BY <1>2, <1>4, <1>5 DEF Resumable
  <1>14. Consecutive(r, st)
    <2>1. \A i \in DOMAIN r.failed : r.failed[i].meta.session # r.meta.session
      BY <1>1, <1>2 DEF Numbered
    <2>2. r.meta.session # st.meta.session
      BY <1>1, <1>2, <1>8
    <2> QED BY <1>7, <2>1, <2>2 DEF Consecutive
  <1>15. Delivers(r, st, x)
    <2>1. x.header.session < r.meta.session
      BY <1>1, <1>2, <1>8
    <2>2. x.header.session # r.meta.session
      BY <1>1, <1>2, <1>8
    <2> QED BY <2>1, <2>2 DEF Delivers
  <1>16. Kept(r, st)
    <2>1. Amount(Mine(st, r.meta)) \in Nat
      BY <1>1, <1>4, AmountsTyped
    <2>2. Held(r.writes, Own(r.meta.session)) \in Nat /\ Held(r.failed, Own(r.meta.session)) \in Nat
      BY <1>2, HeldNatural DEF Pages
    <2> QED BY <1>1, <1>2, <1>3, <2>1, <2>2 DEF Kept
  <1> QED BY <1>4, <1>9, <1>10, <1>11, <1>12, <1>13, <1>14, <1>15, <1>16 DEF Sound, Nearly, r

LEMMA ReadingSound ==
  ASSUME NEW p, NEW st, NEW x, NEW ss, NEW f, NEW why \in {"resume", "view"},
         Orderly(p, st, x, ss), Sound(p, st, x, ss, f), p.busy = "no", p.life = <<"load">>,
         why = "resume" => p.flag, why = "view" => ~p.flag
  PROVE  Sound(Reading(p, why), st, x, ss, f)
  <1> DEFINE r == Reading(p, why)
  <1>1. p \in Pages
    BY DEF Orderly
  <1>2. /\ r.active = p.active /\ r.meta = p.meta /\ r.batch = p.batch
        /\ r.writes = p.writes /\ r.failed = p.failed /\ r.life = p.life
        /\ r.flag = p.flag /\ r.busy = why
    BY <1>1, ReadingFields
  <1> HIDE DEF r
  <1>3. /\ f \in Nat /\ IsFiniteSet(st.chunks) /\ Bounded(p, st, x, ss, f)
        /\ Settling(p, st, ss) /\ Resumable(p, st) /\ Whole(st) /\ Attended(p)
    BY DEF Sound, Nearly
  <1>4. Counted(r, st) /\ Consecutive(r, st) /\ Kept(r, st) /\ Delivers(r, st, x)
    BY <1>2, DataSame DEF Sound
  <1>5. Loads(r) /\ Loads(p) /\ "start" \notin Range(p.life) /\ p.life # <<"stop">>
    <2>1. DOMAIN <<"load">> = {1} /\ <<"load">>[1] = "load" /\ <<"load">> # <<"stop">>
      OBVIOUS
    <2> QED BY <1>2, <2>1, LifeTails DEF Loads, Range
  <1>6. Bounded(r, st, x, ss, f)
    BY <1>2, <1>3, <1>5 DEF Bounded
  <1>7. Settling(r, st, ss)
    BY <1>2, <1>3 DEF Settling
  <1>8. Attended(r)
    BY <1>2, <1>3 DEF Attended
  <1>9. Resumable(r, st)
    BY <1>2, <1>3, <1>5 DEF Resumable
  <1> QED BY <1>3, <1>4, <1>6, <1>7, <1>8, <1>9 DEF Sound, Nearly, r

\* A stop of a session that is recorded: its last sample is taken.
LEMMA LeavingSound ==
  ASSUME NEW p, NEW st, NEW x, NEW ss, NEW f, Orderly(p, st, x, ss), Sound(p, st, x, ss, f),
         p.busy = "no", p.life = <<"stop">>
  PROVE  LET q == [p EXCEPT !.life = <<>>]
         IN /\ Orderly(q, st, x, ss) /\ Sound(q, st, x, ss, f) /\ q.active /\ q.busy = "no" /\ q.life = <<>>
            /\ q.meta = p.meta /\ q.batch = p.batch /\ q.writes = p.writes /\ q.failed = p.failed
  <1> DEFINE q == [p EXCEPT !.life = <<>>]
  <1>1. p \in Pages /\ Matched(p, x) /\ Lined(p) /\ Untouched(p, x) /\ Numbered(p, st, x, ss) /\ Visible(p)
    BY DEF Orderly
  <1>2. p.active
    BY <1>1, LifeTails DEF Lined
  <1>3. /\ q \in Pages
        /\ q.open = p.open /\ q.active = p.active /\ q.meta = p.meta /\ q.batch = p.batch
        /\ q.writes = p.writes /\ q.failed = p.failed /\ q.db = p.db
        /\ q.flag = p.flag /\ q.saved = p.saved /\ q.busy = "no" /\ q.life = <<>>
    <2> DEFINE none == <<>>
    <2>1. none \in Seq({"load", "start", "stop"}) /\ q = [p EXCEPT !.life = none]
      OBVIOUS
    <2> HIDE DEF none
    <2>2. [p EXCEPT !.life = none] \in Pages
      BY <1>1, <2>1 DEF Pages
    <2> QED BY <1>1, <2>1, <2>2 DEF Pages
  <1> HIDE DEF q
  <1>4. ~Loads(q) /\ "start" \notin Range(q.life) /\ q.life # <<"stop">>
    BY <1>3, LifeTails DEF Loads, Range
  <1>5. Orderly(q, st, x, ss)
    <2>1. Matched(q, x)
      BY <1>1, <1>3 DEF Matched, Awaited
    <2>2. Lined(q)
      BY <1>3 DEF Lined
    <2>3. p.open
      BY <1>1, LifeTails DEF Untouched
    <2>4. Untouched(q, x)
      BY <1>3, <1>4, <2>3 DEF Untouched
    <2>5. Numbered(q, st, x, ss)
      BY <1>1, <1>3 DEF Numbered
    <2>6. Visible(q)
      BY <1>1, <1>3 DEF Visible
    <2> QED BY <1>3, <2>1, <2>2, <2>4, <2>5, <2>6 DEF Orderly
  <1>6. /\ f \in Nat /\ IsFiniteSet(st.chunks) /\ Bounded(p, st, x, ss, f)
        /\ Settling(p, st, ss) /\ Resumable(p, st) /\ Whole(st) /\ Attended(p)
    BY DEF Sound, Nearly
  <1>7. Counted(q, st) /\ Consecutive(q, st) /\ Kept(q, st) /\ Delivers(q, st, x)
    BY <1>3, DataSame DEF Sound
  <1>8. Bounded(q, st, x, ss, f)
    BY <1>3, <1>4, <1>6 DEF Bounded
  <1>9. Settling(q, st, ss)
    BY <1>3, <1>4, <1>6 DEF Settling
  <1>10. Attended(q)
    BY <1>3, <1>6 DEF Attended
  <1>11. Resumable(q, st)
    BY <1>2, <1>3, <1>6 DEF Resumable
  <1> QED BY <1>2, <1>3, <1>5, <1>6, <1>7, <1>8, <1>9, <1>10, <1>11 DEF Sound, Nearly, q

LEMMA HaltedSound ==
  ASSUME NEW p, NEW st, NEW x, NEW ss, NEW f, Orderly(p, st, x, ss), Sound(p, st, x, ss, f),
         p.busy = "no", p.life = <<"stop">>
  PROVE  Sound(Flushed(Halted(p)), st, x, ss, f)
  <1> DEFINE q == [p EXCEPT !.life = <<>>]
             s == Sampled(q)
             r == Halted(p)
             t == Sampled(p)
  <1>1. /\ Orderly(q, st, x, ss) /\ Sound(q, st, x, ss, f) /\ q.active /\ q.busy = "no" /\ q.life = <<>>
        /\ q.meta = p.meta /\ q.batch = p.batch /\ q.writes = p.writes /\ q.failed = p.failed
    BY LeavingSound
  <1> HIDE DEF q
  <1>2. p \in Pages /\ q \in Pages /\ p.active /\ f \in Nat /\ p.meta.count \in Nat
    BY <1>1, Typed, LifeTails DEF Orderly, Lined, Sound, Nearly
  <1>3. Orderly(s, st, x, ss) /\ Sound(s, st, x, ss, f)
    <2>1. p.meta.count < MaxSamples
      BY DEF Sound, Nearly, Bounded
    <2>2. q.meta.count < MaxSamples + f
      BY <1>1, <1>2, <2>1
    <2> QED BY <1>1, <2>2, SampledOrderly, SampledSound
  <1>4. /\ s.active = q.active /\ s.writes = q.writes /\ s.failed = q.failed /\ s.busy = q.busy
        /\ s.meta.session = q.meta.session /\ s.meta.chunks = q.meta.chunks
        /\ s.batch = q.batch + (IF q.active THEN 1 ELSE 0)
        /\ s.meta.count = q.meta.count + (IF q.active THEN 1 ELSE 0)
    BY <1>2, SampledFields
  <1>5. /\ t.batch = p.batch + (IF p.active THEN 1 ELSE 0)
        /\ t.meta.count = p.meta.count + (IF p.active THEN 1 ELSE 0)
    BY <1>2, SampledFields
  <1>6. /\ r \in Pages /\ r.active = FALSE /\ r.writes = p.writes
        /\ r.failed = p.failed /\ r.life = p.life /\ r.busy = "flush" /\ r.flag = FALSE
        /\ r.meta.session = p.meta.session /\ r.meta.chunks = p.meta.chunks
        /\ r.batch = t.batch /\ r.meta.count = t.meta.count
    BY <1>2, HaltedFields
  <1> HIDE DEF s, r, t
  <1>7. /\ r.meta.session = s.meta.session /\ r.meta.count = s.meta.count /\ r.meta.chunks = s.meta.chunks
        /\ r.batch = s.batch /\ r.writes = s.writes /\ r.failed = s.failed
    BY <1>1, <1>2, <1>4, <1>5, <1>6
  <1>8. /\ f \in Nat /\ IsFiniteSet(st.chunks) /\ Bounded(s, st, x, ss, f) /\ Counted(s, st)
        /\ Settling(s, st, ss) /\ Resumable(s, st) /\ Whole(st) /\ Nearly(s, st, x, ss, f)
    BY <1>3 DEF Sound, Nearly
  <1>9. Counted(r, st) /\ Consecutive(r, st) /\ Kept(r, st) /\ Delivers(r, st, x)
    <2>1. r.active => s.active
      BY <1>6
    <2>2. r.busy # "clear"
      BY <1>6
    <2> QED BY <1>7, <1>8, <2>1, <2>2, DataSame
  <1>10. ~Loads(r) /\ "start" \notin Range(r.life)
    <2>1. DOMAIN <<"stop">> = {1} /\ <<"stop">>[1] = "stop"
      OBVIOUS
    <2> QED BY <1>6, <2>1, LifeTails DEF Loads, Range
  <1>11. Bounded(r, st, x, ss, f)
    <2>1. Small(r.meta, f)
      BY <1>7, <1>8 DEF Bounded, Small
    <2> QED BY <1>6, <1>7, <1>8, <1>10, <2>1 DEF Bounded
  <1>12. Settling(r, st, ss)
    BY <1>6, <1>7, <1>8, <1>10 DEF Settling
  <1>13. Resumable(r, st)
    BY <1>6 DEF Resumable
  <1>14. Nearly(r, st, x, ss, f)
    BY <1>8, <1>9, <1>11, <1>12, <1>13 DEF Nearly
  <1>15. Flushable(r, st)
    <2>1. s.meta.session = st.meta.session /\ s.meta.session # 0
      BY <1>1, <1>3, <1>4, <1>8, ActiveStored
    <2>2. s.meta.chunks + s.batch <= s.meta.count /\ Len(s.writes) < Backlog
      BY <1>1, <1>4, <1>8 DEF Counted, Settling
    <2> QED BY <1>7, <1>10, <2>1, <2>2 DEF Flushable
  <1>16. Orderly(r, st, x, ss) /\ r.busy # "clear"
    BY <1>6, HaltedOrderly DEF r
  <1> QED BY <1>14, <1>15, <1>16, FlushedSound DEF r

-----------------------------------------------------------------------------
(* The steps of the timer, of the user and of the queue of operations *)

SoundInv == Sound(page, store, export, sessions, faults)

LEMMA ActiveFlushable ==
  ASSUME NEW p, NEW st, NEW x, NEW ss, NEW f, Orderly(p, st, x, ss), Sound(p, st, x, ss, f),
         p.active, p.life = <<>>
  PROVE  Flushable(p, st)
  <1>1. p.meta.session = st.meta.session /\ p.meta.session # 0
    BY ActiveStored DEF Sound
  <1>2. p.meta.chunks + p.batch <= p.meta.count /\ Len(p.writes) < Backlog
    BY DEF Sound, Nearly, Counted, Settling
  <1>3. "start" \notin Range(p.life)
    BY DEF Range
  <1> QED BY <1>1, <1>2, <1>3 DEF Flushable

LEMMA InitSound == Init => SoundInv
  <1> SUFFICES ASSUME Init PROVE Sound(page, store, export, sessions, faults)
    BY DEF SoundInv
  <1>1. /\ page = Loaded(FALSE, FALSE) /\ store = [meta |-> NoMeta, chunks |-> {}]
        /\ export = NoExport /\ sessions = 0 /\ faults = 0
    BY DEF Init
  <1>2. /\ ~page.active /\ ~page.flag /\ page.meta = NoMeta /\ page.batch = 0 /\ page.writes = <<>>
        /\ page.failed = <<>> /\ page.busy = "no" /\ page.life = <<"load">>
        /\ store.meta = NoMeta /\ store.chunks = {} /\ export.stage = "none" /\ export.header = NoMeta
    BY <1>1 DEF Loaded, NoExport
  <1>3. /\ NoMeta.session = 0 /\ NoMeta.count = 0 /\ NoMeta.chunks = 0
    BY DEF NoMeta
  <1>4. MaxFaults \in Nat /\ MaxSessions \in Nat /\ MaxSamples \in Nat /\ MaxSamples >= 1 /\ Backlog \in Nat
    OBVIOUS
  <1>5. DOMAIN page.writes = {} /\ DOMAIN page.failed = {} /\ Len(page.writes) = 0
        /\ "start" \notin Range(page.life) /\ page.life # <<"stop">>
    <2>1. DOMAIN <<"load">> = {1} /\ <<"load">>[1] = "load"
      OBVIOUS
    <2> QED BY <1>2, <2>1 DEF Range
  <1>6. Bounded(page, store, export, sessions, faults)
    <2>1. faults = 0 /\ sessions = 0 /\ page.batch = 0
      BY <1>1, <1>2
    <2>2. /\ 0 <= MaxSessions /\ 0 <= MaxFaults /\ MaxSamples + faults = MaxSamples
          /\ 0 <= MaxSamples /\ 0 + 1 <= MaxSamples
      BY ONLY <1>4, <2>1
    <2>3. Small(NoMeta, faults) /\ page.batch <= MaxSamples + faults
          /\ sessions <= MaxSessions /\ faults <= MaxFaults
      BY ONLY <1>3, <2>1, <2>2 DEF Small
    <2>4. store.meta.count + 1 <= MaxSamples + faults
      BY <1>2, <1>3, <2>2
    <2> QED BY <1>2, <1>5, <2>3, <2>4 DEF Bounded
  <1>7. Counted(page, store)
    BY <1>2, <1>3, <1>5 DEF Counted
  <1>8. Settling(page, store, sessions)
    BY <1>2, <1>3, <1>4, <1>5 DEF Settling
  <1>9. Attended(page)
    BY <1>2 DEF Attended
  <1>10. Resumable(page, store)
    BY <1>2 DEF Resumable
  <1>11. Consecutive(page, store)
    BY <1>2, <1>3, <1>5 DEF Consecutive
  <1>12. Delivers(page, store, export)
    BY <1>2 DEF Delivers
  <1>13. Amount({}) = 0 /\ IsFiniteSet({})
    BY AmountEmpty, FS_EmptySet
  <1>14. Whole(store) /\ IsFiniteSet(store.chunks)
    <2>1. {k.sequence : k \in {}} = 1..0
      OBVIOUS
    <2> QED BY <1>2, <1>3, <1>13, <2>1 DEF Whole
  <1>15. Kept(page, store)
    <2>1. Mine(store, page.meta) = {}
      BY <1>2 DEF Mine
    <2>2. Held(page.writes, Own(page.meta.session)) = 0 /\ Held(page.failed, Own(page.meta.session)) = 0
      BY <1>2, HeldEmpty
    <2> QED BY <1>2, <1>3, <1>13, <2>1, <2>2 DEF Kept
  <1> QED BY <1>1, <1>6, <1>7, <1>8, <1>9, <1>10, <1>11, <1>12, <1>14, <1>15 DEF Sound, Nearly

LEMMA SecondSound == ASSUME OrderlyInv, SoundInv, Second PROVE SoundInv'
  <1>1. /\ Orderly(page, store, export, sessions) /\ Sound(page, store, export, sessions, faults)
        /\ page.active /\ ~Queued /\ page.meta.count < MaxSamples
        /\ UNCHANGED <<store, export, sessions, faults>>
    BY DEF OrderlyInv, SoundInv, Second, Task, Room
  <1>2. page.busy = "no" /\ page.life = <<>> /\ page \in Pages
    BY <1>1, ActiveIdle DEF Queued, Orderly
  <1>3. Orderly(Sampled(page), store, export, sessions)
    BY <1>1, SampledOrderly
  <1>4. Sound(Sampled(page), store, export, sessions, faults)
    <2>1. page.meta.count \in Nat /\ faults \in Nat
      BY <1>1, Typed DEF Sound, Nearly
    <2>2. page.meta.count < MaxSamples + faults
      BY <1>1, <2>1
    <2> QED BY <1>1, <1>2, <2>2, SampledSound
  <1>5. Sound(Flushed(Sampled(page)), store, export, sessions, faults)
    <2> DEFINE s == Sampled(page)
    <2>1. s.busy = "no" /\ s.life = <<>> /\ s.active
      BY <1>1, <1>2, SampledFields
    <2> HIDE DEF s
    <2>2. Flushable(s, store)
      BY <1>3, <1>4, <2>1, ActiveFlushable DEF s
    <2>3. Orderly(s, store, export, sessions) /\ Nearly(s, store, export, sessions, faults)
      BY <1>3, <1>4 DEF s, Sound
    <2> QED BY <2>1, <2>2, <2>3, FlushedSound DEF s
  <1>6. page' = Sampled(page) \/ page' = Flushed(Sampled(page))
    BY DEF Second, Task, Goes
  <1> QED BY <1>1, <1>4, <1>5, <1>6 DEF SoundInv

LEMMA FaultMore ==
  ASSUME OrderlyInv, SoundInv, Fault
  PROVE  Sound(page, store, export, sessions, faults')
  <1>1. faults \in Nat /\ faults < MaxFaults /\ faults' = faults + 1
    BY DEF SoundInv, Sound, Nearly, Fault
  <1>2. faults + 1 <= MaxFaults
    BY <1>1
  <1>3. Sound(page, store, export, sessions, faults + 1)
    BY <1>2, SoundMore DEF OrderlyInv, SoundInv
  <1> QED BY <1>1, <1>3

LEMMA EventStormSound == ASSUME OrderlyInv, SoundInv, EventStorm PROVE SoundInv'
  <1>1. /\ Orderly(page, store, export, sessions) /\ Fault
        /\ page.active /\ ~Queued
        /\ UNCHANGED <<store, export, sessions>> /\ page' = Failed(Flushed(page))
    BY DEF OrderlyInv, EventStorm, Task, Goes
  <1>2. page.busy = "no" /\ page.life = <<>> /\ page \in Pages
    BY <1>1, ActiveIdle DEF Queued, Orderly
  <1> DEFINE g == faults'
             r == Flushed(page)
  <1>3. Sound(page, store, export, sessions, g)
    BY <1>1, FaultMore
  <1> HIDE DEF g
  <1>4. Orderly(r, store, export, sessions)
    BY <1>1, <1>2, FlushedOrderly
  <1>5. Sound(r, store, export, sessions, g)
    <2>1. Flushable(page, store)
      BY <1>1, <1>2, <1>3, ActiveFlushable
    <2> QED BY <1>1, <1>2, <1>3, <2>1, FlushedSound DEF Sound
  <1>6. r.life = <<>> /\ r.batch = 0
    BY <1>2, FlushedFields, FlushedEmpty
  <1> HIDE DEF r
  <1>7. Sound(Failed(r), store, export, sessions, g)
    BY <1>4, <1>5, <1>6, FailedSound
  <1> QED BY <1>1, <1>7 DEF SoundInv, r, g

LEMMA ReloadSound == ASSUME OrderlyInv, SoundInv, Reload PROVE SoundInv'
  <1> DEFINE g == faults'
  <1>1. /\ Orderly(page, store, export, sessions) /\ export' = NoExport /\ Fault
        /\ page' = [Loaded(page.flag, page.saved) EXCEPT !.open = FALSE]
        /\ UNCHANGED <<store, sessions>>
    BY DEF OrderlyInv, Reload, Task, Goes
  <1>2. Sound(page, store, export, sessions, g)
    BY <1>1, FaultMore
  <1>3. /\ page'.active = FALSE /\ page'.meta = NoMeta /\ page'.batch = 0
        /\ page'.writes = <<>> /\ page'.failed = <<>> /\ page'.life = <<"load">> /\ page'.busy = "no"
        /\ page'.flag = page.flag
    BY <1>1 DEF Loaded
  <1>4. /\ NoMeta.session = 0 /\ NoMeta.count = 0 /\ NoMeta.chunks = 0
        /\ export'.stage = "none" /\ export'.header = NoMeta
    BY <1>1 DEF NoMeta, NoExport
  <1>5. /\ g \in Nat /\ IsFiniteSet(store.chunks) /\ Bounded(page, store, export, sessions, g)
        /\ Counted(page, store) /\ Resumable(page, store) /\ Whole(store) /\ store \in Stores
        /\ faults \in Nat /\ g = faults + 1 /\ Small(store.meta, faults) /\ store.meta.count \in Nat
    <2>1. faults \in Nat /\ g = faults + 1 /\ Small(store.meta, faults)
      BY <1>1 DEF SoundInv, Sound, Nearly, Fault, Bounded
    <2> QED BY <1>1, <1>2, <2>1, Typed DEF Sound, Nearly
  <1>6. DOMAIN page'.writes = {} /\ DOMAIN page'.failed = {} /\ Len(page'.writes) = 0
        /\ "start" \notin Range(page'.life) /\ page'.life # <<"stop">> /\ Loads(page')
    <2>1. DOMAIN <<"load">> = {1} /\ <<"load">>[1] = "load"
      OBVIOUS
    <2> QED BY <1>3, <2>1, LifeTails DEF Range, Loads
  <1> HIDE DEF g
  <1>7. Bounded(page', store, export', sessions, g)
    <2>1. Small(NoMeta, g) /\ page'.batch <= MaxSamples + g
      BY <1>3, <1>4, <1>5 DEF Small
    <2>2. store.meta.count + 1 <= MaxSamples + g
      BY <1>5 DEF Small
    <2> QED BY <1>3, <1>4, <1>5, <1>6, <2>1, <2>2 DEF Bounded
  <1>8. Counted(page', store)
    BY <1>3, <1>4, <1>5, <1>6 DEF Counted
  <1>9. Settling(page', store, sessions)
    BY <1>3, <1>4, <1>6 DEF Settling
  <1>10. Attended(page')
    BY <1>3 DEF Attended
  <1>11. Resumable(page', store)
    BY <1>3, <1>5, <1>6 DEF Resumable
  <1>12. Consecutive(page', store)
    BY <1>3, <1>4, <1>6 DEF Consecutive
  <1>13. Delivers(page', store, export')
    BY <1>3, <1>4 DEF Delivers
  <1>14. Kept(page', store)
    <2>1. Amount(Mine(store, page'.meta)) \in Nat
      BY <1>5, AmountsTyped
    <2>2. Held(page'.writes, Own(page'.meta.session)) = 0 /\ Held(page'.failed, Own(page'.meta.session)) = 0
      BY <1>3, HeldEmpty
    <2> QED BY <1>3, <1>4, <2>1, <2>2 DEF Kept
  <1>15. Sound(page', store, export', sessions, g)
    BY <1>5, <1>7, <1>8, <1>9, <1>10, <1>11, <1>12, <1>13, <1>14 DEF Sound, Nearly
  <1> QED BY <1>1, <1>15 DEF SoundInv, g

LEMMA OpenSound == ASSUME OrderlyInv, SoundInv, Open PROVE SoundInv'
  <1>1. /\ page \in Pages /\ page' = [page EXCEPT !.open = TRUE] /\ UNCHANGED <<store, export, sessions, faults>>
    BY DEF OrderlyInv, Orderly, Open, Task, Goes
  <1>2. /\ page'.active = page.active /\ page'.flag = page.flag /\ page'.meta = page.meta
        /\ page'.batch = page.batch /\ page'.writes = page.writes /\ page'.failed = page.failed
        /\ page'.life = page.life /\ page'.busy = page.busy
    BY <1>1 DEF Pages
  <1>3. Sound(page', store, export, sessions, faults)
    BY <1>2, NearlySame DEF SoundInv, Sound
  <1> QED BY <1>1, <1>3 DEF SoundInv

LEMMA LoadSound == ASSUME OrderlyInv, SoundInv, Load PROVE SoundInv'
  <1>1. /\ Orderly(page, store, export, sessions) /\ Sound(page, store, export, sessions, faults)
        /\ page.busy = "no" /\ page.life # <<>> /\ Head(page.life) = "load"
        /\ UNCHANGED <<store, export, sessions, faults>>
    BY DEF OrderlyInv, SoundInv, Load, Ready, Queued
  <1>2. page.life = <<"load">> /\ ~page.active
    BY <1>1, LifeTails DEF Orderly, Lined
  <1>3. page.flag => Sound(Reading(page, "resume"), store, export, sessions, faults)
    BY <1>1, <1>2, ReadingSound
  <1>4. ~page.flag => Sound(Reading(page, "view"), store, export, sessions, faults)
    BY <1>1, <1>2, ReadingSound
  <1>5. ~page.flag => Sound(Over(page), store, export, sessions, faults)
    BY <1>1, <1>2, OverSound
  <1>6. \/ page.flag /\ page' = Reading(page, "resume")
        \/ ~page.flag /\ page' = Reading(page, "view")
        \/ ~page.flag /\ page' = Over(page)
    BY DEF Load, Goes
  <1> QED BY <1>1, <1>3, <1>4, <1>5, <1>6 DEF SoundInv

\* start() while no chunk of the session before is on its way.
LEMMA StartSound == ASSUME OrderlyInv, SoundInv, Start, ~early' PROVE SoundInv'
  <1>1. /\ Orderly(page, store, export, sessions) /\ Sound(page, store, export, sessions, faults)
        /\ page.busy = "no" /\ page.life # <<>> /\ Head(page.life) = "start"
        /\ UNCHANGED <<store, export>>
    BY DEF OrderlyInv, SoundInv, Start, Ready, Queued
  <1>2. page.life = <<"start">> /\ ~page.active
    BY <1>1, LifeTails DEF Orderly, Lined
  <1>3. page.writes = <<>> => Sound(Fresh(page), store, export, sessions + 1, faults)
    BY <1>1, <1>2, FreshSound
  <1>4. Fault => Sound(Rejected(page), store, export, sessions, faults')
    <2> SUFFICES ASSUME Fault PROVE Sound(Rejected(page), store, export, sessions, faults')
      OBVIOUS
    <2> DEFINE g == faults'
    <2>1. Sound(page, store, export, sessions, g)
      BY FaultMore
    <2> HIDE DEF g
    <2>2. Sound(Rejected(page), store, export, sessions, g)
      BY <1>1, <1>2, <2>1, RejectedSound
    <2> QED BY <2>2 DEF g
  <1>5. \/ page' = Fresh(page) /\ page.writes = <<>> /\ sessions' = sessions + 1 /\ faults' = faults
        \/ page' = Rejected(page) /\ sessions' = sessions /\ Fault
    BY <1>2 DEF Start, Goes
  <1> QED BY <1>1, <1>3, <1>4, <1>5 DEF SoundInv

LEMMA StopSound == ASSUME OrderlyInv, SoundInv, Stop PROVE SoundInv'
  <1>1. /\ Orderly(page, store, export, sessions) /\ Sound(page, store, export, sessions, faults)
        /\ page.busy = "no" /\ page.life # <<>> /\ Head(page.life) = "stop"
        /\ UNCHANGED <<store, export, sessions, faults>>
    BY DEF OrderlyInv, SoundInv, Stop, Ready, Queued
  <1>2. page.life = <<"stop">> /\ page.active
    BY <1>1, LifeTails DEF Orderly, Lined
  <1>3. Sound(Flushed(Halted(page)), store, export, sessions, faults)
    BY <1>1, <1>2, HaltedSound
  <1>4. page' = Flushed(Halted(page))
    BY <1>2 DEF Stop, Goes, Stopping, Halted
  <1> QED BY <1>1, <1>3, <1>4 DEF SoundInv

LEMMA StoppedSound == ASSUME OrderlyInv, SoundInv, Stopped PROVE SoundInv'
  <1>1. /\ Orderly(page, store, export, sessions) /\ Sound(page, store, export, sessions, faults)
        /\ page.busy = "flush" /\ page' = Over(page)
        /\ UNCHANGED <<store, export, sessions, faults>>
    BY DEF OrderlyInv, SoundInv, Stopped, Task, Goes
  <1>2. ~page.active /\ page.life # <<>> /\ ~Loads(page)
    BY <1>1, LifeTails DEF Orderly, Lined, Loads
  <1>3. ~page.flag
    BY <1>1, <1>2 DEF Sound, Nearly, Resumable
  <1>4. Sound(Over(page), store, export, sessions, faults)
    BY <1>1, <1>2, <1>3, OverSound
  <1> QED BY <1>1, <1>4 DEF SoundInv

LEMMA ToggleSound == ASSUME OrderlyInv, SoundInv, Toggle PROVE SoundInv'
  <1>1. /\ Orderly(page, store, export, sessions) /\ Sound(page, store, export, sessions, faults)
        /\ page.busy \notin {"resume", "clear"} /\ ~Queued /\ page.open
        /\ UNCHANGED <<store, export, sessions, faults>>
    BY DEF OrderlyInv, SoundInv, Toggle, Task
  <1>2. PICK op \in {"start", "stop"} :
          /\ page' = [page EXCEPT !.life = Append(@, op)]
          /\ op = "start" => ~page.active /\ sessions + Len(page.life) < MaxSessions
          /\ op = "stop" => page.active /\ page.meta.count < MaxSamples
    BY DEF Toggle, Task, Goes, Room
  <1>3. page \in Pages /\ Lined(page) /\ page.life \in Seq({"load", "start", "stop"}) /\ sessions \in Nat
    BY <1>1 DEF Orderly, Pages
  <1>4. /\ page'.active = page.active /\ page'.meta = page.meta /\ page'.flag = page.flag
        /\ page'.batch = page.batch /\ page'.writes = page.writes /\ page'.failed = page.failed
        /\ page'.life = Append(page.life, op) /\ page'.busy = page.busy
    BY <1>2, <1>3 DEF Pages
  <1>5. /\ "start" \in Range(page'.life) => ("start" \in Range(page.life) \/ op = "start")
        /\ Loads(page) => Loads(page')
        /\ Loads(page') => (Loads(page) \/ page.life = <<>>)
    <2> DEFINE l == page.life
               T == {"load", "start", "stop"}
    <2>1. l \in Seq(T) /\ op \in T
      BY <1>3
    <2>2. /\ Append(l, op) # <<>>
          /\ l # <<>> => Head(Append(l, op)) = Head(l)
          /\ \A i \in DOMAIN Append(l, op) :
              (i \in DOMAIN l /\ Append(l, op)[i] = l[i]) \/ (i = Len(l) + 1 /\ Append(l, op)[i] = op)
      <3> HIDE DEF l, T
      <3> QED BY <2>1, AppendElements
    <2> QED BY <1>4, <2>2 DEF Range, Loads
  <1>6. page.life = <<>> => ~Loads(page')
    <2>1. page.life = <<>> => page'.life = <<op>>
      BY <1>4
    <2> QED BY <2>1, OneElement DEF Loads
  <1>7. /\ faults \in Nat /\ IsFiniteSet(store.chunks) /\ Bounded(page, store, export, sessions, faults)
        /\ Settling(page, store, sessions) /\ Resumable(page, store) /\ Whole(store) /\ Attended(page)
    BY <1>1 DEF Sound, Nearly
  <1>8. Counted(page', store) /\ Consecutive(page', store) /\ Kept(page', store) /\ Delivers(page', store, export)
    <2>1. page'.busy # "clear"
      BY <1>1, <1>4
    <2> QED BY <1>1, <1>4, <2>1, DataSame DEF Sound
  <1>9. Bounded(page', store, export, sessions, faults)
    <2>1. op = "start" => sessions < MaxSessions
      <3>1. Len(page.life) \in Nat
        BY <1>3
      <3> QED BY <1>2, <1>3, <3>1
    <2>2. ("start" \in Range(page'.life) /\ page'.busy # "clear") => sessions < MaxSessions
      BY <1>4, <1>5, <1>7, <2>1 DEF Bounded
    <2>3. (page'.busy = "no" /\ page'.life = <<"stop">>) => page'.meta.count < MaxSamples
      <3>1. page.busy = "no" => page.life = <<>>
        BY <1>1 DEF Queued
      <3>2. Append(<<>>, op) = <<op>>
        OBVIOUS
      <3>3. <<op>> = <<"stop">> => op = "stop"
        BY OneElement
      <3> QED BY <1>2, <1>4, <3>1, <3>2, <3>3
    <2> QED BY <1>4, <1>5, <1>6, <1>7, <2>2, <2>3 DEF Bounded
  <1>10. Settling(page', store, sessions)
    BY <1>1, <1>2, <1>4, <1>5, <1>7 DEF Settling
  <1>11. Attended(page')
    BY <1>4, <1>7 DEF Attended
  <1>12. Resumable(page', store)
    BY <1>4, <1>5, <1>7 DEF Resumable
  <1>13. Sound(page', store, export, sessions, faults)
    BY <1>7, <1>8, <1>9, <1>10, <1>11, <1>12 DEF Sound, Nearly
  <1> QED BY <1>1, <1>13 DEF SoundInv

-----------------------------------------------------------------------------
(* The transactions of the lifecycle *)

\* The page shows the session that is stored.
LEMMA ViewedSound ==
  ASSUME NEW p, NEW r, NEW st, NEW x, NEW ss, NEW f, Orderly(p, st, x, ss), Sound(p, st, x, ss, f),
         Loads(p), p.busy = "view",
         r.active = p.active, r.flag = p.flag, r.meta = st.meta, r.batch = p.batch, r.writes = p.writes,
         r.failed = p.failed, r.busy = "no", r.life = Tail(p.life)
  PROVE  Sound(r, st, x, ss, f)
  <1>1. /\ st \in Stores /\ Lined(p) /\ Untouched(p, x) /\ st.meta.count \in Nat /\ st.meta.chunks \in Nat
    BY Typed DEF Orderly
  <1>2. /\ f \in Nat /\ IsFiniteSet(st.chunks) /\ Bounded(p, st, x, ss, f) /\ Counted(p, st)
        /\ Settling(p, st, ss) /\ Resumable(p, st) /\ Whole(st)
    BY DEF Sound, Nearly
  <1>3. ~r.active /\ ~r.flag /\ r.writes = <<>> /\ r.failed = <<>> /\ r.batch = 0 /\ x = NoExport
    <2>1. ~p.active /\ ~p.flag
      BY <1>1, <1>2 DEF Lined, Resumable
    <2> QED BY <1>1, <2>1 DEF Untouched
  <1>4. /\ r.life = <<>> \/ r.life = <<"start">>
        /\ "start" \in Range(r.life) => ("start" \in Range(p.life) /\ p.busy # "clear")
    <2>1. p.life # <<>> /\ ~p.active
      BY <1>1, <1>3 DEF Loads
    <2> QED BY <1>1, <2>1, LifeEnds
  <1>5. ~Loads(r) /\ r.life # <<"stop">>
    BY <1>4, OneElement, LifeTails DEF Loads
  <1>6. DOMAIN r.writes = {} /\ DOMAIN r.failed = {} /\ Len(r.writes) = 0
    BY <1>3
  <1>7. Bounded(r, st, x, ss, f)
    BY <1>2, <1>3, <1>4, <1>5, <1>6 DEF Bounded
  <1>8. Counted(r, st)
    BY <1>1, <1>2, <1>3, <1>6 DEF Counted
  <1>9. Settling(r, st, ss)
    BY <1>3, <1>6 DEF Settling
  <1>10. Attended(r)
    BY <1>3 DEF Attended
  <1>11. Resumable(r, st)
    BY <1>3 DEF Resumable
  <1>12. Consecutive(r, st)
    <2>1. Last(r, st) = st.meta.count
      BY <1>6 DEF Last, Before
    <2> QED BY <1>1, <1>3, <1>6, <2>1 DEF Consecutive
  <1>13. Delivers(r, st, x)
    BY <1>3 DEF Delivers, NoExport
  <1>14. Kept(r, st)
    <2>1. Mine(st, r.meta) = st.chunks
      BY <1>1, <1>2, WholeMine
    <2>2. Amount(st.chunks) = st.meta.count
      BY <1>2 DEF Whole
    <2>3. Held(r.writes, Own(r.meta.session)) = 0 /\ Held(r.failed, Own(r.meta.session)) = 0
      BY <1>3, HeldEmpty
    <2> QED BY <1>1, <1>3, <2>1, <2>2, <2>3 DEF Kept
  <1> QED BY <1>2, <1>7, <1>8, <1>9, <1>10, <1>11, <1>12, <1>13, <1>14 DEF Sound, Nearly

\* A transaction of the lifecycle has settled.
LEMMA SettledSound ==
  ASSUME OrderlyInv, ~Queued, page.db # <<>>, NEW f, Sound(page, store, export, sessions, f)
  PROVE  Sound(Settled, store, export, sessions, f)
  <1> DEFINE s == Settled
  <1>1. /\ s.active = page.active /\ s.meta = page.meta
        /\ s.batch = page.batch /\ s.writes = page.writes
        /\ s.failed = page.failed /\ s.life = page.life /\ s.busy = page.busy
        /\ s.flag = page.flag
    BY DueSettled
  <1> HIDE DEF s
  <1>2. Sound(s, store, export, sessions, f)
    BY <1>1, NearlySame DEF Sound
  <1> QED BY <1>2 DEF s

LEMMA MetaReadSound == ASSUME OrderlyInv, SoundInv, MetaRead PROVE SoundInv'
  <1> DEFINE s == Settled
             m == store.meta
  <1>1. /\ Orderly(page, store, export, sessions) /\ page.db # <<>> /\ Head(page.db).kind = "read"
        /\ UNCHANGED <<store, export>> /\ ~Queued /\ Sound(page, store, export, sessions, faults)
    BY DEF OrderlyInv, SoundInv, MetaRead, Due, Task
  <1>2. page.busy \in {"resume", "view"}
    BY <1>1, TailElements DEF Orderly, Matched, Awaited, Pages
  <1>3. /\ Orderly(s, store, export, sessions) /\ page.open
        /\ \A i \in DOMAIN s.db : s.db[i].kind # "read"
        /\ s \in Pages /\ Matched(s, export)
        /\ s.open = page.open /\ s.active = page.active
        /\ s.batch = page.batch /\ s.writes = page.writes
        /\ s.failed = page.failed /\ s.life = page.life /\ s.busy = page.busy /\ s.flag = page.flag
    BY <1>1, DueSettled
  <1>4. Sound(s, store, export, sessions, faults)
    BY <1>1, SettledSound
  <1>5. Fault => Sound(s, store, export, sessions, faults')
    BY <1>1, FaultMore, SettledSound
  <1> HIDE DEF s
  <1>6. \A i \in DOMAIN s.db : s.db[i].kind # "read" /\ s.db[i].kind # "clear"
    BY <1>2, <1>3 DEF Matched, Awaited
  <1>7. /\ s.open /\ ~s.active /\ s.life # <<>>
        /\ page.busy = "view" => s.life \in {<<"load">>, <<"load", "start">>}
        /\ page.busy = "resume" => s.life = <<"load">>
    <2>1. Lined(page)
      BY <1>1 DEF Orderly
    <2> QED BY <1>2, <1>3, <2>1, LifeTails DEF Lined
  <1>8. Loads(s)
    BY <1>2, <1>7, LifeTails DEF Loads
  <1>9. s.writes = <<>> /\ export = NoExport
    BY <1>3, <1>8 DEF Orderly, Untouched
  <1>10. /\ m \in Described /\ m.session <= sessions /\ store \in Stores /\ export \in Exports
         /\ sessions \in Nat
    BY <1>1 DEF Orderly, Stores, Numbered
  <1>11. /\ faults \in Nat /\ IsFiniteSet(store.chunks) /\ Bounded(s, store, export, sessions, faults)
         /\ Counted(s, store) /\ Resumable(s, store) /\ Whole(store)
    BY <1>4 DEF Sound, Nearly
  <1>12. page.busy = "view" => ~s.flag
    BY <1>3, <1>11 DEF Resumable
  <1>13. page.busy = "resume" => (m.session # 0 /\ Clean(m))
    BY <1>3, <1>11 DEF Resumable
  <1> HIDE DEF m
  <1>14. CASE page.busy = "view" /\ page' = Over([s EXCEPT !.meta = m]) /\ UNCHANGED <<sessions, faults>>
    <2> DEFINE t == [s EXCEPT !.meta = m]
               r == Over(t)
    <2>1. /\ t \in Pages /\ t.meta = m
          /\ t.active = s.active /\ t.batch = s.batch /\ t.flag = s.flag
          /\ t.writes = s.writes /\ t.failed = s.failed /\ t.life = s.life
      BY <1>3, <1>10, WithMetaFields
    <2> HIDE DEF t
    <2>2. /\ r.active = t.active /\ r.meta = t.meta /\ r.batch = t.batch /\ r.flag = t.flag
          /\ r.writes = t.writes /\ r.failed = t.failed
          /\ r.busy = "no" /\ r.life = Tail(t.life)
      BY <1>7, <2>1, OverFields
    <2> HIDE DEF r
    <2>3. /\ r.active = s.active /\ r.meta = m /\ r.batch = s.batch /\ r.flag = s.flag
          /\ r.writes = s.writes /\ r.failed = s.failed
          /\ r.busy = "no" /\ r.life = Tail(s.life)
      BY <2>1, <2>2
    <2>4. Sound(r, store, export, sessions, faults)
      BY <1>3, <1>4, <1>8, <1>14, <2>3, ViewedSound DEF m
    <2>5. page' = r
      BY <1>14 DEF r, t
    <2> QED BY <1>1, <1>14, <2>4, <2>5 DEF SoundInv
  <1>15. CASE page.busy = "resume" /\ page' = Activated([s EXCEPT !.meta = m]) /\ UNCHANGED <<sessions, faults>>
    <2> DEFINE t == [s EXCEPT !.meta = m]
    <2>1. /\ t \in Pages /\ t.meta = m
          /\ t.open = s.open /\ t.batch = s.batch
          /\ t.writes = s.writes /\ t.failed = s.failed /\ t.db = s.db
          /\ t.life = s.life /\ t.busy = s.busy
      BY <1>3, <1>10, WithMetaFields
    <2> HIDE DEF t
    <2>2. t.life = <<"load">> /\ t.open
      BY <1>7, <1>15, <2>1
    <2>3. Matched(t, export)
      BY <1>3, <2>1 DEF Matched, Awaited
    <2>4. Numbered(t, store, export, sessions)
      <3>1. Numbered(s, store, export, sessions)
        BY <1>3 DEF Orderly
      <3> QED BY <1>10, <1>13, <1>15, <2>1, <3>1 DEF Numbered
    <2>5. \A i \in DOMAIN t.db : t.db[i].kind # "read" /\ t.db[i].kind # "clear"
      BY <1>6, <2>1
    <2>6. /\ store.meta.chunks <= store.meta.count /\ store.meta.count + 1 <= MaxSamples + faults
          /\ Small(store.meta, faults) /\ Small(export.header, faults) /\ sessions <= MaxSessions
          /\ faults <= MaxFaults
      BY <1>8, <1>11 DEF Counted, Bounded
    <2>7. t.meta.session # 0 /\ Clean(store.meta) /\ t.meta = store.meta /\ t.writes = <<>>
      BY <1>9, <1>13, <1>15, <2>1 DEF m
    <2>8. export.stage = "none"
      BY <1>9 DEF NoExport
    <2>9. Recordable(t, store, export, sessions, faults)
      BY <1>10, <1>11, <2>1, <2>2, <2>3, <2>4, <2>5, <2>6, <2>7, <2>8 DEF Recordable
    <2>10. Sound(Activated(t), store, export, sessions, faults)
      BY <2>9, ActivatedSound
    <2> QED BY <1>1, <1>15, <2>10 DEF SoundInv, t
  <1>16. CASE Fault /\ page' = Rejected(s) /\ UNCHANGED sessions
    <2> DEFINE g == faults'
    <2>1. Sound(s, store, export, sessions, g)
      BY <1>5, <1>16
    <2> HIDE DEF g
    <2>2. Sound(Rejected(s), store, export, sessions, g)
      BY <1>3, <1>7, <2>1, RejectedSound
    <2> QED BY <1>1, <1>16, <2>2 DEF SoundInv, g
  <1>17. CASE Fault /\ page.busy # "resume" /\ page' = Over(s) /\ UNCHANGED sessions
    <2> DEFINE g == faults'
    <2>1. Sound(s, store, export, sessions, g)
      BY <1>5, <1>17
    <2> HIDE DEF g
    <2>2. ~s.flag
      BY <1>2, <1>12, <1>17
    <2>3. Sound(Over(s), store, export, sessions, g)
      BY <1>3, <1>7, <2>1, <2>2, OverSound
    <2> QED BY <1>1, <1>17, <2>3 DEF SoundInv, g
  <1>18. /\ MetaRead
         /\ page.busy = "resume" => ~(m.session = 0 \/ m.stopped \/ m.error)
    BY <1>13 DEF Clean
  <1>19. \/ page.busy = "view" /\ page' = Over([s EXCEPT !.meta = m]) /\ UNCHANGED <<sessions, faults>>
         \/ page.busy = "resume" /\ page' = Activated([s EXCEPT !.meta = m]) /\ UNCHANGED <<sessions, faults>>
         \/ Fault /\ page' = Rejected(s) /\ UNCHANGED sessions
         \/ Fault /\ page.busy # "resume" /\ page' = Over(s) /\ UNCHANGED sessions
    BY <1>18 DEF MetaRead, Task, Goes, s, m
  <1> QED BY <1>14, <1>15, <1>16, <1>17, <1>19

LEMMA StoreClearedSound == ASSUME OrderlyInv, SoundInv, StoreCleared PROVE SoundInv'
  <1> DEFINE s == Settled
  <1>1. /\ Orderly(page, store, export, sessions) /\ page.db # <<>> /\ Head(page.db).kind = "clear"
        /\ UNCHANGED <<export, sessions>> /\ ~Queued /\ Sound(page, store, export, sessions, faults)
    BY DEF OrderlyInv, SoundInv, StoreCleared, Due, Task
  <1>2. page.busy = "clear"
    BY <1>1, TailElements DEF Orderly, Matched, Awaited, Pages
  <1>3. /\ Orderly(s, store, export, sessions) /\ page.open
        /\ \A i \in DOMAIN s.db : s.db[i].kind # "clear"
        /\ s \in Pages /\ Matched(s, export) /\ s.meta = page.meta /\ s.writes = page.writes
        /\ s.open = page.open /\ s.active = page.active
        /\ s.life = page.life /\ s.busy = page.busy
    BY <1>1, DueSettled
  <1>4. Fault => Sound(s, store, export, sessions, faults')
    BY <1>1, FaultMore, SettledSound
  <1> HIDE DEF s
  <1>5. \A i \in DOMAIN s.db : s.db[i].kind # "read" /\ s.db[i].kind # "clear"
    BY <1>2, <1>3 DEF Matched, Awaited
  <1>6. /\ faults \in Nat /\ Bounded(page, store, export, sessions, faults)
        /\ Settling(page, store, sessions) /\ Delivers(page, store, export)
    BY <1>1 DEF Sound, Nearly
  <1>7. /\ s.open /\ ~s.active /\ s.life = <<"start">> /\ s.life # <<>> /\ s.writes = <<>>
        /\ s.meta = [NoMeta EXCEPT !.session = sessions] /\ s.meta = page.meta
    <2>1. Lined(page)
      BY <1>1 DEF Orderly
    <2>2. ~s.active
      BY <1>2, <1>3, <2>1, LifeTails DEF Lined
    <2>3. page.life = <<"start">> /\ page.meta = [NoMeta EXCEPT !.session = sessions]
      BY <1>2, <1>6 DEF Settling
    <2>4. page.meta.session = sessions /\ store.meta.session # sessions
      BY <1>1, <1>2, <1>6, Typed DEF Settling, Orderly, NoMeta
    <2>5. page.writes = <<>>
      BY <1>6, <2>4 DEF Settling
    <2> QED BY <1>3, <2>2, <2>3, <2>5, LifeTails
  <1>8. page.meta.session # 0 /\ page.meta.session <= sessions /\ sessions \in Nat
        /\ page.meta \in Described /\ export \in Exports
    BY <1>1, <1>2 DEF Orderly, Numbered, Pages
  <1>9. CASE store' = [meta |-> page.meta, chunks |-> {}] /\ page' = Activated(s) /\ UNCHANGED faults
    <2> DEFINE st == store'
    <2>1. st \in Stores /\ st.meta = page.meta /\ st.chunks = {}
      BY <1>8, <1>9 DEF Stores
    <2> HIDE DEF st
    <2>2. Numbered(s, st, export, sessions)
      <3>1. Numbered(s, store, export, sessions)
        BY <1>3 DEF Orderly
      <3> QED BY <1>8, <2>1, <3>1 DEF Numbered
    <2>3. st.meta.count = 0 /\ st.meta.chunks = 0 /\ Clean(st.meta)
      BY <1>7, <2>1 DEF NoMeta, Clean
    <2>4. Whole(st) /\ IsFiniteSet(st.chunks)
      <3>1. {k.sequence : k \in {}} = 1..0
        OBVIOUS
      <3> QED BY <2>1, <2>3, <3>1, AmountEmpty, FS_EmptySet DEF Whole
    <2>5. MaxSamples \in Nat /\ 1 <= MaxSamples
      OBVIOUS
    <2>6. st.meta.chunks <= st.meta.count /\ st.meta.count + 1 <= MaxSamples + faults
      BY <1>6, <2>3, <2>5
    <2>7. /\ Small(st.meta, faults) /\ Small(export.header, faults) /\ sessions <= MaxSessions
          /\ faults <= MaxFaults
      BY <1>6, <2>1 DEF Bounded
    <2>8. export.stage # "none" => export.header.session < s.meta.session
      BY <1>2, <1>6, <1>7 DEF Delivers
    <2>9. Recordable(s, st, export, sessions, faults)
      BY <1>3, <1>5, <1>6, <1>7, <1>8, <2>1, <2>2, <2>3, <2>4, <2>6, <2>7, <2>8 DEF Recordable
    <2>10. Sound(Activated(s), st, export, sessions, faults)
      BY <2>9, ActivatedSound
    <2> QED BY <1>1, <1>9, <2>10 DEF SoundInv, st
  <1>10. CASE Fault /\ store' = store /\ page' = Rejected(s)
    <2> DEFINE g == faults'
    <2>1. Sound(s, store, export, sessions, g)
      BY <1>4, <1>10
    <2> HIDE DEF g
    <2>2. Sound(Rejected(s), store, export, sessions, g)
      BY <1>3, <1>7, <2>1, RejectedSound
    <2> QED BY <1>1, <1>10, <2>2 DEF SoundInv, g
  <1> QED BY <1>9, <1>10 DEF StoreCleared, Task, Goes, s

-----------------------------------------------------------------------------
(* The transaction of a chunk *)

\* What is known while chunks are written.
LEMMA NextChunk ==
  ASSUME NEW p, NEW st, NEW x, NEW ss, NEW f, Orderly(p, st, x, ss), Sound(p, st, x, ss, f), p.writes # <<>>
  PROVE  LET c == p.writes[1]
         IN /\ 1 \in DOMAIN p.writes /\ c \in Batches /\ p.failed = <<>>
            /\ p.meta.session = st.meta.session /\ p.meta.session # 0 /\ c.meta.session = st.meta.session
            /\ c.meta.chunks = st.meta.chunks + 1 /\ c.meta.count = st.meta.count + c.n
            /\ p.meta.chunks = st.meta.chunks + Len(p.writes)
            /\ ~Loads(p) /\ p.busy \notin {"clear", "resume", "view"}
            /\ Stored(c) \notin st.chunks /\ \A k \in st.chunks : k.sequence # c.meta.chunks
            /\ Len(p.writes) \in Nat \ {0} /\ st.meta.chunks \in Nat /\ st.meta.count \in Nat
            /\ c.n \in Nat /\ p.meta.chunks \in Nat
  <1> DEFINE c == p.writes[1]
  <1>1. /\ p.writes \in Seq(Batches) /\ Lined(p) /\ Untouched(p, x) /\ st.meta \in Described
        /\ st.meta.chunks \in Nat /\ st.meta.count \in Nat /\ p.meta.chunks \in Nat
    BY Typed DEF Orderly
  <1>2. /\ Settling(p, st, ss) /\ Consecutive(p, st) /\ Whole(st)
    BY DEF Sound, Nearly
  <1>3. 1 \in DOMAIN p.writes /\ c \in Batches /\ Len(p.writes) \in Nat \ {0}
    BY <1>1, TailElements
  <1>4. p.meta.session = st.meta.session /\ p.failed = <<>> /\ p.meta.session # 0
    BY ActiveStored DEF Sound
  <1>5. /\ c.meta.session = st.meta.session /\ c.meta.chunks = st.meta.chunks + 1
        /\ c.meta.count = Before(p, st, 1) + c.n
    BY <1>2, <1>3 DEF Consecutive
  <1>6. Before(p, st, 1) = st.meta.count
    BY DEF Before
  <1>7. ~Loads(p)
    BY <1>1 DEF Untouched
  <1>8. p.busy \notin {"clear", "resume", "view"}
    <2>1. ss \in Nat /\ st.meta.session \in Nat
      BY Typed DEF Orderly
    <2>2. p.busy # "clear"
      BY <1>2, <1>4, <2>1 DEF Settling, NoMeta
    <2>3. p.busy \in {"resume", "view"} => Loads(p)
      BY <1>1, LifeTails DEF Lined, Loads
    <2> QED BY <1>7, <2>2, <2>3
  <1>9. \A k \in st.chunks : k.sequence # c.meta.chunks
    <2>1. \A k \in st.chunks : k.sequence \in 1..st.meta.chunks
      BY <1>2 DEF Whole
    <2>2. c.meta.chunks \notin 1..st.meta.chunks
      BY <1>1, <1>5
    <2> QED BY <2>1, <2>2
  <1>10. Stored(c) \notin st.chunks
    BY <1>3, <1>9, StoredFields
  <1>11. p.meta.chunks = st.meta.chunks + Len(p.writes)
    BY <1>2, <1>4 DEF Consecutive
  <1>12. c.n \in Nat
    BY <1>3 DEF Batches
  <1> QED BY <1>1, <1>3, <1>4, <1>5, <1>6, <1>7, <1>8, <1>9, <1>10, <1>11, <1>12

LEMMA BeforeTail ==
  ASSUME NEW p, NEW r, NEW st, NEW y, p.writes \in Seq(Batches), p.writes # <<>>,
         r.writes = Tail(p.writes), y.meta = p.writes[1].meta, NEW i \in 1..Len(p.writes)
  PROVE  Before(r, y, i) = Before(p, st, i + 1)
  <1> DEFINE q == p.writes
             a == r.writes
  <1>1. Len(q) \in Nat /\ \A j \in 1..(Len(q) - 1) : a[j] = q[j + 1]
    BY TailElements
  <1>2. i \in Nat /\ i + 1 # 1 /\ (i + 1) - 1 = i
    OBVIOUS
  <1>3. Before(p, st, i + 1) = q[i].meta.count
    BY <1>2 DEF Before
  <1>4. CASE i = 1
    BY <1>3, <1>4 DEF Before
  <1>5. CASE i # 1
    <2>1. i - 1 \in 1..(Len(q) - 1) /\ (i - 1) + 1 = i
      BY <1>1, <1>5
    <2>2. a[i - 1] = q[i]
      BY <1>1, <2>1
    <2> QED BY <1>3, <1>5, <2>2 DEF Before
  <1> QED BY <1>4, <1>5

\* A description and a chunk are stored together.
Grown(st, c, y) ==
  /\ y \in Stores /\ y.meta = c.meta /\ y.chunks = st.chunks \cup {Stored(c)}

LEMMA GrownAmounts ==
  ASSUME NEW st \in Stores, NEW y, NEW c \in Batches, IsFiniteSet(st.chunks), Grown(st, c, y),
         Stored(c) \notin st.chunks
  PROVE  /\ IsFiniteSet(y.chunks) /\ Amount(y.chunks) = Amount(st.chunks) + c.n
         /\ \A b \in Nat :
              Amount(Upto(y, b)) = Amount(Upto(st, b)) + (IF c.meta.chunks <= b THEN c.n ELSE 0)
         /\ \A m \in Described : (m.session = c.meta.session /\ c.meta.chunks <= m.chunks) =>
              Amount(Mine(y, m)) = Amount(Mine(st, m)) + c.n
  <1> DEFINE e == Stored(c)
  <1>1. e.session = c.meta.session /\ e.sequence = c.meta.chunks /\ e.n = c.n /\ e.n \in Nat
    BY StoredFields DEF Batches
  <1>2. y.chunks = st.chunks \cup {e} /\ e \notin st.chunks
    BY DEF Grown
  <1> HIDE DEF e
  <1>3. \A k \in st.chunks : k.n \in Nat
    BY ChunksTyped
  <1>4. IsFiniteSet(y.chunks)
    BY <1>2, FS_AddElement
  <1>5. ASSUME NEW K \in SUBSET st.chunks PROVE Amount(K \cup {e}) = Amount(K) + c.n /\ Amount(K) \in Nat
    <2>1. IsFiniteSet(K) /\ \A k \in K : k.n \in Nat
      BY <1>3, FS_Subset
    <2>2. e \notin K
      BY <1>2
    <2> QED BY <1>1, <2>1, <2>2, AmountAdd, AmountNatural
  <1>6. st.chunks \in SUBSET st.chunks
    OBVIOUS
  <1>7. Amount(y.chunks) = Amount(st.chunks) + c.n
    BY <1>2, <1>5, <1>6
  <1>8. ASSUME NEW b \in Nat
        PROVE  Amount(Upto(y, b)) = Amount(Upto(st, b)) + (IF c.meta.chunks <= b THEN c.n ELSE 0)
    <2>1. Upto(st, b) \in SUBSET st.chunks
      BY DEF Upto
    <2>2. CASE c.meta.chunks <= b
      <3>1. Upto(y, b) = Upto(st, b) \cup {e}
        BY <1>1, <1>2, <2>2 DEF Upto
      <3> QED BY <1>5, <2>1, <2>2, <3>1
    <2>3. CASE ~(c.meta.chunks <= b)
      <3>1. Upto(y, b) = Upto(st, b)
        BY <1>1, <1>2, <2>3 DEF Upto
      <3>2. Amount(Upto(st, b)) \in Nat
        BY <1>5, <2>1
      <3> QED BY <2>3, <3>1, <3>2
    <2> QED BY <2>2, <2>3
  <1>9. ASSUME NEW m \in Described, m.session = c.meta.session, c.meta.chunks <= m.chunks
        PROVE  Amount(Mine(y, m)) = Amount(Mine(st, m)) + c.n
    <2>1. Mine(st, m) \in SUBSET st.chunks
      BY DEF Mine
    <2>2. Mine(y, m) = Mine(st, m) \cup {e}
      BY <1>1, <1>2, <1>9 DEF Mine
    <2> QED BY <1>5, <2>1, <2>2
  <1> QED BY <1>4, <1>7, <1>8, <1>9

LEMMA WrittenSound ==
  ASSUME NEW p, NEW st, NEW x, NEW ss, NEW f, NEW y, Orderly(p, st, x, ss), Sound(p, st, x, ss, f),
         p.writes # <<>>, p.db # <<>>, Grown(st, p.writes[1], y), p.active => p.life = <<>>
  PROVE  Sound(Written(p), y, x, ss, f)
  <1> DEFINE r == Written(p)
             c == p.writes[1]
             q == Tail(p.writes)
  <1>1. /\ 1 \in DOMAIN p.writes /\ c \in Batches /\ p.failed = <<>>
        /\ p.meta.session = st.meta.session /\ p.meta.session # 0 /\ c.meta.session = st.meta.session
        /\ c.meta.chunks = st.meta.chunks + 1 /\ c.meta.count = st.meta.count + c.n
        /\ p.meta.chunks = st.meta.chunks + Len(p.writes)
        /\ ~Loads(p) /\ p.busy \notin {"clear", "resume", "view"}
        /\ Stored(c) \notin st.chunks
        /\ Len(p.writes) \in Nat \ {0} /\ st.meta.chunks \in Nat /\ st.meta.count \in Nat
        /\ c.n \in Nat /\ p.meta.chunks \in Nat
    BY NextChunk
  <1>2. /\ p \in Pages /\ st \in Stores /\ x \in Exports /\ p.writes \in Seq(Batches) /\ p.meta \in Described
        /\ x.header \in Described /\ st.meta \in Described
        /\ \A b \in Batches : b.meta \in Described /\ b.n \in Nat \ {0}
        /\ \A m \in Described : m.session \in Nat /\ m.count \in Nat /\ m.chunks \in Nat
    BY Typed
  <1>3. /\ f \in Nat /\ IsFiniteSet(st.chunks) /\ Bounded(p, st, x, ss, f) /\ Counted(p, st)
        /\ Settling(p, st, ss) /\ Resumable(p, st) /\ Consecutive(p, st) /\ Delivers(p, st, x)
        /\ Whole(st) /\ Kept(p, st) /\ Attended(p)
    BY DEF Sound, Nearly
  <1>4. /\ r \in Pages /\ r.active = p.active /\ r.meta = p.meta /\ r.batch = p.batch
        /\ r.failed = <<>> /\ r.life = p.life /\ r.busy = p.busy
        /\ r.flag = p.flag /\ r.writes = q /\ q \in Seq(Batches)
    BY <1>1, <1>2, WrittenFields
  <1>5. y \in Stores /\ y.meta = c.meta /\ y.chunks = st.chunks \cup {Stored(c)}
    BY DEF Grown
  <1>6. /\ IsFiniteSet(y.chunks) /\ Amount(y.chunks) = Amount(st.chunks) + c.n
        /\ \A b \in Nat :
             Amount(Upto(y, b)) = Amount(Upto(st, b)) + (IF c.meta.chunks <= b THEN c.n ELSE 0)
        /\ \A m \in Described : (m.session = c.meta.session /\ c.meta.chunks <= m.chunks) =>
             Amount(Mine(y, m)) = Amount(Mine(st, m)) + c.n
    <2>1. /\ st \in Stores /\ c \in Batches /\ IsFiniteSet(st.chunks) /\ Grown(st, c, y)
          /\ Stored(c) \notin st.chunks
      BY <1>1, <1>2, <1>3
    <2> HIDE DEF c
    <2> QED BY ONLY <2>1, GrownAmounts
  <1>7. /\ Len(q) = Len(p.writes) - 1 /\ DOMAIN q = 1..(Len(p.writes) - 1)
        /\ DOMAIN p.writes = 1..Len(p.writes)
        /\ \A i \in DOMAIN q : i \in Nat /\ i + 1 \in DOMAIN p.writes /\ q[i] = p.writes[i + 1]
    BY <1>2, TailElements
  <1>8. c = p.writes[1]
    OBVIOUS
  <1> HIDE DEF r, c, q
  <1>9. ~Loads(r)
    BY <1>1, <1>4 DEF Loads
  <1>10. Bounded(r, y, x, ss, f)
    <2>1. Small(c.meta, f)
      BY <1>1, <1>3, <1>8 DEF Bounded
    <2>2. \A i \in DOMAIN r.writes : Small(r.writes[i].meta, f) /\ r.writes[i].n <= MaxSamples + f
      BY <1>3, <1>4, <1>7 DEF Bounded
    <2>3. DOMAIN r.failed = {}
      BY <1>4
    <2> QED BY <1>1, <1>3, <1>4, <1>5, <1>9, <2>1, <2>2, <2>3 DEF Bounded
  <1>11. Counted(r, y)
    <2>1. y.meta.chunks <= y.meta.count
      BY <1>1, <1>3, <1>5, <1>8 DEF Counted
    <2> QED BY <1>3, <1>4, <1>7, <2>1 DEF Counted
  <1>12. Settling(r, y, ss)
    <2>1. Len(p.writes) <= Backlog /\ (p.active => Len(p.writes) < Backlog)
      BY <1>3 DEF Settling
    <2>2. Len(r.writes) <= Backlog /\ (r.active => Len(r.writes) < Backlog)
      <3>1. Len(r.writes) = Len(p.writes) - 1 /\ Len(p.writes) \in Nat
        BY <1>1, <1>4, <1>7
      <3> QED BY <1>4, <2>1, <3>1
    <2> QED BY <1>1, <1>4, <1>5, <2>2 DEF Settling
  <1>13. Attended(r)
    BY <1>1, <1>3, <1>4 DEF Attended
  <1>14. Resumable(r, y)
    <2>1. p.active => Clean(p.meta) /\ Clean(c.meta) /\ \A i \in DOMAIN p.writes : Clean(p.writes[i].meta)
      BY <1>1, <1>3, <1>8 DEF Resumable
    <2>2. p.flag => p.active
      BY <1>1, <1>3 DEF Resumable
    <2> QED BY <1>1, <1>4, <1>5, <1>7, <2>1, <2>2 DEF Resumable
  <1>15. Consecutive(r, y)
    <2>1. \A i \in 1..Len(p.writes) : Before(r, y, i) = Before(p, st, i + 1)
      <3> SUFFICES ASSUME NEW i \in 1..Len(p.writes) PROVE Before(r, y, i) = Before(p, st, i + 1)
        OBVIOUS
      <3>1. r.writes = Tail(p.writes) /\ y.meta = p.writes[1].meta
        BY <1>4, <1>5, <1>8 DEF q
      <3> QED BY <1>2, <3>1, BeforeTail
    <2>2. ASSUME NEW i \in DOMAIN r.writes
          PROVE  /\ r.writes[i].meta.session = y.meta.session
                 /\ r.writes[i].meta.chunks = y.meta.chunks + i
                 /\ r.writes[i].meta.count = Before(r, y, i) + r.writes[i].n
      <3>1. i \in Nat /\ i + 1 \in DOMAIN p.writes /\ r.writes[i] = p.writes[i + 1] /\ i \in 1..Len(p.writes)
        BY <1>1, <1>4, <1>7
      <3>2. /\ p.writes[i + 1].meta.session = st.meta.session
            /\ p.writes[i + 1].meta.chunks = st.meta.chunks + (i + 1)
            /\ p.writes[i + 1].meta.count = Before(p, st, i + 1) + p.writes[i + 1].n
        BY <1>3, <3>1 DEF Consecutive
      <3>3. y.meta.session = st.meta.session /\ y.meta.chunks = st.meta.chunks + 1
        BY <1>1, <1>5
      <3>4. st.meta.chunks \in Nat
        BY <1>1
      <3>5. st.meta.chunks + (i + 1) = (st.meta.chunks + 1) + i
        BY <3>1, <3>4
      <3> QED BY <2>1, <3>1, <3>2, <3>3, <3>5
    <2>3. r.meta.chunks = y.meta.chunks + Len(r.writes) /\ r.meta.count = Last(r, y) + r.batch
      <3>1. p.meta.count = Last(p, st) + p.batch
        BY <1>1, <1>3 DEF Consecutive
      <3>2. Last(r, y) = Last(p, st)
        <4>1. Len(r.writes) + 1 = Len(p.writes) /\ Len(p.writes) \in 1..Len(p.writes)
          BY <1>1, <1>4, <1>7
        <4> QED BY <2>1, <4>1 DEF Last
      <3>3. r.meta.chunks = y.meta.chunks + Len(r.writes)
        <4>1. /\ r.meta.chunks = st.meta.chunks + Len(p.writes) /\ y.meta.chunks = st.meta.chunks + 1
              /\ Len(r.writes) = Len(p.writes) - 1 /\ st.meta.chunks \in Nat /\ Len(p.writes) \in Nat
          BY <1>1, <1>4, <1>5, <1>7
        <4> QED BY ONLY <4>1
      <3> QED BY <1>4, <3>1, <3>2, <3>3
    <2>4. DOMAIN r.failed = {}
      BY <1>4
    <2> QED BY <2>2, <2>3, <2>4 DEF Consecutive
  <1>16. Delivers(r, y, x)
    <2> DEFINE h == x.header
               sent == Under(h.chunks)
               a == Amount(Upto(st, h.chunks))
               b == Amount(Upto(y, h.chunks))
    <2>1. h.chunks \in Nat /\ h.count \in Nat /\ x.rest \in Nat
      BY <1>2 DEF Exports
    <2>2. a \in Nat /\ b = a + (IF c.meta.chunks <= h.chunks THEN c.n ELSE 0) /\ c.n \in Nat
      BY <1>1, <1>2, <1>3, <1>6, <2>1, AmountsTyped
    <2>3. /\ c.meta.chunks <= h.chunks => Held(p.writes, sent) = Held(q, sent) + c.n
          /\ ~(c.meta.chunks <= h.chunks) => Held(p.writes, sent) = Held(q, sent)
      <3>1. (c \in sent) <=> (c.meta.chunks <= h.chunks)
        BY <1>1 DEF Under
      <3> HIDE DEF sent
      <3>2. /\ c \in sent => Held(p.writes, sent) = Held(q, sent) + c.n
            /\ c \notin sent => Held(p.writes, sent) = Held(q, sent)
        BY <1>2, <1>8, HeldTail DEF q
      <3> QED BY <3>1, <3>2
    <2>4. Held(q, sent) \in Nat /\ Held(r.failed, sent) = 0 /\ Held(p.failed, sent) = 0
      BY <1>1, <1>4, HeldNatural, HeldEmpty
    <2>5. ASSUME h.session = r.meta.session, x.stage = "waits"
          PROVE  /\ h.chunks <= r.meta.chunks
                 /\ b + Held(r.writes, sent) + Held(r.failed, sent) >= h.count
                 /\ \A i \in DOMAIN r.writes : r.writes[i].meta.chunks <= h.chunks => r.writes[i] \in x.wait
      <3>1. /\ h.chunks <= p.meta.chunks
            /\ a + Held(p.writes, sent) + Held(p.failed, sent) >= h.count
            /\ \A i \in DOMAIN p.writes : p.writes[i].meta.chunks <= h.chunks => p.writes[i] \in x.wait
        BY <1>3, <1>4, <2>5 DEF Delivers
      <3>2. b + Held(q, sent) + Held(r.failed, sent) >= h.count
        <4> HIDE DEF a, b, sent, h
        <4> QED BY <2>2, <2>3, <2>4, <3>1
      <3> HIDE DEF b, sent
      <3> QED BY <1>4, <1>7, <3>1, <3>2
    <2>6. ASSUME h.session = r.meta.session, x.stage = "reads"
          PROVE  x.rest + b >= h.count
      <3>1. x.rest + a >= h.count
        BY <1>3, <1>4, <2>6 DEF Delivers
      <3>2. a \in Nat /\ c.n \in Nat /\ (b = a + c.n \/ b = a + 0)
        BY <2>2
      <3> HIDE DEF a, b, h
      <3> QED BY <2>1, <3>1, <3>2
    <2> QED BY <1>1, <1>4, <2>5, <2>6 DEF Delivers
  <1>17. Whole(y)
    <2>1. /\ {k.sequence : k \in st.chunks} = 1..st.meta.chunks /\ Amount(st.chunks) = st.meta.count
          /\ \A k \in st.chunks : k.session = st.meta.session
      BY <1>3 DEF Whole
    <2>2. Stored(c).session = c.meta.session /\ Stored(c).sequence = c.meta.chunks
      BY <1>1, StoredFields
    <2>3. {k.sequence : k \in y.chunks} = 1..y.meta.chunks
      <3>1. {k.sequence : k \in y.chunks} = {k.sequence : k \in st.chunks} \cup {c.meta.chunks}
        BY <1>5, <2>2
      <3>2. 1..st.meta.chunks \cup {st.meta.chunks + 1} = 1..(st.meta.chunks + 1)
        <4>1. st.meta.chunks \in Nat
          BY <1>1
        <4> QED BY ONLY <4>1
      <3> QED BY <1>1, <1>5, <2>1, <3>1, <3>2
    <2>4. Amount(y.chunks) = y.meta.count
      BY <1>1, <1>5, <1>6, <2>1
    <2>5. \A k \in y.chunks : k.session = y.meta.session
      BY <1>1, <1>5, <2>1, <2>2
    <2> QED BY <2>3, <2>4, <2>5 DEF Whole
  <1>18. Kept(r, y)
    <2> DEFINE own == Own(p.meta.session)
               a == Amount(Mine(st, p.meta))
               b == Amount(Mine(y, p.meta))
    <2>1. a \in Nat /\ b = a + c.n
      <3>1. c.meta.chunks <= p.meta.chunks
        <4>1. /\ c.meta.chunks = st.meta.chunks + 1 /\ p.meta.chunks = st.meta.chunks + Len(p.writes)
              /\ Len(p.writes) \in Nat \ {0} /\ st.meta.chunks \in Nat
          BY <1>1
        <4> QED BY ONLY <4>1
      <3> QED BY <1>1, <1>2, <1>3, <1>6, <3>1, AmountsTyped
    <2>2. Held(p.writes, own) = Held(q, own) + c.n
      <3>1. c \in own
        BY <1>1 DEF Own
      <3> HIDE DEF own
      <3> QED BY <1>2, <1>8, <3>1, HeldTail DEF q
    <2>3. Held(q, own) \in Nat /\ Held(r.failed, own) = 0 /\ Held(p.failed, own) = 0
      BY <1>1, <1>4, HeldNatural, HeldEmpty
    <2>4. a + Held(p.writes, own) + Held(p.failed, own) + p.batch >= p.meta.count
      BY <1>3 DEF Kept
    <2>5. c.n \in Nat /\ p.batch \in Nat /\ p.meta.count \in Nat
      BY <1>1, <1>2, Typed
    <2> HIDE DEF own, a, b
    <2>6. b + Held(q, own) + Held(r.failed, own) + p.batch >= p.meta.count
      BY <2>1, <2>2, <2>3, <2>4, <2>5
    <2> QED BY <1>4, <2>6 DEF Kept, own, b
  <1> QED BY <1>3, <1>6, <1>10, <1>11, <1>12, <1>13, <1>14, <1>15, <1>16, <1>17, <1>18 DEF Sound, Nearly, r

LEMMA RefusedSound ==
  ASSUME NEW p, NEW st, NEW x, NEW ss, NEW f, Orderly(p, st, x, ss), Sound(p, st, x, ss, f),
         p.writes # <<>>, p.db # <<>>
  PROVE  Sound(Refused(p, Head(p.writes)), st, x, ss, f)
  <1> DEFINE r == Refused(p, Head(p.writes))
  <1>1. /\ p.failed = <<>> /\ p.meta.session = st.meta.session
        /\ p.meta.chunks = st.meta.chunks + Len(p.writes)
        /\ ~Loads(p) /\ p.busy \notin {"clear", "resume", "view"}
        /\ Len(p.writes) \in Nat \ {0} /\ st.meta.chunks \in Nat
    BY NextChunk
  <1>2. /\ p \in Pages /\ p.writes \in Seq(Batches) /\ st \in Stores
    BY Typed
  <1>3. /\ f \in Nat /\ IsFiniteSet(st.chunks) /\ Bounded(p, st, x, ss, f) /\ Counted(p, st)
        /\ Settling(p, st, ss) /\ Consecutive(p, st) /\ Delivers(p, st, x)
        /\ Whole(st) /\ Kept(p, st)
    BY DEF Sound, Nearly
  <1>4. /\ r \in Pages /\ r.active = FALSE /\ r.batch = p.batch
        /\ r.failed = p.writes /\ r.writes = <<>> /\ r.life = p.life /\ r.busy = p.busy
        /\ r.flag = FALSE
        /\ r.meta.session = p.meta.session /\ r.meta.count = p.meta.count
        /\ r.meta.chunks = p.meta.chunks
    BY <1>1, <1>2, RefusedFields
  <1> HIDE DEF r
  <1>5. ~Loads(r)
    BY <1>1, <1>4 DEF Loads
  <1>6. DOMAIN r.writes = {} /\ Len(r.writes) = 0
    BY <1>4
  <1>7. Bounded(r, st, x, ss, f)
    <2>1. Small(r.meta, f)
      BY <1>3, <1>4 DEF Bounded, Small
    <2> QED BY <1>1, <1>3, <1>4, <1>5, <1>6, <2>1 DEF Bounded
  <1>8. Counted(r, st)
    BY <1>3, <1>4, <1>6 DEF Counted
  <1>9. Settling(r, st, ss)
    BY <1>1, <1>4, <1>6 DEF Settling
  <1>10. Attended(r)
    BY <1>4 DEF Attended
  <1>11. Resumable(r, st)
    BY <1>1, <1>4 DEF Resumable
  <1>12. Consecutive(r, st)
    <2>1. ASSUME NEW i \in DOMAIN r.failed PROVE r.failed[i].meta.chunks <= r.meta.chunks
      <3>1. i \in 1..Len(p.writes) /\ r.failed[i] = p.writes[i]
        BY <1>2, <1>4
      <3>2. p.writes[i].meta.chunks = st.meta.chunks + i
        BY <1>2, <1>3, <3>1 DEF Consecutive
      <3>3. r.meta.chunks = st.meta.chunks + Len(p.writes) /\ Len(p.writes) \in Nat /\ st.meta.chunks \in Nat
        BY <1>1, <1>4
      <3>4. i <= Len(p.writes) /\ i \in Nat
        BY <1>1, <3>1
      <3>5. st.meta.chunks + i <= st.meta.chunks + Len(p.writes)
        BY ONLY <3>3, <3>4
      <3> QED BY <3>1, <3>2, <3>3, <3>5
    <2> QED BY <1>4, <1>6, <2>1 DEF Consecutive
  <1>13. \A T : Held(r.failed, T) = Held(p.writes, T) /\ Held(r.writes, T) = 0 /\ Held(p.failed, T) = 0
                /\ Held(p.writes, T) \in Nat
    BY <1>1, <1>2, <1>4, HeldEmpty, HeldNatural
  <1>14. Delivers(r, st, x)
    <2> DEFINE h == x.header
               sent == Under(h.chunks)
               a == Amount(Upto(st, h.chunks))
    <2>1. a \in Nat
      BY <1>2, <1>3, AmountsTyped
    <2>2. ASSUME h.session = p.meta.session, x.stage = "waits"
          PROVE  a + Held(r.writes, sent) + Held(r.failed, sent) >= h.count
      <3>1. a + Held(p.writes, sent) + Held(p.failed, sent) >= h.count
        BY <1>3, <2>2 DEF Delivers
      <3>2. /\ Held(r.failed, sent) = Held(p.writes, sent) /\ Held(r.writes, sent) = 0
            /\ Held(p.failed, sent) = 0 /\ Held(p.writes, sent) \in Nat
        BY <1>13
      <3> HIDE DEF a, sent, h
      <3> QED BY <2>1, <3>1, <3>2
    <2> QED BY <1>3, <1>4, <1>6, <2>2 DEF Delivers
  <1>15. Kept(r, st)
    <2> DEFINE own == Own(p.meta.session)
               a == Amount(Mine(st, p.meta))
    <2>1. a \in Nat /\ p.batch \in Nat /\ Mine(st, r.meta) = Mine(st, p.meta)
      BY <1>2, <1>3, <1>4, AmountsTyped, Typed DEF Mine
    <2>2. a + Held(p.writes, own) + Held(p.failed, own) + p.batch >= p.meta.count
      BY <1>3 DEF Kept
    <2>3. /\ Held(r.failed, own) = Held(p.writes, own) /\ Held(r.writes, own) = 0
          /\ Held(p.failed, own) = 0 /\ Held(p.writes, own) \in Nat
      BY <1>13
    <2> HIDE DEF own, a
    <2>4. a + Held(r.writes, own) + Held(r.failed, own) + p.batch >= p.meta.count
      BY <2>1, <2>2, <2>3
    <2> QED BY <1>4, <2>1, <2>4 DEF Kept, own, a
  <1> QED BY <1>3, <1>7, <1>8, <1>9, <1>10, <1>11, <1>12, <1>14, <1>15 DEF Sound, Nearly, r

LEMMA ChunkWrittenSound == ASSUME OrderlyInv, SoundInv, ChunkWritten PROVE SoundInv'
  <1> DEFINE c == Head(page.db).chunk
  <1>1. Orderly(page, store, export, sessions) /\ Due("write") /\ ~Queued /\ UNCHANGED <<export, sessions>>
        /\ Sound(page, store, export, sessions, faults)
    BY DEF OrderlyInv, SoundInv, ChunkWritten, Task
  <1>2. /\ c = page.writes[1] /\ c = Head(page.writes) /\ page.writes # <<>>
        /\ page.db # <<>> /\ c \in Batches /\ store \in Stores
        /\ Continued([Settled EXCEPT !.writes = Tail(@)]) = Written(page)
        /\ Continued(Failed([[Settled EXCEPT !.writes = Tail(@)] EXCEPT !.failed = Append(@, c)]))
             = Refused(page, Head(page.writes))
        /\ page.active => page.life = <<>>
    BY <1>1, WriteDue
  <1>3. \A k \in store.chunks : k.sequence # c.meta.chunks
    BY <1>1, <1>2, NextChunk
  <1>4. \/ store' = Write(c) /\ UNCHANGED faults /\ page' = Continued([Settled EXCEPT !.writes = Tail(@)])
        \/ /\ store' = store /\ Fault
           /\ page' = Continued(Failed([[Settled EXCEPT !.writes = Tail(@)] EXCEPT !.failed = Append(@, c)]))
    BY <1>3 DEF ChunkWritten, Task, Goes
  <1> HIDE DEF c
  <1>5. CASE store' = Write(c) /\ UNCHANGED faults /\ page' = Written(page)
    <2> DEFINE y == Write(c)
    <2>1. Grown(store, page.writes[1], y)
      BY <1>2, WriteTyped DEF Grown
    <2> HIDE DEF y
    <2>2. Sound(Written(page), y, export, sessions, faults)
      BY <1>1, <1>2, <2>1, WrittenSound
    <2> QED BY <1>1, <1>5, <2>2 DEF SoundInv, y
  <1>6. CASE store' = store /\ Fault /\ page' = Refused(page, Head(page.writes))
    <2> DEFINE g == faults'
    <2>1. Sound(page, store, export, sessions, g)
      BY <1>6, FaultMore
    <2> HIDE DEF g
    <2>2. Sound(Refused(page, Head(page.writes)), store, export, sessions, g)
      BY <1>1, <1>2, <2>1, RefusedSound
    <2> QED BY <1>1, <1>6, <2>2 DEF SoundInv, g
  <1> QED BY <1>2, <1>4, <1>5, <1>6

-----------------------------------------------------------------------------
(* The steps of an export *)

LEMMA ExportSound ==
  ASSUME NEW p, NEW st, NEW x, NEW y, NEW ss, NEW f, Sound(p, st, x, ss, f),
         Small(y.header, f), Delivers(p, st, y)
  PROVE  Sound(p, st, y, ss, f)
  <1>1. Bounded(p, st, y, ss, f)
    BY DEF Sound, Nearly, Bounded
  <1> QED BY <1>1 DEF Sound, Nearly

\* What a page without a batch counts is what its description promises.
LEMMA PromisedDelivers ==
  ASSUME NEW p, NEW st, NEW x, NEW y, NEW ss, NEW f, Orderly(p, st, x, ss), Sound(p, st, x, ss, f),
         p.batch = 0, p.busy # "clear", y.header = p.meta, y.stage = "waits", y.wait = Range(p.writes)
  PROVE  Delivers(p, st, y)
  <1> DEFINE m == p.meta
             own == Own(m.session)
             sent == Under(m.chunks)
             a == Amount(Mine(st, m))
             b == Amount(Upto(st, m.chunks))
  <1>1. /\ st \in Stores /\ p.writes \in Seq(Batches) /\ p.failed \in Seq(Batches)
        /\ \A i \in DOMAIN p.writes : p.writes[i] \in Batches
        /\ \A i \in DOMAIN p.failed : p.failed[i] \in Batches
        /\ m.count \in Nat /\ m.chunks \in Nat
    BY Typed
  <1>2. IsFiniteSet(st.chunks) /\ Consecutive(p, st) /\ Kept(p, st)
    BY DEF Sound, Nearly
  <1>3. a \in Nat /\ b \in Nat /\ a <= b
    <2>1. \A k \in st.chunks : k.n \in Nat
      BY <1>1, ChunksTyped
    <2>2. Mine(st, m) \in SUBSET Upto(st, m.chunks) /\ Upto(st, m.chunks) \in SUBSET st.chunks
      BY DEF Mine, Upto
    <2>3. a <= b
      BY <1>2, <2>1, <2>2, AmountMore
    <2> QED BY <1>1, <1>2, <2>3, AmountsTyped
  <1>4. Held(p.writes, own) <= Held(p.writes, sent)
    <2>1. ASSUME NEW i \in DOMAIN p.writes PROVE p.writes[i] \in sent
      <3>1. p.writes # <<>> /\ i \in 1..Len(p.writes)
        BY <1>1
      <3>2. m.chunks = st.meta.chunks + Len(p.writes) /\ Len(p.writes) \in Nat /\ st.meta.chunks \in Nat
        BY <3>1, NextChunk
      <3>3. p.writes[i].meta.chunks = st.meta.chunks + i
        BY <1>2 DEF Consecutive
      <3>4. p.writes[i].meta.chunks <= m.chunks
        BY <3>1, <3>2, <3>3
      <3> QED BY <1>1, <3>4 DEF Under
    <2> HIDE DEF own, sent
    <2> QED BY <1>1, <2>1, HeldMore
  <1>5. Held(p.failed, own) <= Held(p.failed, sent)
    <2>1. \A i \in DOMAIN p.failed : p.failed[i] \in own => p.failed[i] \in sent
      BY <1>1, <1>2 DEF Consecutive, Own, Under
    <2> HIDE DEF own, sent
    <2> QED BY <1>1, <2>1, HeldMore
  <1>6. a + Held(p.writes, own) + Held(p.failed, own) + p.batch >= m.count
    BY <1>2 DEF Kept
  <1>7. \A T : Held(p.writes, T) \in Nat /\ Held(p.failed, T) \in Nat
    BY <1>1, HeldNatural
  <1>8. b + Held(p.writes, sent) + Held(p.failed, sent) >= m.count
    <2>1. /\ Held(p.writes, own) \in Nat /\ Held(p.failed, own) \in Nat
          /\ Held(p.writes, sent) \in Nat /\ Held(p.failed, sent) \in Nat
      BY <1>7
    <2>2. m.count \in Nat
      BY <1>1
    <2> HIDE DEF own, sent, a, b, m
    <2> QED BY <1>3, <1>4, <1>5, <1>6, <2>1, <2>2
  <1>9. \A i \in DOMAIN p.writes : p.writes[i] \in y.wait
    BY DEF Range
  <1> QED BY <1>1, <1>8, <1>9 DEF Delivers

LEMMA ExportStepSound == ASSUME OrderlyInv, SoundInv, Export PROVE SoundInv'
  <1> DEFINE s == Sampled(page)
             r == Flushed(s)
             y == [stage |-> "waits", header |-> r.meta, wait |-> Range(r.writes), rest |-> 0]
  <1>1. /\ Orderly(page, store, export, sessions) /\ page.open /\ page.busy = "no"
        /\ page.active => page.meta.count < MaxSamples
        /\ page' = r /\ export' = y /\ UNCHANGED <<store, sessions, faults>> /\ ~Queued
        /\ Sound(page, store, export, sessions, faults)
    BY DEF OrderlyInv, SoundInv, Export, Task, Goes, Room
  <1>2. page.life = <<>> /\ page \in Pages /\ faults \in Nat /\ page.meta.count \in Nat
    BY <1>1, Typed DEF Queued, Sound, Nearly
  <1>3. Orderly(s, store, export, sessions) /\ Sound(s, store, export, sessions, faults)
    <2>1. page.active => page.meta.count < MaxSamples + faults
      BY <1>1, <1>2
    <2> QED BY <1>1, <1>2, <2>1, SampledOrderly, SampledSound
  <1>4. s.busy = "no" /\ s.life = <<>> /\ s \in Pages
    BY <1>1, <1>2, SampledFields
  <1> HIDE DEF s
  <1>5. Flushable(s, store)
    <2>1. CASE s.active
      BY <1>3, <1>4, <2>1, ActiveFlushable
    <2>2. CASE ~s.active
      BY <1>3, <2>2 DEF Sound, Attended, Flushable
    <2> QED BY <2>1, <2>2
  <1>6. Orderly(r, store, export, sessions) /\ Sound(r, store, export, sessions, faults)
    <2>1. Nearly(s, store, export, sessions, faults) /\ s.busy # "clear"
      BY <1>3, <1>4 DEF Sound
    <2> QED BY <1>3, <1>4, <1>5, <2>1, FlushedOrderly, FlushedSound
  <1>7. r.busy = "no" /\ r.batch = 0
    BY <1>4, FlushedFields, FlushedEmpty
  <1> HIDE DEF r
  <1>8. y.header = r.meta /\ y.stage = "waits" /\ y.wait = Range(r.writes)
    OBVIOUS
  <1> HIDE DEF y
  <1>9. Delivers(r, store, y)
    BY <1>6, <1>7, <1>8, PromisedDelivers
  <1>10. Small(y.header, faults)
    BY <1>6, <1>8 DEF Sound, Nearly, Bounded
  <1>11. Sound(r, store, y, sessions, faults)
    BY <1>6, <1>9, <1>10, ExportSound
  <1> QED BY <1>1, <1>11 DEF SoundInv

LEMMA ExportReadsSound == ASSUME OrderlyInv, SoundInv, ExportReads PROVE SoundInv'
  <1> DEFINE n == Sum(KeptAside(export.header), LAMBDA i : page.failed[i].n)
             y == [export EXCEPT !.stage = "reads", !.wait = {},
                     !.header.error = @ \/ page.meta.error, !.rest = n]
             r == [page EXCEPT !.db = Append(@, Transaction("export", NoChunk))]
             h == export.header
             sent == Under(h.chunks)
             b == Amount(Upto(store, h.chunks))
  <1>1. /\ Orderly(page, store, export, sessions) /\ export.stage = "waits" /\ page' = r
        /\ export.wait \cap Range(page.writes) = {}
        /\ export' = y /\ UNCHANGED <<store, sessions, faults>>
        /\ Sound(page, store, export, sessions, faults)
    BY DEF OrderlyInv, SoundInv, ExportReads, Task, Goes
  <1>2. /\ page \in Pages /\ page.failed \in Seq(Batches) /\ page.writes \in Seq(Batches)
        /\ export \in Exports /\ h \in Described /\ store \in Stores
        /\ h.chunks \in Nat /\ h.count \in Nat
        /\ \A i \in DOMAIN page.failed : page.failed[i] \in Batches
    BY <1>1, Typed
  <1>3. n = Held(page.failed, sent) /\ n \in Nat
    <2>1. KeptAside(h) = {i \in DOMAIN page.failed : page.failed[i] \in sent}
      BY <1>2 DEF KeptAside, Under
    <2> HIDE DEF sent
    <2>2. n = Held(page.failed, sent)
      BY <1>2, <2>1, QueueHeld
    <2> HIDE DEF n
    <2> QED BY <1>2, <2>2, HeldNatural
  <1> HIDE DEF n
  <1>4. y.stage = "reads" /\ y.rest = n /\ y.header.session = h.session
        /\ y.header.count = h.count /\ y.header.chunks = h.chunks
    <2> DEFINE e == [h EXCEPT !.error = @ \/ page.meta.error]
    <2>1. e.session = h.session /\ e.count = h.count /\ e.chunks = h.chunks
      BY <1>2 DEF Described
    <2>2. y = [export EXCEPT !.stage = "reads", !.wait = {}, !.header = e, !.rest = n]
      BY <1>2 DEF Exports
    <2> HIDE DEF e
    <2> QED BY <1>2, <2>1, <2>2 DEF Exports
  <1> HIDE DEF y
  <1>5. Delivers(page, store, export) /\ Small(h, faults) /\ IsFiniteSet(store.chunks)
    BY <1>1 DEF Sound, Nearly, Bounded
  <1>6. ASSUME h.session = page.meta.session PROVE n + b >= h.count
    <2>1. /\ b + Held(page.writes, sent) + Held(page.failed, sent) >= h.count
          /\ \A i \in DOMAIN page.writes : page.writes[i].meta.chunks <= h.chunks => page.writes[i] \in export.wait
      BY <1>1, <1>5, <1>6 DEF Delivers
    <2>2. \A i \in DOMAIN page.writes : page.writes[i] \notin sent
      BY <1>1, <2>1 DEF Range, Under
    <2>3. b \in Nat
      BY <1>2, <1>5, AmountsTyped
    <2> HIDE DEF sent, b, h
    <2>4. Held(page.writes, sent) = 0
      BY <1>2, <2>2, HeldNone
    <2> QED BY <1>2, <1>3, <2>1, <2>3, <2>4
  <1>7. Delivers(page, store, y)
    BY <1>1, <1>4, <1>5, <1>6 DEF Delivers
  <1>8. Small(y.header, faults)
    BY <1>4, <1>5 DEF Small
  <1>9. Sound(page, store, y, sessions, faults)
    BY <1>1, <1>7, <1>8, ExportSound
  <1>10. /\ r.active = page.active /\ r.flag = page.flag /\ r.meta = page.meta /\ r.batch = page.batch
         /\ r.writes = page.writes /\ r.failed = page.failed /\ r.life = page.life /\ r.busy = page.busy
    BY <1>2 DEF Pages
  <1> HIDE DEF r
  <1>11. Sound(r, store, y, sessions, faults)
    BY <1>9, <1>10, NearlySame DEF Sound
  <1> QED BY <1>1, <1>11 DEF SoundInv

\* What is delivered: everything that was promised.
LEMMA ExportEndsSound ==
  ASSUME OrderlyInv, SoundInv, ExportWhole, ExportEnds
  PROVE  SoundInv' /\ ExportWhole'
  <1> DEFINE h == export.header
             chunks == {k \in store.chunks : k.sequence <= h.chunks}
             g == faults'
  <1>1. /\ Orderly(page, store, export, sessions) /\ ~Queued /\ page.db # <<>>
        /\ Head(page.db).kind = "export" /\ page' = Settled
        /\ export' = NoExport /\ UNCHANGED <<store, sessions>>
        /\ Sound(page, store, export, sessions, faults)
    BY DEF OrderlyInv, SoundInv, ExportEnds, Due, Task, Goes
  <1>2. /\ faults \in Nat /\ IsFiniteSet(store.chunks) /\ Delivers(page, store, export)
        /\ store \in Stores
    BY <1>1, Typed DEF Sound, Nearly
  <1>3. export.stage = "reads"
    BY <1>1, TailElements DEF Orderly, Matched, Awaited, Pages
  <1>4. Sound(page, store, export, sessions, g) /\ g \in Nat
    <2>1. CASE UNCHANGED faults
      BY <1>1, <1>2, <2>1
    <2>2. CASE Fault
      BY <2>2, FaultMore DEF Sound, Nearly
    <2> QED BY <2>1, <2>2 DEF ExportEnds
  <1> HIDE DEF g
  <1>5. Sound(Settled, store, NoExport, sessions, g)
    <2>1. Sound(Settled, store, export, sessions, g)
      BY <1>1, <1>4, SettledSound
    <2>2. Small(NoExport.header, g)
      <3>1. MaxSessions \in Nat /\ MaxSamples \in Nat /\ g \in Nat
        BY <1>4
      <3>2. 0 <= MaxSessions /\ 0 <= MaxSamples + g
        BY ONLY <3>1
      <3> QED BY <3>2, NoExportTyped DEF Small, NoMeta
    <2>3. Delivers(Settled, store, NoExport)
      BY NoExportTyped DEF Delivers
    <2> QED BY <2>1, <2>2, <2>3, ExportSound
  <1>6. SoundInv'
    BY <1>1, <1>5 DEF SoundInv, g
  <1>7. ASSUME page.meta.session = h.session
        PROVE  export.rest + Sum(chunks, LAMBDA k : k.n) >= h.count
    <2>1. export.rest + Amount(Upto(store, h.chunks)) >= h.count
      BY <1>2, <1>3, <1>7 DEF Delivers
    <2>2. chunks = Upto(store, h.chunks) /\ chunks \in SUBSET store.chunks
      BY DEF Upto
    <2>3. \A k \in store.chunks : k.n \in Nat
      BY <1>2, ChunksTyped
    <2> HIDE DEF chunks
    <2>4. Sum(chunks, LAMBDA k : k.n) = Amount(chunks)
      BY <1>2, <2>2, <2>3, AmountSame
    <2> QED BY <2>1, <2>2, <2>4
  <1>8. ExportWhole'
    <2>1. \/ exported' = [count |-> h.count, got |-> export.rest + Sum(chunks, LAMBDA k : k.n),
                          complete |-> h.stopped /\ ~h.error,
                          replaced |-> page.meta.session # h.session]
          \/ UNCHANGED exported
      BY DEF ExportEnds
    <2>2. CASE UNCHANGED exported
      <3>1. UNCHANGED early
        BY DEF ExportEnds
      <3> QED BY <2>2, <3>1 DEF ExportWhole
    <2> HIDE DEF chunks, h
    <2>3. CASE exported' = [count |-> h.count, got |-> export.rest + Sum(chunks, LAMBDA k : k.n),
                            complete |-> h.stopped /\ ~h.error,
                            replaced |-> page.meta.session # h.session]
      <3>1. /\ exported'.count = h.count /\ exported'.got = export.rest + Sum(chunks, LAMBDA k : k.n)
            /\ exported'.replaced = (page.meta.session # h.session)
        BY <2>3
      <3> QED BY <1>7, <3>1 DEF ExportWhole
    <2> QED BY <2>1, <2>2, <2>3
  <1> QED BY <1>6, <1>8

-----------------------------------------------------------------------------
(* What is stored and delivered, until a session is begun over unsettled   *)
(* chunks                                                                  *)

LEMMA RecorderInit == Init => (SoundInv /\ ExportWhole)
  <1>1. Init => ExportWhole
    BY DEF Init, ExportWhole, NothingExported
  <1> QED BY <1>1, InitSound

\* Once a session was begun over unsettled chunks, it is remembered.
LEMMA EarlyKept ==
  ASSUME [Next]_vars
  PROVE  early' = early \/ (Start /\ early' = (early \/ page.writes # <<>>))
  BY DEF Next, vars, Second, EventStorm, Reload, Open, Toggle, Load, Start, Stop, Stopped,
         MetaRead, StoreCleared, ChunkWritten, Export, ExportReads, ExportEnds

LEMMA EarlyStays == ASSUME [Next]_vars, early PROVE early'
  BY EarlyKept

LEMMA EarlyTyped == Spec => [](early \in BOOLEAN)
  <1>1. Init => early \in BOOLEAN
    BY DEF Init
  <1>2. early \in BOOLEAN /\ [Next]_vars => (early \in BOOLEAN)'
    BY EarlyKept
  <1> QED BY <1>1, <1>2, PTL DEF Spec

LEMMA RecorderStep ==
  ASSUME OrderlyInv, SoundInv, ExportWhole, [Next]_vars, ~early'
  PROVE  SoundInv' /\ ExportWhole'
  <1>17. ~early
    BY EarlyStays
  <1>1. CASE Second
    <2>1. UNCHANGED exported
      BY <1>1 DEF Second
    <2> QED BY <1>1, <1>17, <2>1, SecondSound DEF ExportWhole
  <1>2. CASE EventStorm
    <2>1. UNCHANGED exported
      BY <1>2 DEF EventStorm
    <2> QED BY <1>2, <1>17, <2>1, EventStormSound DEF ExportWhole
  <1>3. CASE Reload
    <2>1. UNCHANGED exported
      BY <1>3 DEF Reload
    <2> QED BY <1>3, <1>17, <2>1, ReloadSound DEF ExportWhole
  <1>4. CASE Open
    <2>1. UNCHANGED exported
      BY <1>4 DEF Open
    <2> QED BY <1>4, <1>17, <2>1, OpenSound DEF ExportWhole
  <1>5. CASE Toggle
    <2>1. UNCHANGED exported
      BY <1>5 DEF Toggle
    <2> QED BY <1>5, <1>17, <2>1, ToggleSound DEF ExportWhole
  <1>6. CASE Load
    <2>1. UNCHANGED exported
      BY <1>6 DEF Load
    <2> QED BY <1>6, <1>17, <2>1, LoadSound DEF ExportWhole
  <1>7. CASE Start
    <2>1. UNCHANGED exported
      BY <1>7 DEF Start
    <2> QED BY <1>7, <1>17, <2>1, StartSound DEF ExportWhole
  <1>8. CASE Stop
    <2>1. UNCHANGED exported
      BY <1>8 DEF Stop
    <2> QED BY <1>8, <1>17, <2>1, StopSound DEF ExportWhole
  <1>9. CASE Stopped
    <2>1. UNCHANGED exported
      BY <1>9 DEF Stopped
    <2> QED BY <1>9, <1>17, <2>1, StoppedSound DEF ExportWhole
  <1>10. CASE MetaRead
    <2>1. UNCHANGED exported
      BY <1>10 DEF MetaRead
    <2> QED BY <1>10, <1>17, <2>1, MetaReadSound DEF ExportWhole
  <1>11. CASE StoreCleared
    <2>1. UNCHANGED exported
      BY <1>11 DEF StoreCleared
    <2> QED BY <1>11, <1>17, <2>1, StoreClearedSound DEF ExportWhole
  <1>12. CASE ChunkWritten
    <2>1. UNCHANGED exported
      BY <1>12 DEF ChunkWritten
    <2> QED BY <1>12, <1>17, <2>1, ChunkWrittenSound DEF ExportWhole
  <1>13. CASE Export
    <2>1. UNCHANGED exported
      BY <1>13 DEF Export
    <2> QED BY <1>13, <1>17, <2>1, ExportStepSound DEF ExportWhole
  <1>14. CASE ExportReads
    <2>1. UNCHANGED exported
      BY <1>14 DEF ExportReads
    <2> QED BY <1>14, <1>17, <2>1, ExportReadsSound DEF ExportWhole
  <1>15. CASE ExportEnds
    BY <1>15, <1>17, ExportEndsSound
  <1>16. CASE UNCHANGED vars
    BY <1>16, <1>17 DEF vars, SoundInv, ExportWhole
  <1> QED BY <1>1, <1>2, <1>3, <1>4, <1>5, <1>6, <1>7, <1>8, <1>9, <1>10, <1>11, <1>12,
             <1>13, <1>14, <1>15, <1>16 DEF Next

\* The inductive invariant: the queues of the page follow on from what the
\* stored description tells, and samples are only where they are counted, until
\* start() begins a session over chunks that have not settled.
THEOREM RecorderInvariant == Spec => [](early \/ IInv)
  <1> DEFINE Safe == early \/ (SoundInv /\ ExportWhole)
  <1>1. Init => Safe
    BY RecorderInit
  <1>2. OrderlyInv /\ Safe /\ [Next]_vars => Safe'
    BY EarlyStays, RecorderStep
  <1>3. OrderlyInv /\ Safe => (early \/ IInv)
    BY InvariantParts DEF SoundInv
  <1>4. Spec => []OrderlyInv
    BY RecorderOrderly
  <1> QED BY <1>1, <1>2, <1>3, <1>4, PTL DEF Spec

\* Whatever breaks off between two steps (a reload, a crash, a transaction that
\* aborts), the stored description counts the chunks and the samples that are
\* stored, and no chunk is missing between the first and the last, until start()
\* begins a session over chunks that have not settled.
THEOREM StoreIsWhole == Spec => []StoreWhole
  <1>1. (early \/ IInv) => StoreWhole
    BY DEF IInv, StoreWhole
  <1>2. Spec => [](early \/ IInv)
    BY RecorderInvariant
  <1> QED BY <1>1, <1>2, PTL

\* A new recording replaces the previous one: chunks of two sessions are never
\* stored side by side, until start() begins a session over chunks of the one
\* before that have not settled.
THEOREM RecordingReplaces == Spec => [](early \/ ReplacesPrevious)
  <1>1. (early \/ IInv) => (early \/ ReplacesPrevious)
    BY DEF IInv
  <1>2. Spec => [](early \/ IInv)
    BY RecorderInvariant
  <1> QED BY <1>1, <1>2, PTL

\* Every sample that the session counts is stored, on its way to the store, kept
\* aside or in the batch, whatever fails to be written, until start() begins a
\* session over chunks that have not settled.
THEOREM SamplesAreKept == Spec => []NoSampleLost
  <1>1. (early \/ IInv) => NoSampleLost
    BY DEF IInv, NoSampleLost
  <1>2. Spec => [](early \/ IInv)
    BY RecorderInvariant
  <1> QED BY <1>1, <1>2, PTL

\* An export that no other session overtook has at least the samples that its
\* description counts, although it is read in several transactions while the
\* recording goes on and writes may fail, until start() begins a session over
\* chunks that have not settled.
THEOREM ExportsAreWhole == Spec => []ExportWhole
  <1>1. (early \/ IInv) => ExportWhole
    BY DEF IInv, ExportWhole
  <1>2. Spec => [](early \/ IInv)
    BY RecorderInvariant
  <1> QED BY <1>1, <1>2, PTL

LEMMA SmallMeta ==
  ASSUME NEW m \in Described, NEW f \in Nat, f <= MaxFaults, Small(m, f) PROVE m \in Metas
  <1>1. m.session \in Numbers /\ m.count \in Sizes /\ m.chunks \in Sizes
    BY DEF Small, Numbers, Sizes, Described
  <1> QED BY <1>1 DEF Described, Metas

\* The state of the recorder has its type; the bounds hold of what was sampled
\* before and after faults, and of the chunks in memory, until start() begins a
\* session over chunks that have not settled.
THEOREM RecorderTypes == Spec => [](early \/ TypeOK)
  <1>1. early \in BOOLEAN /\ (early \/ IInv) => (early \/ TypeOK)
    <2> SUFFICES ASSUME IInv, early \in BOOLEAN PROVE TypeOK
      OBVIOUS
    <2>1. /\ Orderly(page, store, export, sessions) /\ faults \in Nat /\ IsFiniteSet(store.chunks)
          /\ Bounded(page, store, export, sessions, faults) /\ Settling(page, store, sessions)
      BY DEF IInv, OrderlyInv
    <2>2. /\ page \in Pages /\ store \in Stores /\ export \in Exports /\ sessions \in Nat
          /\ page.meta \in Described /\ store.meta \in Described /\ export.header \in Described
          /\ page.batch \in Nat
          /\ \A i \in DOMAIN page.writes : page.writes[i] \in Batches
          /\ \A i \in DOMAIN page.failed : page.failed[i] \in Batches
          /\ Lined(page)
      BY <2>1, Typed DEF Orderly
    <2>3. /\ sessions <= MaxSessions /\ faults <= MaxFaults
          /\ Small(page.meta, faults) /\ Small(store.meta, faults) /\ Small(export.header, faults)
          /\ page.batch <= MaxSamples + faults
      BY <2>1 DEF Bounded
    <2>4. page.meta \in Metas /\ store.meta \in Metas /\ export.header \in Metas
      BY <2>1, <2>2, <2>3, SmallMeta
    <2>5. ASSUME NEW c \in Batches, Small(c.meta, faults), c.n <= MaxSamples + faults PROVE c \in Chunks
      <3>1. c.meta \in Metas /\ c.n \in Nat \ {0}
        BY <2>1, <2>3, <2>5, SmallMeta DEF Batches
      <3>2. c.n \in Sizes \ {0}
        BY <2>1, <2>3, <2>5, <3>1 DEF Sizes
      <3> QED BY <3>1, <3>2 DEF Batches, Chunks
    <2>6. Range(page.writes) \cup Range(page.failed) \subseteq Chunks
      <3>1. \A i \in DOMAIN page.writes : page.writes[i] \in Chunks
        BY <2>1, <2>2, <2>5 DEF Bounded
      <3>2. \A i \in DOMAIN page.failed : page.failed[i] \in Chunks
        BY <2>1, <2>2, <2>5 DEF Bounded
      <3> QED BY <3>1, <3>2 DEF Range
    <2>7. page.batch \in Sizes
      BY <2>1, <2>2, <2>3 DEF Sizes
    <2>8. DOMAIN page = DOMAIN Loaded(FALSE, FALSE)
      BY <2>2 DEF Pages, Loaded
    <2>9. {page.open, page.active, page.flag, page.saved} \subseteq BOOLEAN
      BY <2>2 DEF Pages
    <2>10. Range(page.life) \subseteq {"load", "start", "stop"}
      BY <2>2 DEF Pages, Range
    <2>11. page.busy \in {"no", "resume", "view", "clear", "flush"}
      BY <2>2 DEF Pages
    <2>12. page.busy # "no" => page.life # <<>>
      BY <2>2, LifeTails DEF Lined
    <2>13. early \in BOOLEAN /\ (early \/ Len(page.writes) <= Backlog)
      BY <2>1 DEF Settling
    <2>14. export.stage \in {"none", "waits", "reads"}
      BY <2>2 DEF Exports
    <2>15. sessions \in Numbers /\ faults \in 0..MaxFaults
      BY <2>1, <2>2, <2>3 DEF Numbers
    <2> QED BY <2>1, <2>4, <2>6, <2>7, <2>8, <2>9, <2>10, <2>11, <2>12, <2>13, <2>14, <2>15 DEF TypeOK
  <1>2. Spec => [](early \/ IInv)
    BY RecorderInvariant
  <1>3. Spec => [](early \in BOOLEAN)
    BY EarlyTyped
  <1> QED BY <1>1, <1>2, <1>3, PTL

=============================================================================
