------------------------ MODULE PlaybackTraceProofs ------------------------
(***************************************************************************)
(* Proofs about the session recorder.                                      *)
(***************************************************************************)
EXTENDS PlaybackTrace, SumTheorems, FiniteSetTheorems, SequenceTheorems, TLAPS

USE PlaybackTraceAssumption

-----------------------------------------------------------------------------
(* Sequences *)

LEMMA AppendElements ==
  ASSUME NEW T, NEW q \in Seq(T), NEW c \in T
  PROVE  /\ Append(q, c) \in Seq(T) /\ Append(q, c) # <<>> /\ Len(Append(q, c)) = Len(q) + 1
         /\ DOMAIN q = 1..Len(q) /\ DOMAIN Append(q, c) = 1..(Len(q) + 1)
         /\ \A i \in 1..Len(q) : Append(q, c)[i] = q[i]
         /\ Append(q, c)[Len(q) + 1] = c
         /\ q # <<>> => Head(Append(q, c)) = Head(q)
         /\ \A i \in DOMAIN Append(q, c) :
              (i \in DOMAIN q /\ Append(q, c)[i] = q[i]) \/ (i = Len(q) + 1 /\ Append(q, c)[i] = c)
  <1>1. q # <<>> => (1 \in 1..Len(q) /\ Head(q) = q[1])
    OBVIOUS
  <1>2. Len(q) \in Nat /\ Append(q, c) \in Seq(T) /\ Len(Append(q, c)) = Len(q) + 1
    OBVIOUS
  <1>3. Append(q, c) # <<>> /\ Head(Append(q, c)) = Append(q, c)[1]
    BY <1>2
  <1> QED BY <1>1, <1>2, <1>3

LEMMA TailElements ==
  ASSUME NEW T, NEW q \in Seq(T), q # <<>>
  PROVE  /\ Tail(q) \in Seq(T) /\ Len(Tail(q)) = Len(q) - 1 /\ Len(q) \in Nat \ {0}
         /\ DOMAIN q = 1..Len(q) /\ DOMAIN Tail(q) = 1..(Len(q) - 1)
         /\ 1 \in DOMAIN q /\ Head(q) = q[1] /\ Head(q) \in T
         /\ \A i \in 1..(Len(q) - 1) : i + 1 \in DOMAIN q /\ Tail(q)[i] = q[i + 1]
  OBVIOUS

LEMMA OneElement ==
  ASSUME NEW c
  PROVE  <<c>> # <<>> /\ Head(<<c>>) = c /\ DOMAIN <<c>> = {1} /\ <<c>>[1] = c /\ Len(<<c>>) = 1
  OBVIOUS

LEMMA AppendToOne ==
  ASSUME NEW c, NEW d
  PROVE  Append(<<c>>, d) = <<c, d>>
  <1> DEFINE T == {c, d}
             q == <<c>>
             r == <<c, d>>
             a == Append(q, d)
  <1>1. q \in Seq(T) /\ Len(q) = 1 /\ q[1] = c
    OBVIOUS
  <1>2. r \in Seq(T) /\ Len(r) = 2 /\ r[1] = c /\ r[2] = d
    OBVIOUS
  <1>3. d \in T
    OBVIOUS
  <1> HIDE DEF T, q, r
  <1>4. a \in Seq(T) /\ Len(a) = 2 /\ a[1] = c /\ a[2] = d
    <2>1. a \in Seq(T) /\ Len(a) = Len(q) + 1 /\ a[Len(q) + 1] = d
          /\ \A i \in 1..Len(q) : a[i] = q[i]
      <3>1. q \in Seq(T)
        BY <1>1
      <3> QED BY ONLY <1>3, <3>1, AppendProperties
    <2>2. Len(q) + 1 = 2 /\ 1 \in 1..Len(q)
      BY <1>1
    <2> HIDE DEF a
    <2> QED BY <1>1, <2>1, <2>2
  <1> HIDE DEF a
  <1>5. ASSUME NEW i \in 1..Len(a) PROVE a[i] = r[i]
    <2>1. i = 1 \/ i = 2
      BY <1>4
    <2> QED BY <1>2, <1>4, <2>1
  <1>6. a = r
    BY <1>2, <1>4, <1>5, SeqEqual
  <1> QED BY <1>6 DEF a, q, r

-----------------------------------------------------------------------------
(* What the operations on a page change *)

LEMMA NoChunkTyped == Transaction("read", NoChunk) \in Transactions /\ Transaction("clear", NoChunk) \in Transactions /\ Transaction("export", NoChunk) \in Transactions
  BY DEF Transaction, Transactions

LEMMA NoMetaTyped == NoMeta \in Described
  BY DEF NoMeta, Described

LEMMA SameDescription ==
  ASSUME NEW m \in Described, NEW k \in Described, m.session = k.session, m.count = k.count,
         m.chunks = k.chunks, m.stopped = k.stopped, m.error = k.error
  PROVE  m = k
  BY DEF Described

\* sample() counts one more while the session is recorded.
LEMMA SampledFields ==
  ASSUME NEW p \in Pages
  PROVE  LET r == Sampled(p)
         IN /\ r \in Pages
            /\ r.open = p.open /\ r.active = p.active /\ r.writes = p.writes
            /\ r.failed = p.failed /\ r.db = p.db /\ r.life = p.life /\ r.busy = p.busy
            /\ r.flag = p.flag /\ r.saved = p.saved
            /\ r.meta.session = p.meta.session /\ r.meta.chunks = p.meta.chunks
            /\ r.meta.stopped = p.meta.stopped /\ r.meta.error = p.meta.error
            /\ r.batch = p.batch + (IF p.active THEN 1 ELSE 0)
            /\ r.meta.count = p.meta.count + (IF p.active THEN 1 ELSE 0)
  <1>1. CASE p.active
    <2>1. Sampled(p) \in Pages
      <3> DEFINE m == [p.meta EXCEPT !.count = @ + 1]
      <3>1. p.meta \in Described /\ p.batch + 1 \in Nat
        BY DEF Pages
      <3>2. m \in Described
        BY <3>1 DEF Described
      <3>3. Sampled(p) = [p EXCEPT !.batch = p.batch + 1, !.meta = m]
        BY <1>1 DEF Sampled
      <3> HIDE DEF m
      <3> QED BY <3>1, <3>2, <3>3 DEF Pages
    <2> QED BY <1>1, <2>1 DEF Sampled, Pages, Described
  <1>2. CASE ~p.active
    BY <1>2 DEF Sampled, Pages, Described
  <1> QED BY <1>1, <1>2

\* fail() ends the recording.
LEMMA FailedFields ==
  ASSUME NEW p \in Pages
  PROVE  LET r == Failed(p)
         IN /\ r \in Pages
            /\ r.open = p.open /\ r.active = FALSE /\ r.writes = p.writes
            /\ r.failed = p.failed /\ r.db = p.db /\ r.life = p.life /\ r.busy = p.busy
            /\ r.flag = FALSE /\ r.saved = p.saved /\ r.batch = p.batch
            /\ r.meta.session = p.meta.session /\ r.meta.chunks = p.meta.chunks
            /\ r.meta.count = p.meta.count
            /\ r.meta.stopped = p.meta.stopped /\ r.meta.error = (p.meta.session # 0)
  BY DEF Failed, Pages, Described

\* A chunk is appended to the chain, or kept aside, or written at once.
LEMMA ChainedFields ==
  ASSUME NEW p \in Pages, NEW c \in Batches
  PROVE  LET r == Chained(p, c)
         IN /\ r \in Pages
            /\ r.open = p.open /\ r.active = p.active /\ r.meta = p.meta /\ r.batch = p.batch
            /\ r.life = p.life /\ r.busy = p.busy /\ r.flag = p.flag /\ r.saved = p.saved
            /\ p.writes # <<>> =>
                 r.writes = Append(p.writes, c) /\ r.failed = p.failed /\ r.db = p.db
            /\ (p.writes = <<>> /\ p.failed # <<>>) =>
                 r.writes = <<>> /\ r.failed = Append(p.failed, c) /\ r.db = p.db
            /\ (p.writes = <<>> /\ p.failed = <<>>) =>
                 /\ r.writes = <<c>> /\ r.failed = <<>>
                 /\ r.db = Append(p.db, Transaction("write", c))
  <1>1. Append(p.writes, c) \in Seq(Batches) /\ Append(p.failed, c) \in Seq(Batches)
        /\ <<c>> \in Seq(Batches)
    BY DEF Pages
  <1>2. Append(p.db, Transaction("write", c)) \in Seq(Transactions)
    BY DEF Pages, Transaction, Transactions
  <1>3. CASE p.writes # <<>>
    <2>1. Chained(p, c) = [p EXCEPT !.writes = Append(p.writes, c)]
      BY <1>3 DEF Chained
    <2> QED BY <1>1, <1>3, <2>1 DEF Pages
  <1>4. CASE p.writes = <<>> /\ p.failed # <<>>
    <2>1. Chained(p, c) = [p EXCEPT !.failed = Append(p.failed, c)]
      BY <1>4 DEF Chained
    <2> QED BY <1>1, <1>4, <2>1 DEF Pages
  <1>5. CASE p.writes = <<>> /\ p.failed = <<>>
    <2>1. Chained(p, c) = [p EXCEPT !.writes = <<c>>, !.db = Append(p.db, Transaction("write", c))]
      BY <1>5 DEF Chained
    <2> QED BY <1>1, <1>2, <1>5, <2>1 DEF Pages
  <1> QED BY <1>3, <1>4, <1>5

\* The chunk that the batch becomes, and whether it is one too many.
NewChunk(p) == [n |-> p.batch, meta |-> [p.meta EXCEPT !.chunks = @ + 1]]
Overfull(p) == Len(p.writes) + 1 >= Backlog

LEMMA NewChunkFields ==
  ASSUME NEW p \in Pages, p.batch # 0
  PROVE  LET c == NewChunk(p)
         IN /\ c \in Batches /\ c.n = p.batch /\ c.meta \in Described
            /\ c.meta.session = p.meta.session /\ c.meta.count = p.meta.count
            /\ c.meta.chunks = p.meta.chunks + 1
            /\ c.meta.stopped = p.meta.stopped /\ c.meta.error = p.meta.error
  <1>1. p.meta \in Described /\ p.batch \in Nat \ {0}
    BY DEF Pages
  <1> DEFINE m == [p.meta EXCEPT !.chunks = @ + 1]
  <1>2. m \in Described
    BY <1>1 DEF Described
  <1>3. /\ m.session = p.meta.session /\ m.count = p.meta.count /\ m.chunks = p.meta.chunks + 1
        /\ m.stopped = p.meta.stopped /\ m.error = p.meta.error
    BY <1>1 DEF Described
  <1>4. NewChunk(p) = [n |-> p.batch, meta |-> m]
    BY DEF NewChunk
  <1> HIDE DEF m
  <1> QED BY <1>1, <1>2, <1>3, <1>4 DEF Batches

LEMMA FlushedEmpty == ASSUME NEW p \in Pages, p.batch = 0 PROVE Flushed(p) = p
  BY DEF Flushed

\* flush() empties the batch and numbers the chunk.
LEMMA FlushedFields ==
  ASSUME NEW p \in Pages, p.batch # 0
  PROVE  LET r == Flushed(p)
             c == NewChunk(p)
         IN /\ r \in Pages
            /\ r.open = p.open /\ r.batch = 0 /\ r.life = p.life /\ r.busy = p.busy /\ r.saved = p.saved
            /\ r.active = (p.active /\ ~Overfull(p)) /\ r.flag = (p.flag /\ ~Overfull(p))
            /\ r.meta.session = p.meta.session /\ r.meta.count = p.meta.count
            /\ r.meta.chunks = p.meta.chunks + 1 /\ r.meta.stopped = p.meta.stopped
            /\ r.meta.error = (IF Overfull(p) THEN p.meta.session # 0 ELSE p.meta.error)
            /\ p.writes # <<>> =>
                 r.writes = Append(p.writes, c) /\ r.failed = p.failed /\ r.db = p.db
            /\ (p.writes = <<>> /\ p.failed # <<>>) =>
                 r.writes = <<>> /\ r.failed = Append(p.failed, c) /\ r.db = p.db
            /\ (p.writes = <<>> /\ p.failed = <<>>) =>
                 /\ r.writes = <<c>> /\ r.failed = <<>>
                 /\ r.db = Append(p.db, Transaction("write", c))
  <1> DEFINE c == NewChunk(p)
             s == [p EXCEPT !.batch = 0, !.meta = c.meta]
             q == Chained(s, c)
  <1>1. /\ c \in Batches /\ c.meta \in Described
        /\ c.meta.session = p.meta.session /\ c.meta.count = p.meta.count
        /\ c.meta.chunks = p.meta.chunks + 1
        /\ c.meta.stopped = p.meta.stopped /\ c.meta.error = p.meta.error
    BY NewChunkFields
  <1>2. Flushed(p) = IF Overfull(p) THEN Failed(q) ELSE q
    BY DEF Flushed, NewChunk, Overfull
  <1> HIDE DEF c
  <1>3. /\ s \in Pages /\ s.open = p.open /\ s.active = p.active /\ s.meta = c.meta /\ s.batch = 0
        /\ s.writes = p.writes /\ s.failed = p.failed /\ s.db = p.db /\ s.life = p.life
        /\ s.busy = p.busy /\ s.flag = p.flag /\ s.saved = p.saved
    BY <1>1 DEF Pages
  <1> HIDE DEF s
  <1>4. /\ q \in Pages
        /\ q.open = p.open /\ q.active = p.active /\ q.meta = c.meta /\ q.batch = 0
        /\ q.life = p.life /\ q.busy = p.busy /\ q.flag = p.flag /\ q.saved = p.saved
        /\ p.writes # <<>> =>
             q.writes = Append(p.writes, c) /\ q.failed = p.failed /\ q.db = p.db
        /\ (p.writes = <<>> /\ p.failed # <<>>) =>
             q.writes = <<>> /\ q.failed = Append(p.failed, c) /\ q.db = p.db
        /\ (p.writes = <<>> /\ p.failed = <<>>) =>
             /\ q.writes = <<c>> /\ q.failed = <<>>
             /\ q.db = Append(p.db, Transaction("write", c))
    <2>1. s \in Pages /\ c \in Batches
      BY <1>1, <1>3
    <2> HIDE DEF q
    <2> QED BY <1>3, <2>1, ChainedFields DEF q
  <1> HIDE DEF q
  <1>5. CASE Overfull(p)
    <2> DEFINE r == Failed(q)
    <2>1. /\ r \in Pages
          /\ r.open = q.open /\ r.active = FALSE /\ r.writes = q.writes
          /\ r.failed = q.failed /\ r.db = q.db /\ r.life = q.life /\ r.busy = q.busy
          /\ r.flag = FALSE /\ r.saved = q.saved /\ r.batch = q.batch
          /\ r.meta.session = q.meta.session /\ r.meta.chunks = q.meta.chunks
          /\ r.meta.count = q.meta.count
          /\ r.meta.stopped = q.meta.stopped /\ r.meta.error = (q.meta.session # 0)
      BY <1>4, FailedFields
    <2>2. Flushed(p) = r
      BY <1>2, <1>5
    <2> HIDE DEF r
    <2>3. /\ r.active = (p.active /\ ~Overfull(p)) /\ r.flag = (p.flag /\ ~Overfull(p))
      BY <1>5, <2>1
    <2>4. r.meta.error = (IF Overfull(p) THEN p.meta.session # 0 ELSE p.meta.error)
      BY <1>1, <1>4, <1>5, <2>1
    <2>5. r.meta.stopped = p.meta.stopped
      BY <1>1, <1>4, <2>1
    <2>6. r.open = p.open /\ r.saved = p.saved
      BY <1>4, <2>1
    <2> QED BY <1>1, <1>4, <2>1, <2>2, <2>3, <2>4, <2>5, <2>6 DEF c
  <1>6. CASE ~Overfull(p)
    <2>1. Flushed(p) = q
      BY <1>2, <1>6
    <2>2. /\ q.active = (p.active /\ ~Overfull(p)) /\ q.flag = (p.flag /\ ~Overfull(p))
      BY <1>4, <1>6, <1>3 DEF Pages
    <2>3. q.meta.error = (IF Overfull(p) THEN p.meta.session # 0 ELSE p.meta.error)
      BY <1>1, <1>4, <1>6
    <2>4. q.meta.stopped = p.meta.stopped
      BY <1>1, <1>4
    <2> QED BY <1>1, <1>4, <2>1, <2>2, <2>3, <2>4 DEF c
  <1> QED BY <1>5, <1>6

-----------------------------------------------------------------------------
(* Transactions are added at the end and settle at the front *)

LEMMA MatchedAppend ==
  ASSUME NEW p \in Pages, NEW r, NEW x, NEW y, NEW t \in Transactions, Matched(p, x),
         r.db = Append(p.db, t), Awaited(t, r, y),
         \A i \in DOMAIN p.db : Awaited(p.db[i], r, y) /\ p.db[i].kind # t.kind
  PROVE  Matched(r, y)
  <1>1. p.db \in Seq(Transactions) /\ DOMAIN r.db = 1..(Len(p.db) + 1) /\ DOMAIN p.db = 1..Len(p.db)
        /\ r.db[Len(p.db) + 1] = t /\ \A i \in DOMAIN p.db : r.db[i] = p.db[i]
    BY DEF Pages
  <1> SUFFICES ASSUME NEW i \in DOMAIN r.db
               PROVE  Awaited(r.db[i], r, y) /\ (\A j \in DOMAIN r.db : r.db[i].kind = r.db[j].kind => i = j)
    BY DEF Matched
  <1>2. Awaited(r.db[i], r, y)
    BY <1>1
  <1>3. ASSUME NEW j \in DOMAIN r.db, r.db[i].kind = r.db[j].kind PROVE i = j
    <2>1. CASE i \in DOMAIN p.db /\ j \in DOMAIN p.db
      BY <1>1, <1>3, <2>1 DEF Matched
    <2>2. CASE i \notin DOMAIN p.db \/ j \notin DOMAIN p.db
      BY <1>1, <1>3, <2>2
    <2> QED BY <2>1, <2>2
  <1> QED BY <1>2, <1>3

LEMMA MatchedTail ==
  ASSUME NEW p \in Pages, NEW r, NEW x, NEW y, Matched(p, x), p.db # <<>>, r.db = Tail(p.db),
         \A i \in DOMAIN p.db : p.db[i].kind # Head(p.db).kind => Awaited(p.db[i], r, y)
  PROVE  Matched(r, y) /\ \A i \in DOMAIN r.db : r.db[i].kind # Head(p.db).kind
  <1>1. /\ p.db \in Seq(Transactions) /\ DOMAIN p.db = 1..Len(p.db) /\ Head(p.db) = p.db[1]
        /\ 1 \in DOMAIN p.db
        /\ DOMAIN r.db = 1..(Len(p.db) - 1)
        /\ \A i \in DOMAIN r.db : i + 1 \in DOMAIN p.db /\ r.db[i] = p.db[i + 1]
    BY DEF Pages
  <1>2. ASSUME NEW i \in DOMAIN r.db PROVE r.db[i].kind # Head(p.db).kind /\ Awaited(r.db[i], r, y)
    <2>1. i + 1 # 1
      BY <1>1
    <2> QED BY <1>1, <2>1 DEF Matched
  <1>3. ASSUME NEW i \in DOMAIN r.db, NEW j \in DOMAIN r.db, r.db[i].kind = r.db[j].kind PROVE i = j
    <2>1. i + 1 = j + 1
      BY <1>1, <1>3 DEF Matched
    <2> QED BY <1>1, <2>1
  <1> QED BY <1>2, <1>3 DEF Matched

LEMMA MatchedSame ==
  ASSUME NEW p \in Pages, NEW r, NEW x, NEW y, Matched(p, x), r.db = p.db,
         \A i \in DOMAIN p.db : Awaited(p.db[i], r, y)
  PROVE  Matched(r, y)
  BY DEF Matched

-----------------------------------------------------------------------------
(* The order is kept *)

LEMMA SampledOrderly ==
  ASSUME NEW p, NEW st, NEW x, NEW ss, Orderly(p, st, x, ss)
  PROVE  Orderly(Sampled(p), st, x, ss)
  <1> DEFINE r == Sampled(p)
  <1>1. p \in Pages /\ Matched(p, x) /\ Lined(p) /\ Untouched(p, x) /\ Numbered(p, st, x, ss) /\ Visible(p)
    BY DEF Orderly
  <1>2. /\ r \in Pages
        /\ r.open = p.open /\ r.active = p.active /\ r.writes = p.writes
        /\ r.failed = p.failed /\ r.db = p.db /\ r.life = p.life /\ r.busy = p.busy
        /\ r.flag = p.flag /\ r.saved = p.saved
        /\ r.meta.session = p.meta.session /\ r.meta.chunks = p.meta.chunks
        /\ r.meta.stopped = p.meta.stopped /\ r.meta.error = p.meta.error
        /\ r.batch = p.batch + (IF p.active THEN 1 ELSE 0)
        /\ r.meta.count = p.meta.count + (IF p.active THEN 1 ELSE 0)
    BY <1>1, SampledFields
  <1>3. ~p.active => r = p
    BY DEF Sampled
  <1> HIDE DEF r
  <1>4. Matched(r, x)
    BY <1>1, <1>2, MatchedSame DEF Matched, Awaited
  <1>5. Lined(r)
    BY <1>1, <1>2 DEF Lined
  <1>6. Loads(p) => ~p.active
    BY <1>1 DEF Loads, Lined
  <1>7. Untouched(r, x)
    BY <1>1, <1>2, <1>3, <1>6 DEF Untouched, Loads
  <1>8. Numbered(r, st, x, ss)
    BY <1>1, <1>2, <1>3 DEF Numbered
  <1>9. Visible(r)
    BY <1>1, <1>2, <1>3 DEF Visible
  <1> QED BY <1>2, <1>4, <1>5, <1>7, <1>8, <1>9 DEF Orderly, r

\* A flush while a new session is awaited cannot happen; it could give a chunk
\* of the former session the number of the new one.
LEMMA FlushedOrderly ==
  ASSUME NEW p, NEW st, NEW x, NEW ss, Orderly(p, st, x, ss), p.busy # "clear",
         p.active => p.life = <<>>
  PROVE  Orderly(Flushed(p), st, x, ss)
  <1>1. p \in Pages /\ Matched(p, x) /\ Lined(p) /\ Untouched(p, x) /\ Numbered(p, st, x, ss) /\ Visible(p)
        /\ ss \in Nat
    BY DEF Orderly
  <1>2. CASE p.batch = 0
    BY <1>1, <1>2, FlushedEmpty
  <1>3. CASE p.batch # 0
    <2> DEFINE r == Flushed(p)
               c == NewChunk(p)
    <2>1. /\ r \in Pages
          /\ r.open = p.open /\ r.batch = 0 /\ r.life = p.life /\ r.busy = p.busy /\ r.saved = p.saved
          /\ r.active = (p.active /\ ~Overfull(p)) /\ r.flag = (p.flag /\ ~Overfull(p))
          /\ r.meta.session = p.meta.session /\ r.meta.count = p.meta.count
          /\ r.meta.chunks = p.meta.chunks + 1 /\ r.meta.stopped = p.meta.stopped
          /\ r.meta.error = (IF Overfull(p) THEN p.meta.session # 0 ELSE p.meta.error)
          /\ p.writes # <<>> =>
               r.writes = Append(p.writes, c) /\ r.failed = p.failed /\ r.db = p.db
          /\ (p.writes = <<>> /\ p.failed # <<>>) =>
               r.writes = <<>> /\ r.failed = Append(p.failed, c) /\ r.db = p.db
          /\ (p.writes = <<>> /\ p.failed = <<>>) =>
               /\ r.writes = <<c>> /\ r.failed = <<>>
               /\ r.db = Append(p.db, Transaction("write", c))
      BY <1>1, <1>3, FlushedFields
    <2>2. c \in Batches /\ c.meta.session = p.meta.session
      BY <1>1, <1>3, NewChunkFields
    <2>3. c.meta.session \in 1..ss
      <3>1. p.batch > 0 /\ p.meta.session \in Nat
        BY <1>1, <1>3 DEF Pages, Described
      <3> QED BY <1>1, <2>2, <3>1 DEF Numbered
    <2>4. p.writes \in Seq(Batches) /\ p.failed \in Seq(Batches)
      BY <1>1 DEF Pages
    <2> HIDE DEF r, c
    <2>5. Matched(r, x)
      <3>1. CASE p.writes # <<>>
        <4>1. r.writes # <<>> /\ Head(r.writes) = Head(p.writes)
          <5>1. r.writes = Append(p.writes, c)
            BY <2>1, <3>1
          <5> QED BY <2>2, <2>4, <3>1, <5>1, AppendElements
        <4>2. \A i \in DOMAIN p.db : Awaited(p.db[i], r, x)
          BY <1>1, <2>1, <4>1 DEF Matched, Awaited
        <4> QED BY <1>1, <2>1, <3>1, <4>2, MatchedSame
      <3>2. CASE p.writes = <<>> /\ p.failed # <<>>
        <4>1. \A i \in DOMAIN p.db : Awaited(p.db[i], r, x)
          BY <1>1, <2>1, <3>2 DEF Matched, Awaited
        <4> QED BY <1>1, <2>1, <3>2, <4>1, MatchedSame
      <3>3. CASE p.writes = <<>> /\ p.failed = <<>>
        <4> DEFINE t == Transaction("write", c)
        <4>1. t \in Transactions /\ t.kind = "write" /\ t.chunk = c
          BY <2>2 DEF Transaction, Transactions
        <4>2. Awaited(t, r, x)
          BY <2>1, <2>2, <3>3, <4>1, OneElement DEF Awaited
        <4>3. \A i \in DOMAIN p.db : Awaited(p.db[i], r, x) /\ p.db[i].kind # t.kind
          BY <1>1, <2>1, <3>3, <4>1 DEF Matched, Awaited
        <4> HIDE DEF t
        <4>4. r.db = Append(p.db, t)
          BY <2>1, <3>3 DEF t
        <4> QED BY <1>1, <4>1, <4>2, <4>3, <4>4, MatchedAppend
      <3> QED BY <3>1, <3>2, <3>3
    <2>6. Lined(r)
      <3>1. p.active => (p.life # <<"stop">> /\ p.life # <<"start">> /\ p.life # <<"load">>)
        BY OneElement
      <3>2. r.active => p.active
        BY <2>1
      <3>4. p.life = <<"load">> => p.batch = 0
        BY <1>1, OneElement DEF Untouched, Loads
      <3> QED BY <1>1, <1>3, <2>1, <3>1, <3>2, <3>4 DEF Lined
    <2>7. Untouched(r, x)
      <3>1. ~Loads(p) /\ p.open
        <4>1. ~p.open => Loads(p)
          BY <1>1, OneElement DEF Untouched, Loads
        <4> QED BY <1>1, <1>3, <4>1 DEF Untouched
      <3>2. ~Loads(r) /\ r.open
        BY <2>1, <3>1 DEF Loads
      <3> QED BY <3>2 DEF Untouched
    <2>8. Numbered(r, st, x, ss)
      <3>1. ASSUME NEW i \in DOMAIN r.writes PROVE r.writes[i].meta.session \in 1..ss
        <4>1. CASE p.writes # <<>>
          <5>1. r.writes = Append(p.writes, c)
            BY <2>1, <4>1
          <5>2. (i \in DOMAIN p.writes /\ r.writes[i] = p.writes[i]) \/ r.writes[i] = c
            BY <2>2, <2>4, <5>1, AppendElements
          <5> QED BY <1>1, <2>3, <5>2 DEF Numbered
        <4>2. CASE p.writes = <<>>
          BY <2>1, <2>3, <4>2, OneElement
        <4> QED BY <4>1, <4>2
      <3>2. ASSUME NEW i \in DOMAIN r.failed PROVE r.failed[i].meta.session \in 1..ss
        <4>1. CASE p.writes = <<>> /\ p.failed # <<>>
          <5>1. r.failed = Append(p.failed, c)
            BY <2>1, <4>1
          <5>2. (i \in DOMAIN p.failed /\ r.failed[i] = p.failed[i]) \/ r.failed[i] = c
            BY <2>2, <2>4, <5>1, AppendElements
          <5> QED BY <1>1, <2>3, <5>2 DEF Numbered
        <4>2. CASE p.writes # <<>> \/ p.failed = <<>>
          <5>1. r.failed = p.failed
            BY <2>1, <4>2
          <5> QED BY <1>1, <5>1 DEF Numbered
        <4> QED BY <4>1, <4>2
      <3>3. p.meta.session # 0 /\ r.meta.session = p.meta.session
        BY <2>1, <2>2, <2>3
      <3> QED BY <1>1, <2>1, <3>1, <3>2, <3>3 DEF Numbered
    <2>9. Visible(r)
      <3>1. p.meta.session # 0 => p.meta.error \in BOOLEAN
        BY <1>1 DEF Pages, Described
      <3>2. r.failed # <<>> => (r.writes = <<>> /\ ~r.active /\ p.writes = <<>> /\ p.failed # <<>>)
        BY <1>1, <2>1 DEF Visible
      <3>3. r.failed # <<>> => r.meta.error
        <4>1. p.batch > 0 /\ p.meta.session # 0
          BY <1>1, <1>3 DEF Numbered, Pages
        <4>2. p.failed # <<>> => p.meta.error
          BY <1>1, <4>1 DEF Visible
        <4> QED BY <2>1, <3>2, <4>1, <4>2
      <3>4. ASSUME NEW i \in DOMAIN r.failed PROVE r.failed # <<>>
        OBVIOUS
      <3> QED BY <2>1, <3>2, <3>3, <3>4 DEF Visible
    <2> QED BY <2>1, <2>5, <2>6, <2>7, <2>8, <2>9 DEF Orderly, r
  <1> QED BY <1>2, <1>3

\* What runs outside the queue of operations finds it empty while a session is recorded.
LEMMA ActiveIdle ==
  ASSUME NEW p, NEW st, NEW x, NEW ss, Orderly(p, st, x, ss), p.active,
         ~(p.open /\ p.busy = "no" /\ p.life # <<>>)
  PROVE  p.open /\ p.busy = "no" /\ p.life = <<>> /\ ~Loads(p)
  <1>1. Lined(p) /\ Untouched(p, x)
    BY DEF Orderly
  <1>2. p.busy = "no" /\ (p.life = <<>> \/ p.life = <<"stop">>)
    BY <1>1 DEF Lined
  <1>3. p.open
    BY <1>1, <1>2, OneElement DEF Untouched
  <1>4. p.life = <<>>
    BY <1>2, <1>3
  <1> QED BY <1>2, <1>3, <1>4 DEF Loads

LEMMA FailedOrderly ==
  ASSUME NEW p, NEW st, NEW x, NEW ss, Orderly(p, st, x, ss), p.active => p.life = <<>>
  PROVE  Orderly(Failed(p), st, x, ss) /\ (p.meta.session # 0 => Failed(p).meta.error)
  <1> DEFINE r == Failed(p)
  <1>1. p \in Pages /\ Matched(p, x) /\ Lined(p) /\ Untouched(p, x) /\ Numbered(p, st, x, ss) /\ Visible(p)
        /\ ss \in Nat
    BY DEF Orderly
  <1>2. /\ r \in Pages
        /\ r.open = p.open /\ r.active = FALSE /\ r.writes = p.writes
        /\ r.failed = p.failed /\ r.db = p.db /\ r.life = p.life /\ r.busy = p.busy
        /\ r.flag = FALSE /\ r.saved = p.saved /\ r.batch = p.batch
        /\ r.meta.session = p.meta.session /\ r.meta.chunks = p.meta.chunks
        /\ r.meta.count = p.meta.count
        /\ r.meta.stopped = p.meta.stopped /\ r.meta.error = (p.meta.session # 0)
    BY <1>1, FailedFields
  <1>3. p.meta = NoMeta => r.meta = NoMeta
    <2>1. r.meta \in Described /\ p.meta \in Described
      BY <1>1, <1>2 DEF Pages
    <2>2. p.meta = NoMeta => (p.meta.error = FALSE /\ p.meta.session = 0)
      BY DEF NoMeta
    <2>3. p.meta = NoMeta => r.meta.error = p.meta.error
      BY <1>2, <2>2
    <2> HIDE DEF r
    <2>4. ASSUME p.meta = NoMeta PROVE r.meta = p.meta
      BY <1>2, <2>1, <2>3, <2>4, SameDescription
    <2> QED BY <2>4
  <1> HIDE DEF r
  <1>4. Matched(r, x)
    BY <1>1, <1>2, MatchedSame DEF Matched, Awaited
  <1>5. Lined(r)
    <2>1. p.active => (p.life # <<"stop">> /\ p.life # <<"start">> /\ p.life # <<"load">>)
      BY OneElement
    <2> QED BY <1>1, <1>2, <2>1 DEF Lined
  <1>6. Untouched(r, x)
    BY <1>1, <1>2, <1>3 DEF Untouched, Loads
  <1>7. Numbered(r, st, x, ss)
    BY <1>1, <1>2 DEF Numbered
  <1>8. Visible(r)
    <2>1. ASSUME NEW i \in DOMAIN r.failed, r.failed[i].meta.session = r.meta.session PROVE r.meta.error
      <3>1. p.meta.session # 0
        BY <1>1, <1>2, <2>1 DEF Numbered
      <3> QED BY <1>2, <3>1
    <2>2. r.batch > 0 => r.meta.error
      <3>1. p.batch > 0 => p.meta.session # 0
        BY <1>1 DEF Numbered
      <3> QED BY <1>2, <3>1
    <2>3. r.failed # <<>> => (r.writes = <<>> /\ ~r.active)
      BY <1>1, <1>2 DEF Visible
    <2> QED BY <2>1, <2>2, <2>3 DEF Visible
  <1>9. p.meta.session # 0 => r.meta.error
    BY <1>2
  <1> QED BY <1>1, <1>2, <1>4, <1>5, <1>6, <1>7, <1>8, <1>9 DEF Orderly, r

LEMMA SettledOrderly ==
  ASSUME NEW p, NEW st, NEW x, NEW ss, Orderly(p, st, x, ss), p.db # <<>>
  PROVE  LET r == [p EXCEPT !.db = Tail(@)]
         IN /\ Orderly(r, st, x, ss)
            /\ \A i \in DOMAIN r.db : r.db[i].kind # Head(p.db).kind
            /\ r.open = p.open /\ r.active = p.active /\ r.meta = p.meta /\ r.batch = p.batch
            /\ r.writes = p.writes /\ r.failed = p.failed /\ r.life = p.life /\ r.busy = p.busy
            /\ r.flag = p.flag /\ r.saved = p.saved /\ r.db = Tail(p.db)
  <1> DEFINE r == [p EXCEPT !.db = Tail(@)]
  <1>1. p \in Pages /\ Matched(p, x) /\ Lined(p) /\ Untouched(p, x) /\ Numbered(p, st, x, ss) /\ Visible(p)
        /\ ss \in Nat
    BY DEF Orderly
  <1>2. Tail(p.db) \in Seq(Transactions)
    BY <1>1, TailElements DEF Pages
  <1>3. /\ r \in Pages
        /\ r.open = p.open /\ r.active = p.active /\ r.meta = p.meta /\ r.batch = p.batch
        /\ r.writes = p.writes /\ r.failed = p.failed /\ r.life = p.life /\ r.busy = p.busy
        /\ r.flag = p.flag /\ r.saved = p.saved /\ r.db = Tail(p.db)
    BY <1>1, <1>2 DEF Pages
  <1> HIDE DEF r
  <1>4. \A i \in DOMAIN p.db : Awaited(p.db[i], r, x)
    BY <1>1, <1>3 DEF Matched, Awaited
  <1>5. Matched(r, x) /\ \A i \in DOMAIN r.db : r.db[i].kind # Head(p.db).kind
    BY <1>1, <1>3, <1>4, MatchedTail
  <1>6. Lined(r) /\ Untouched(r, x) /\ Numbered(r, st, x, ss) /\ Visible(r)
    <2>1. Lined(r)
      BY <1>1, <1>3 DEF Lined
    <2>2. Untouched(r, x)
      BY <1>1, <1>3 DEF Untouched, Loads
    <2>3. Numbered(r, st, x, ss)
      BY <1>1, <1>3 DEF Numbered
    <2>4. Visible(r)
      BY <1>1, <1>3 DEF Visible
    <2> QED BY <2>1, <2>2, <2>3, <2>4
  <1> QED BY <1>3, <1>5, <1>6 DEF Orderly, r

LEMMA LifeTails ==
  /\ Tail(<<"load">>) = <<>> /\ Tail(<<"start">>) = <<>> /\ Tail(<<"stop">>) = <<>>
  /\ Tail(<<"load", "start">>) = <<"start">> /\ Tail(<<"stop", "start">>) = <<"start">>
  /\ Head(<<"load">>) = "load" /\ Head(<<"start">>) = "start" /\ Head(<<"stop">>) = "stop"
  /\ Head(<<"load", "start">>) = "load" /\ Head(<<"stop", "start">>) = "stop"
  /\ <<"load">> # <<>> /\ <<"start">> # <<>> /\ <<"stop">> # <<>>
  /\ <<"load", "start">> # <<>> /\ <<"stop", "start">> # <<>>
  OBVIOUS

LEMMA OverFields ==
  ASSUME NEW p \in Pages, p.life # <<>>
  PROVE  LET r == Over(p)
         IN /\ r \in Pages
            /\ r.open = p.open /\ r.active = p.active /\ r.meta = p.meta /\ r.batch = p.batch
            /\ r.writes = p.writes /\ r.failed = p.failed /\ r.db = p.db
            /\ r.flag = p.flag /\ r.saved = p.saved /\ r.busy = "no" /\ r.life = Tail(p.life)
  <1>1. Tail(p.life) \in Seq({"load", "start", "stop"})
    BY TailElements DEF Pages
  <1>2. Over(p) = [p EXCEPT !.busy = "no", !.life = Tail(p.life)]
    BY DEF Over
  <1> QED BY <1>1, <1>2 DEF Pages

\* An operation ends: nothing is read or cleared for it any more, and a session
\* that could not begin is marked.
LEMMA OverOrderly ==
  ASSUME NEW p, NEW st, NEW x, NEW ss, Orderly(p, st, x, ss), p.open, ~p.active, p.life # <<>>,
         \A i \in DOMAIN p.db : p.db[i].kind # "read" /\ p.db[i].kind # "clear",
         p.busy = "clear" => p.meta.error
  PROVE  Orderly(Over(p), st, x, ss) /\ ~Loads(Over(p))
  <1> DEFINE r == Over(p)
  <1>1. p \in Pages /\ Matched(p, x) /\ Lined(p) /\ Untouched(p, x) /\ Numbered(p, st, x, ss) /\ Visible(p)
    BY DEF Orderly
  <1>2. /\ r \in Pages
        /\ r.open = p.open /\ r.active = p.active /\ r.meta = p.meta /\ r.batch = p.batch
        /\ r.writes = p.writes /\ r.failed = p.failed /\ r.db = p.db
        /\ r.flag = p.flag /\ r.saved = p.saved /\ r.busy = "no" /\ r.life = Tail(p.life)
    BY <1>1, OverFields
  <1> HIDE DEF r
  <1>3. r.life = <<>> \/ r.life = <<"start">>
    BY <1>1, <1>2, LifeTails DEF Lined
  <1>4. Matched(r, x)
    <2>1. \A i \in DOMAIN p.db : Awaited(p.db[i], r, x)
      BY <1>1, <1>2 DEF Matched, Awaited
    <2> QED BY <1>1, <1>2, <2>1, MatchedSame
  <1>5. Lined(r)
    BY <1>2, <1>3 DEF Lined
  <1>6. ~Loads(r)
    BY <1>3, LifeTails DEF Loads
  <1>7. Untouched(r, x)
    BY <1>2, <1>6 DEF Untouched
  <1>8. Numbered(r, st, x, ss)
    BY <1>1, <1>2 DEF Numbered
  <1>9. Visible(r)
    BY <1>1, <1>2 DEF Visible
  <1> QED BY <1>2, <1>4, <1>5, <1>6, <1>7, <1>8, <1>9 DEF Orderly, r

\* The page just before the first sample of a session.
Begun(p) ==
  [p EXCEPT !.active = TRUE, !.flag = TRUE, !.saved = TRUE,
            !.batch = 0, !.failed = <<>>, !.busy = "no", !.life = Tail(@)]

LEMMA ActivatedBegun == ASSUME NEW p PROVE Activated(p) = Flushed(Sampled(Begun(p)))
  BY DEF Activated, Begun

LEMMA BegunFields ==
  ASSUME NEW p \in Pages, p.life # <<>>
  PROVE  LET r == Begun(p)
         IN /\ r \in Pages
            /\ r.open = p.open /\ r.active = TRUE /\ r.meta = p.meta /\ r.batch = 0
            /\ r.writes = p.writes /\ r.failed = <<>> /\ r.db = p.db
            /\ r.flag = TRUE /\ r.saved = TRUE /\ r.busy = "no" /\ r.life = Tail(p.life)
  <1>1. Tail(p.life) \in Seq({"load", "start", "stop"}) /\ <<>> \in Seq(Batches)
    BY TailElements DEF Pages
  <1>2. Begun(p) = [p EXCEPT !.active = TRUE, !.flag = TRUE, !.saved = TRUE,
                             !.batch = 0, !.failed = <<>>, !.busy = "no", !.life = Tail(p.life)]
    BY DEF Begun
  <1>3. Begun(p) \in Pages
    <2> DEFINE q == [p EXCEPT !.active = TRUE, !.flag = TRUE, !.saved = TRUE]
               none == <<>>
               t == Tail(p.life)
    <2>1. q \in Pages
      BY DEF Pages
    <2>2. Begun(p) = [q EXCEPT !.batch = 0, !.failed = none, !.busy = "no", !.life = t]
      BY <1>2 DEF Pages
    <2>3. none \in Seq(Batches) /\ t \in Seq({"load", "start", "stop"})
      BY <1>1
    <2> HIDE DEF q, none, t
    <2>4. [q EXCEPT !.batch = 0, !.failed = none, !.busy = "no", !.life = t] \in Pages
      BY <2>1, <2>3 DEF Pages
    <2> QED BY <2>2, <2>4
  <1>4. /\ Begun(p).active = TRUE /\ Begun(p).flag = TRUE /\ Begun(p).saved = TRUE
        /\ Begun(p).open = p.open
    BY <1>2 DEF Pages
  <1> QED BY <1>2, <1>3, <1>4 DEF Pages

LEMMA BegunOrderly ==
  ASSUME NEW p \in Pages, NEW st \in Stores, NEW x \in Exports, NEW ss \in Nat,
         Matched(p, x), Numbered(p, st, x, ss), p.open,
         p.life = <<"load">> \/ p.life = <<"start">>,
         \A i \in DOMAIN p.db : p.db[i].kind # "read" /\ p.db[i].kind # "clear",
         p.meta.session # 0
  PROVE  Orderly(Begun(p), st, x, ss)
  <1> DEFINE r == Begun(p)
  <1>1. p.life # <<>> /\ Tail(p.life) = <<>>
    BY LifeTails
  <1>2. /\ r \in Pages
        /\ r.open = p.open /\ r.active = TRUE /\ r.meta = p.meta /\ r.batch = 0
        /\ r.writes = p.writes /\ r.failed = <<>> /\ r.db = p.db
        /\ r.flag = TRUE /\ r.saved = TRUE /\ r.busy = "no" /\ r.life = <<>>
    BY <1>1, BegunFields
  <1> HIDE DEF r
  <1>3. Matched(r, x)
    <2>1. \A i \in DOMAIN p.db : Awaited(p.db[i], r, x)
      BY <1>2 DEF Matched, Awaited
    <2> QED BY <1>2, <2>1, MatchedSame
  <1>4. Lined(r) /\ ~Loads(r)
    BY <1>2 DEF Lined, Loads
  <1>5. Untouched(r, x)
    BY <1>2, <1>4 DEF Untouched
  <1>6. Numbered(r, st, x, ss)
    BY <1>2 DEF Numbered
  <1>7. Visible(r)
    BY <1>2 DEF Visible
  <1> QED BY <1>2, <1>3, <1>4, <1>5, <1>6, <1>7 DEF Orderly, r

\* start() goes on once the store is ready.
LEMMA ActivatedOrderly ==
  ASSUME NEW p \in Pages, NEW st \in Stores, NEW x \in Exports, NEW ss \in Nat,
         Matched(p, x), Numbered(p, st, x, ss), p.open,
         p.life = <<"load">> \/ p.life = <<"start">>,
         \A i \in DOMAIN p.db : p.db[i].kind # "read" /\ p.db[i].kind # "clear",
         p.meta.session # 0
  PROVE  Orderly(Activated(p), st, x, ss)
  <1> DEFINE b == Begun(p)
             s == Sampled(b)
  <1>1. Orderly(b, st, x, ss)
    BY BegunOrderly
  <1>2. b \in Pages /\ b.busy = "no" /\ b.life = <<>>
    <2>1. p.life # <<>> /\ Tail(p.life) = <<>>
      BY LifeTails
    <2> HIDE DEF b
    <2> QED BY <2>1, BegunFields DEF b
  <1> HIDE DEF b
  <1>3. Orderly(s, st, x, ss)
    BY <1>1, SampledOrderly
  <1>4. s.busy = "no" /\ s.life = <<>>
    BY <1>2, SampledFields
  <1> HIDE DEF s
  <1>5. Orderly(Flushed(s), st, x, ss)
    BY <1>3, <1>4, FlushedOrderly
  <1>6. Activated(p) = Flushed(s)
    BY ActivatedBegun DEF s, b
  <1> QED BY <1>5, <1>6

LEMMA FreshFields ==
  ASSUME NEW p \in Pages, sessions \in Nat
  PROVE  LET r == Fresh(p)
         IN /\ r \in Pages
            /\ r.open = p.open /\ r.active = p.active /\ r.batch = p.batch
            /\ r.writes = p.writes /\ r.failed = p.failed /\ r.life = p.life
            /\ r.flag = p.flag /\ r.saved = p.saved /\ r.busy = "clear"
            /\ r.meta = [NoMeta EXCEPT !.session = sessions + 1]
            /\ r.meta.session = sessions + 1
            /\ r.db = Append(p.db, Transaction("clear", NoChunk))
  <1> DEFINE m == [NoMeta EXCEPT !.session = sessions + 1]
             d == Append(p.db, Transaction("clear", NoChunk))
  <1>1. m \in Described /\ m.session = sessions + 1
    BY NoMetaTyped DEF Described
  <1>2. d \in Seq(Transactions)
    BY NoChunkTyped DEF Pages
  <1>3. Fresh(p) = [p EXCEPT !.meta = m, !.busy = "clear", !.db = d]
    BY DEF Fresh
  <1> HIDE DEF m, d
  <1>4. Fresh(p) \in Pages
    BY <1>1, <1>2, <1>3 DEF Pages
  <1>5. /\ Fresh(p).open = p.open /\ Fresh(p).active = p.active
        /\ Fresh(p).flag = p.flag /\ Fresh(p).saved = p.saved
    BY <1>3 DEF Pages
  <1>6. /\ Fresh(p).batch = p.batch /\ Fresh(p).writes = p.writes /\ Fresh(p).failed = p.failed
        /\ Fresh(p).life = p.life /\ Fresh(p).busy = "clear" /\ Fresh(p).meta = m /\ Fresh(p).db = d
    BY <1>3 DEF Pages
  <1> QED BY <1>1, <1>4, <1>5, <1>6 DEF m, d

\* A new session has a number of its own.
LEMMA FreshOrderly ==
  ASSUME NEW p, NEW st, NEW x, Orderly(p, st, x, sessions), p.open, ~p.active,
         p.life = <<"load">> \/ p.life = <<"start">>,
         \A i \in DOMAIN p.db : p.db[i].kind # "read" /\ p.db[i].kind # "clear"
  PROVE  Orderly(Fresh(p), st, x, sessions + 1)
  <1> DEFINE r == Fresh(p)
             t == Transaction("clear", NoChunk)
  <1>1. /\ p \in Pages /\ Matched(p, x) /\ Lined(p) /\ Untouched(p, x)
        /\ Numbered(p, st, x, sessions) /\ Visible(p)
        /\ st \in Stores /\ x \in Exports /\ sessions \in Nat
    BY DEF Orderly
  <1>2. /\ r \in Pages
        /\ r.open = p.open /\ r.active = p.active /\ r.batch = p.batch
        /\ r.writes = p.writes /\ r.failed = p.failed /\ r.life = p.life
        /\ r.flag = p.flag /\ r.saved = p.saved /\ r.busy = "clear"
        /\ r.meta = [NoMeta EXCEPT !.session = sessions + 1]
        /\ r.meta.session = sessions + 1
        /\ r.db = Append(p.db, t)
    BY <1>1, FreshFields
  <1>3. t \in Transactions /\ t.kind = "clear"
    BY NoChunkTyped DEF Transaction
  <1> HIDE DEF r, t
  <1>4. Matched(r, x)
    <2>1. \A i \in DOMAIN p.db : Awaited(p.db[i], r, x) /\ p.db[i].kind # t.kind
      BY <1>1, <1>2, <1>3 DEF Matched, Awaited
    <2>2. Awaited(t, r, x)
      BY <1>2, <1>3 DEF Awaited
    <2> QED BY <1>1, <1>2, <1>3, <2>1, <2>2, MatchedAppend
  <1>5. Lined(r)
    BY <1>2 DEF Lined
  <1>6. Untouched(r, x)
    BY <1>1, <1>2 DEF Untouched, Loads
  <1>7. st.meta.session \in Nat /\ x.header.session \in Nat /\ p.meta.session \in Nat
    BY <1>1 DEF Stores, Exports, Pages, Described
  <1>8. Numbered(r, st, x, sessions + 1)
    <2>1. \A n \in 1..sessions : n \in 1..(sessions + 1)
      BY <1>1
    <2>2. \A i \in DOMAIN r.writes : r.writes[i].meta.session \in 1..(sessions + 1)
      BY <1>1, <1>2, <2>1 DEF Numbered
    <2>3. \A i \in DOMAIN r.failed : r.failed[i].meta.session \in 1..(sessions + 1)
      BY <1>1, <1>2, <2>1 DEF Numbered
    <2>4. st.meta.session <= sessions + 1 /\ x.header.session <= sessions + 1
          /\ r.meta.session <= sessions + 1 /\ r.meta.session # 0
      BY <1>1, <1>2, <1>7 DEF Numbered
    <2> QED BY <2>2, <2>3, <2>4 DEF Numbered
  <1>9. Visible(r)
    <2>1. \A i \in DOMAIN r.failed : r.failed[i].meta.session # r.meta.session
      BY <1>1, <1>2 DEF Numbered
    <2> QED BY <1>1, <1>2, <2>1 DEF Visible
  <1>10. sessions + 1 \in Nat
    BY <1>1
  <1> QED BY <1>1, <1>2, <1>4, <1>5, <1>6, <1>8, <1>9, <1>10 DEF Orderly, r

LEMMA ReadingFields ==
  ASSUME NEW p \in Pages, NEW why \in {"resume", "view"}
  PROVE  LET r == Reading(p, why)
         IN /\ r \in Pages
            /\ r.open = p.open /\ r.active = p.active /\ r.meta = p.meta /\ r.batch = p.batch
            /\ r.writes = p.writes /\ r.failed = p.failed /\ r.life = p.life
            /\ r.flag = p.flag /\ r.saved = p.saved /\ r.busy = why
            /\ r.db = Append(p.db, Transaction("read", NoChunk))
  <1> DEFINE d == Append(p.db, Transaction("read", NoChunk))
  <1>1. d \in Seq(Transactions)
    BY NoChunkTyped DEF Pages
  <1>2. Reading(p, why) = [p EXCEPT !.busy = why, !.db = d]
    BY DEF Reading
  <1> HIDE DEF d
  <1>3. Reading(p, why) \in Pages
    BY <1>1, <1>2 DEF Pages
  <1>4. /\ Reading(p, why).open = p.open /\ Reading(p, why).active = p.active
        /\ Reading(p, why).flag = p.flag /\ Reading(p, why).saved = p.saved
    BY <1>2 DEF Pages
  <1>5. /\ Reading(p, why).meta = p.meta /\ Reading(p, why).batch = p.batch
        /\ Reading(p, why).writes = p.writes /\ Reading(p, why).failed = p.failed
        /\ Reading(p, why).life = p.life /\ Reading(p, why).busy = why /\ Reading(p, why).db = d
    BY <1>2 DEF Pages
  <1> QED BY <1>3, <1>4, <1>5 DEF d

LEMMA ReadingOrderly ==
  ASSUME NEW p, NEW st, NEW x, NEW ss, NEW why \in {"resume", "view"}, Orderly(p, st, x, ss),
         p.open, p.busy = "no", p.life = <<"load">>
  PROVE  Orderly(Reading(p, why), st, x, ss)
  <1> DEFINE r == Reading(p, why)
             t == Transaction("read", NoChunk)
  <1>1. p \in Pages /\ Matched(p, x) /\ Lined(p) /\ Untouched(p, x) /\ Numbered(p, st, x, ss) /\ Visible(p)
    BY DEF Orderly
  <1>2. /\ r \in Pages
        /\ r.open = p.open /\ r.active = p.active /\ r.meta = p.meta /\ r.batch = p.batch
        /\ r.writes = p.writes /\ r.failed = p.failed /\ r.life = p.life
        /\ r.flag = p.flag /\ r.saved = p.saved /\ r.busy = why
        /\ r.db = Append(p.db, t)
    BY <1>1, ReadingFields
  <1>3. t \in Transactions /\ t.kind = "read"
    BY NoChunkTyped DEF Transaction
  <1> HIDE DEF r, t
  <1>4. Matched(r, x)
    <2>1. \A i \in DOMAIN p.db : Awaited(p.db[i], r, x) /\ p.db[i].kind # t.kind
      BY <1>1, <1>2, <1>3 DEF Matched, Awaited
    <2>2. Awaited(t, r, x)
      BY <1>2, <1>3 DEF Awaited
    <2> QED BY <1>1, <1>2, <1>3, <2>1, <2>2, MatchedAppend
  <1>5. ~p.active
    BY <1>1, LifeTails DEF Lined
  <1>6. Lined(r)
    BY <1>2, <1>5 DEF Lined
  <1>7. Untouched(r, x)
    BY <1>1, <1>2 DEF Untouched, Loads
  <1>8. Numbered(r, st, x, ss)
    BY <1>1, <1>2 DEF Numbered
  <1>9. Visible(r)
    BY <1>1, <1>2 DEF Visible
  <1> QED BY <1>2, <1>4, <1>6, <1>7, <1>8, <1>9 DEF Orderly, r

\* A chunk is written: the next one follows.
Written(p) == Continued([[p EXCEPT !.db = Tail(@)] EXCEPT !.writes = Tail(@)])

LEMMA WrittenFields ==
  ASSUME NEW p \in Pages, p.writes # <<>>, p.failed = <<>>, p.db # <<>>
  PROVE  LET r == Written(p)
             q == Tail(p.writes)
         IN /\ r \in Pages
            /\ r.open = p.open /\ r.active = p.active /\ r.meta = p.meta /\ r.batch = p.batch
            /\ r.failed = <<>> /\ r.life = p.life /\ r.busy = p.busy
            /\ r.flag = p.flag /\ r.saved = p.saved /\ r.writes = q /\ q \in Seq(Batches)
            /\ q = <<>> => r.db = Tail(p.db)
            /\ q # <<>> => r.db = Append(Tail(p.db), Transaction("write", Head(q)))
  <1> DEFINE q == Tail(p.writes)
             d == Tail(p.db)
             s == [[p EXCEPT !.db = Tail(@)] EXCEPT !.writes = Tail(@)]
  <1>1. q \in Seq(Batches) /\ d \in Seq(Transactions)
    BY TailElements DEF Pages
  <1>2. s = [p EXCEPT !.db = d, !.writes = q]
    OBVIOUS
  <1> HIDE DEF s
  <1>3. /\ s.failed = <<>> /\ s.writes = q /\ s.db = d
        /\ s.open = p.open /\ s.active = p.active /\ s.meta = p.meta /\ s.batch = p.batch
        /\ s.life = p.life /\ s.busy = p.busy /\ s.flag = p.flag /\ s.saved = p.saved
    BY <1>2 DEF Pages
  <1> HIDE DEF q, d
  <1>4. s \in Pages
    BY <1>1, <1>2 DEF Pages
  <1>5. Written(p) = Continued(s)
    BY DEF Written, s
  <1>6. CASE q = <<>>
    <2>1. Written(p) = s
      BY <1>3, <1>5, <1>6 DEF Continued
    <2> QED BY <1>1, <1>3, <1>4, <1>6, <2>1 DEF q, d
  <1>7. CASE q # <<>>
    <2> DEFINE e == Append(d, Transaction("write", Head(q)))
    <2>1. Head(q) \in Batches
      BY <1>1, <1>7, TailElements
    <2>2. e \in Seq(Transactions)
      BY <1>1, <2>1 DEF Transaction, Transactions
    <2>3. Written(p) = [s EXCEPT !.db = e]
      BY <1>3, <1>5, <1>7 DEF Continued
    <2> HIDE DEF e
    <2>4. [s EXCEPT !.db = e] \in Pages
      BY <1>4, <2>2 DEF Pages
    <2>5. /\ Written(p).open = p.open /\ Written(p).active = p.active
          /\ Written(p).flag = p.flag /\ Written(p).saved = p.saved
      BY <1>3, <1>4, <2>3 DEF Pages
    <2>6. /\ Written(p).meta = p.meta /\ Written(p).batch = p.batch
          /\ Written(p).failed = <<>> /\ Written(p).life = p.life /\ Written(p).busy = p.busy
          /\ Written(p).writes = q /\ Written(p).db = e
      BY <1>3, <1>4, <2>3 DEF Pages
    <2> QED BY <1>1, <1>7, <2>3, <2>4, <2>5, <2>6 DEF q, d, e
  <1> QED BY <1>6, <1>7

LEMMA WrittenOrderly ==
  ASSUME NEW p, NEW st, NEW x, NEW ss, Orderly(p, st, x, ss), p.db # <<>>, Head(p.db).kind = "write",
         NEW st2 \in Stores, st2.meta = p.writes[1].meta
  PROVE  Orderly(Written(p), st2, x, ss)
  <1> DEFINE r == Written(p)
             q == Tail(p.writes)
             s == [p EXCEPT !.db = Tail(@)]
  <1>1. p \in Pages /\ Matched(p, x) /\ Lined(p) /\ Untouched(p, x) /\ Numbered(p, st, x, ss) /\ Visible(p)
        /\ ss \in Nat
    BY DEF Orderly
  <1>2. p.writes # <<>> /\ p.failed = <<>>
    <2>1. p.writes # <<>>
      BY <1>1, TailElements DEF Matched, Awaited, Pages
    <2> QED BY <1>1, <2>1 DEF Visible
  <1>3. /\ Orderly(s, st, x, ss) /\ s \in Pages /\ Matched(s, x)
        /\ \A i \in DOMAIN s.db : s.db[i].kind # "write"
        /\ s.db = Tail(p.db) /\ s.busy = p.busy
    <2>1. /\ Orderly(s, st, x, ss)
          /\ \A i \in DOMAIN s.db : s.db[i].kind # Head(p.db).kind
          /\ s.db = Tail(p.db) /\ s.busy = p.busy
      BY SettledOrderly
    <2> HIDE DEF s
    <2> QED BY <2>1 DEF Orderly
  <1>4. /\ r \in Pages
        /\ r.open = p.open /\ r.active = p.active /\ r.meta = p.meta /\ r.batch = p.batch
        /\ r.failed = <<>> /\ r.life = p.life /\ r.busy = p.busy
        /\ r.flag = p.flag /\ r.saved = p.saved /\ r.writes = q /\ q \in Seq(Batches)
        /\ q = <<>> => r.db = Tail(p.db)
        /\ q # <<>> => r.db = Append(Tail(p.db), Transaction("write", Head(q)))
    BY <1>1, <1>2, WrittenFields
  <1>5. p.writes \in Seq(Batches)
    BY <1>1 DEF Pages
  <1>6. \A i \in DOMAIN q : i + 1 \in DOMAIN p.writes /\ q[i] = p.writes[i + 1]
    BY <1>2, <1>5, TailElements
  <1>7. 1 \in DOMAIN p.writes
    BY <1>2, <1>5, TailElements
  <1> HIDE DEF r, q, s
  <1>8. Matched(r, x)
    <2>1. \A i \in DOMAIN s.db : Awaited(s.db[i], r, x)
      BY <1>3, <1>4 DEF Matched, Awaited
    <2>2. CASE q = <<>>
      <3>1. r.db = s.db
        BY <1>3, <1>4, <2>2
      <3> QED BY <1>3, <2>1, <3>1, MatchedSame
    <2>3. CASE q # <<>>
      <3> DEFINE t == Transaction("write", Head(q))
      <3>1. t \in Transactions /\ t.kind = "write" /\ t.chunk = Head(q)
        <4>1. Head(q) \in Batches
          BY <1>4, <2>3, TailElements
        <4> QED BY <4>1 DEF Transaction, Transactions
      <3>2. Awaited(t, r, x)
        BY <1>4, <2>3, <3>1 DEF Awaited
      <3>3. r.db = Append(s.db, t)
        BY <1>3, <1>4, <2>3
      <3> HIDE DEF t
      <3> QED BY <1>3, <2>1, <3>1, <3>2, <3>3, MatchedAppend
    <2> QED BY <2>2, <2>3
  <1>9. Lined(r)
    <2>1. p.db # <<>>
      OBVIOUS
    <2> QED BY <1>1, <1>4, <2>1 DEF Lined
  <1>10. ~Loads(p)
    BY <1>1, <1>2 DEF Untouched
  <1>11. Untouched(r, x)
    <2>1. ~Loads(r)
      BY <1>4, <1>10 DEF Loads
    <2>2. p.open
      <3>1. ~p.open => Loads(p)
        BY <1>1, LifeTails DEF Untouched, Loads
      <3> QED BY <1>10, <3>1
    <2> QED BY <1>4, <2>1, <2>2 DEF Untouched
  <1>12. Numbered(r, st2, x, ss)
    <2>1. \A i \in DOMAIN r.writes : r.writes[i].meta.session \in 1..ss
      BY <1>1, <1>4, <1>6 DEF Numbered
    <2>2. st2.meta.session <= ss
      BY <1>1, <1>7 DEF Numbered
    <2>3. \A i \in DOMAIN r.failed : r.failed[i].meta.session \in 1..ss
      BY <1>4
    <2> QED BY <1>1, <1>4, <2>1, <2>2, <2>3 DEF Numbered
  <1>13. Visible(r)
    BY <1>4 DEF Visible
  <1>14. x \in Exports /\ ss \in Nat
    BY DEF Orderly
  <1> QED BY <1>4, <1>8, <1>9, <1>11, <1>12, <1>13, <1>14 DEF Orderly, r

LEMMA HeadAndTail ==
  ASSUME NEW T, NEW q \in Seq(T), q # <<>>
  PROVE  /\ Tail(q) = <<>> => Append(<<>>, Head(q)) = q
         /\ Append(<<>>, Head(q)) \o Tail(q) = q
  <1> DEFINE h == Append(<<>>, Head(q))
             t == Tail(q)
             r == h \o t
  <1>1. /\ t \in Seq(T) /\ Len(t) = Len(q) - 1 /\ Len(q) \in Nat \ {0} /\ Head(q) = q[1]
        /\ Head(q) \in T /\ \A i \in 1..(Len(q) - 1) : t[i] = q[i + 1]
    BY TailElements
  <1>2. h \in Seq(T) /\ Len(h) = 1 /\ h[1] = q[1]
    <2>1. h = <<Head(q)>>
      OBVIOUS
    <2> HIDE DEF h
    <2> QED BY <1>1, <2>1
  <1> HIDE DEF h, t
  <1>3. /\ r \in Seq(T) /\ Len(r) = Len(h) + Len(t)
        /\ \A i \in 1..(Len(h) + Len(t)) : r[i] = IF i <= Len(h) THEN h[i] ELSE t[i - Len(h)]
    BY <1>1, <1>2, ConcatProperties
  <1> HIDE DEF r
  <1>4. r \in Seq(T) /\ Len(r) = Len(q)
    BY <1>1, <1>2, <1>3
  <1>5. ASSUME NEW i \in 1..Len(q) PROVE r[i] = q[i]
    <2>1. CASE i = 1
      BY <1>1, <1>2, <1>3, <2>1
    <2>2. CASE i # 1
      <3>1. i - 1 \in 1..(Len(q) - 1) /\ r[i] = t[i - 1] /\ (i - 1) + 1 = i
        BY <1>1, <1>2, <1>3, <2>2
      <3> QED BY <1>1, <3>1
    <2> QED BY <2>1, <2>2
  <1>6. r = q
    BY <1>4, <1>5, SeqEqual
  <1>7. ASSUME t = <<>> PROVE h = q
    <2>1. Len(q) = 1
      BY <1>1, <1>7
    <2> QED BY <1>2, <2>1
  <1> QED BY <1>6, <1>7 DEF h, t, r

\* A chunk is not written: it and those behind it are kept aside.
Refused(p, c) ==
  Continued(Failed([[[p EXCEPT !.db = Tail(@)] EXCEPT !.writes = Tail(@)] EXCEPT !.failed = Append(@, c)]))

LEMMA RefusedFields ==
  ASSUME NEW p \in Pages, p.writes # <<>>, p.failed = <<>>, p.db # <<>>
  PROVE  LET r == Refused(p, Head(p.writes))
         IN /\ r \in Pages
            /\ r.open = p.open /\ r.active = FALSE /\ r.batch = p.batch
            /\ r.failed = p.writes /\ r.writes = <<>> /\ r.life = p.life /\ r.busy = p.busy
            /\ r.flag = FALSE /\ r.saved = p.saved /\ r.db = Tail(p.db)
            /\ r.meta.session = p.meta.session /\ r.meta.count = p.meta.count
            /\ r.meta.chunks = p.meta.chunks
            /\ r.meta.stopped = p.meta.stopped /\ r.meta.error = (p.meta.session # 0)
  <1> DEFINE q == Tail(p.writes)
             d == Tail(p.db)
             a == Append(p.failed, Head(p.writes))
             s == [[[p EXCEPT !.db = Tail(@)] EXCEPT !.writes = Tail(@)]
                     EXCEPT !.failed = Append(@, Head(p.writes))]
             f == Failed(s)
  <1>1. /\ p.failed \in Seq(Batches) /\ p.writes \in Seq(Batches) /\ p.db \in Seq(Transactions)
        /\ Head(p.writes) \in Batches
    <2>1. p.failed \in Seq(Batches) /\ p.writes \in Seq(Batches) /\ p.db \in Seq(Transactions)
      BY DEF Pages
    <2> QED BY <2>1, TailElements
  <1>2. q \in Seq(Batches) /\ d \in Seq(Transactions) /\ a \in Seq(Batches) /\ p.writes \in Seq(Batches)
    BY <1>1, TailElements, AppendElements
  <1>3. s = [p EXCEPT !.db = d, !.writes = q, !.failed = a]
    BY DEF Pages
  <1>4. a # <<>>
    BY <1>1, AppendElements
  <1>5. (q = <<>> => a = p.writes) /\ a \o q = p.writes
    BY <1>2, HeadAndTail
  <1>6. Refused(p, Head(p.writes)) = Continued(f)
    BY DEF Refused
  <1> HIDE DEF s, q, d, a
  <1>7. s \in Pages
    BY <1>2, <1>3 DEF Pages
  <1>8. /\ s.failed = a /\ s.writes = q /\ s.db = d
        /\ s.open = p.open /\ s.meta = p.meta /\ s.batch = p.batch
        /\ s.life = p.life /\ s.busy = p.busy /\ s.saved = p.saved
    BY <1>3 DEF Pages
  <1>9. /\ f \in Pages
        /\ f.open = p.open /\ f.active = FALSE /\ f.writes = q
        /\ f.failed = a /\ f.db = d /\ f.life = p.life /\ f.busy = p.busy
        /\ f.flag = FALSE /\ f.saved = p.saved /\ f.batch = p.batch
        /\ f.meta.session = p.meta.session /\ f.meta.chunks = p.meta.chunks
        /\ f.meta.count = p.meta.count
        /\ f.meta.stopped = p.meta.stopped /\ f.meta.error = (p.meta.session # 0)
    <2>1. /\ f \in Pages
          /\ f.open = s.open /\ f.active = FALSE /\ f.writes = s.writes
          /\ f.failed = s.failed /\ f.db = s.db /\ f.life = s.life /\ f.busy = s.busy
          /\ f.flag = FALSE /\ f.saved = s.saved /\ f.batch = s.batch
          /\ f.meta.session = s.meta.session /\ f.meta.chunks = s.meta.chunks
          /\ f.meta.count = s.meta.count
          /\ f.meta.stopped = s.meta.stopped /\ f.meta.error = (s.meta.session # 0)
      BY <1>7, FailedFields
    <2> HIDE DEF f
    <2> QED BY <1>8, <2>1
  <1> HIDE DEF f
  <1>10. CASE q = <<>>
    <2>1. Continued(f) = f
      BY <1>9, <1>10 DEF Continued
    <2> QED BY <1>5, <1>6, <1>9, <1>10, <2>1 DEF d
  <1>11. CASE q # <<>>
    <2> DEFINE none == <<>>
    <2>1. Continued(f) = [f EXCEPT !.failed = p.writes, !.writes = none]
      BY <1>4, <1>5, <1>9, <1>11 DEF Continued
    <2>2. none \in Seq(Batches)
      OBVIOUS
    <2>3. [f EXCEPT !.failed = p.writes, !.writes = none] \in Pages
      <3> HIDE DEF none
      <3> QED BY <1>2, <1>9, <2>2 DEF Pages
    <2>4. /\ Continued(f).open = p.open /\ Continued(f).active = FALSE
          /\ Continued(f).flag = FALSE /\ Continued(f).saved = p.saved
      BY <1>9, <2>1 DEF Pages
    <2>5. /\ Continued(f).meta = f.meta /\ Continued(f).batch = p.batch
          /\ Continued(f).failed = p.writes /\ Continued(f).life = p.life
          /\ Continued(f).busy = p.busy /\ Continued(f).writes = <<>> /\ Continued(f).db = d
      BY <1>9, <2>1 DEF Pages
    <2> HIDE DEF none
    <2> QED BY <1>6, <1>9, <2>1, <2>3, <2>4, <2>5 DEF d
  <1> QED BY <1>10, <1>11

LEMMA RefusedOrderly ==
  ASSUME NEW p, NEW st, NEW x, NEW ss, Orderly(p, st, x, ss), p.db # <<>>, Head(p.db).kind = "write",
         p.active => p.life = <<>>
  PROVE  Orderly(Refused(p, Head(p.writes)), st, x, ss) /\ p.writes # <<>> /\ p.failed = <<>>
  <1> DEFINE r == Refused(p, Head(p.writes))
             s == [p EXCEPT !.db = Tail(@)]
  <1>1. p \in Pages /\ Matched(p, x) /\ Lined(p) /\ Untouched(p, x) /\ Numbered(p, st, x, ss) /\ Visible(p)
        /\ ss \in Nat
    BY DEF Orderly
  <1>2. p.writes # <<>> /\ p.failed = <<>>
    <2>1. p.writes # <<>>
      BY <1>1, TailElements DEF Matched, Awaited, Pages
    <2> QED BY <1>1, <2>1 DEF Visible
  <1>3. /\ Orderly(s, st, x, ss) /\ s \in Pages /\ Matched(s, x)
        /\ \A i \in DOMAIN s.db : s.db[i].kind # "write"
        /\ s.db = Tail(p.db) /\ s.busy = p.busy
    <2>1. /\ Orderly(s, st, x, ss)
          /\ \A i \in DOMAIN s.db : s.db[i].kind # Head(p.db).kind
          /\ s.db = Tail(p.db) /\ s.busy = p.busy
      BY SettledOrderly
    <2> HIDE DEF s
    <2> QED BY <2>1 DEF Orderly
  <1>4. /\ r \in Pages
        /\ r.open = p.open /\ r.active = FALSE /\ r.batch = p.batch
        /\ r.failed = p.writes /\ r.writes = <<>> /\ r.life = p.life /\ r.busy = p.busy
        /\ r.flag = FALSE /\ r.saved = p.saved /\ r.db = Tail(p.db)
        /\ r.meta.session = p.meta.session /\ r.meta.count = p.meta.count
        /\ r.meta.chunks = p.meta.chunks
        /\ r.meta.stopped = p.meta.stopped /\ r.meta.error = (p.meta.session # 0)
    BY <1>1, <1>2, RefusedFields
  <1> HIDE DEF r, s
  <1>5. Matched(r, x)
    <2>1. \A i \in DOMAIN s.db : Awaited(s.db[i], r, x)
      BY <1>3, <1>4 DEF Matched, Awaited
    <2>2. r.db = s.db
      BY <1>3, <1>4
    <2> QED BY <1>3, <2>1, <2>2, MatchedSame
  <1>6. ~Loads(p)
    BY <1>1, <1>2 DEF Untouched
  <1>7. Lined(r)
    <2>1. p.active => (p.life # <<"stop">> /\ p.life # <<"start">> /\ p.life # <<"load">>)
      BY LifeTails
    <2>2. p.life # <<"load">>
      BY <1>6, LifeTails DEF Loads
    <2> QED BY <1>1, <1>4, <2>1, <2>2 DEF Lined
  <1>8. Untouched(r, x)
    <2>1. ~Loads(r)
      BY <1>4, <1>6 DEF Loads
    <2>2. p.open
      <3>1. ~p.open => Loads(p)
        BY <1>1, LifeTails DEF Untouched, Loads
      <3> QED BY <1>6, <3>1
    <2> QED BY <1>4, <2>1, <2>2 DEF Untouched
  <1>9. Numbered(r, st, x, ss)
    <2>1. \A i \in DOMAIN r.failed : r.failed[i].meta.session \in 1..ss
      BY <1>1, <1>4 DEF Numbered
    <2>2. \A i \in DOMAIN r.writes : r.writes[i].meta.session \in 1..ss
      BY <1>4
    <2> QED BY <1>1, <1>4, <2>1, <2>2 DEF Numbered
  <1>10. Visible(r)
    <2>1. ASSUME NEW i \in DOMAIN r.failed, r.failed[i].meta.session = r.meta.session PROVE r.meta.error
      <3>1. p.meta.session # 0
        BY <1>1, <1>4, <2>1 DEF Numbered
      <3> QED BY <1>4, <3>1
    <2>2. r.batch > 0 => r.meta.error
      <3>1. p.batch > 0 => p.meta.session # 0
        BY <1>1 DEF Numbered
      <3> QED BY <1>4, <3>1
    <2> QED BY <1>4, <2>1, <2>2 DEF Visible
  <1> QED BY <1>1, <1>2, <1>4, <1>5, <1>7, <1>8, <1>9, <1>10 DEF Orderly, r

-----------------------------------------------------------------------------
(* Every step keeps the order *)

LEMMA LoadedTyped ==
  ASSUME NEW flag \in BOOLEAN, NEW saved \in BOOLEAN PROVE Loaded(flag, saved) \in Pages
  BY NoMetaTyped DEF Loaded, Pages

LEMMA InitOrderly == Init => OrderlyInv
  <1> SUFFICES ASSUME Init PROVE Orderly(page, store, export, sessions)
    BY DEF OrderlyInv
  <1>1. /\ page = Loaded(FALSE, FALSE) /\ store = [meta |-> NoMeta, chunks |-> {}]
        /\ export = NoExport /\ sessions = 0
    BY DEF Init
  <1>2. page \in Pages /\ page.db = <<>>
    BY <1>1, LoadedTyped DEF Loaded
  <1>3. store \in Stores /\ export \in Exports
    BY <1>1, NoMetaTyped DEF Stores, NoExport, Exports
  <1>4. Matched(page, export)
    BY <1>2 DEF Matched
  <1>5. Lined(page)
    BY <1>1 DEF Lined, Loaded
  <1>6. Untouched(page, export)
    BY <1>1 DEF Untouched, Loads, Loaded
  <1>7. Numbered(page, store, export, sessions)
    BY <1>1 DEF Numbered, Loaded, NoMeta, NoExport
  <1>8. Visible(page)
    BY <1>1 DEF Visible, Loaded
  <1> QED BY <1>1, <1>2, <1>3, <1>4, <1>5, <1>6, <1>7, <1>8 DEF Orderly

LEMMA SecondOrderly == ASSUME OrderlyInv, Second PROVE OrderlyInv'
  <1>1. Orderly(page, store, export, sessions) /\ page.active /\ ~Queued
        /\ UNCHANGED <<store, export, sessions>>
    BY DEF OrderlyInv, Second, Task
  <1>2. page.busy = "no" /\ page.life = <<>> /\ page \in Pages
    BY <1>1, ActiveIdle DEF Queued, Orderly
  <1>3. Orderly(Sampled(page), store, export, sessions)
    BY <1>1, SampledOrderly
  <1>4. Orderly(Flushed(Sampled(page)), store, export, sessions)
    <2>1. Sampled(page).busy = "no" /\ Sampled(page).life = <<>>
      BY <1>2, SampledFields
    <2> QED BY <1>3, <2>1, FlushedOrderly
  <1>5. page' = Sampled(page) \/ page' = Flushed(Sampled(page))
    BY DEF Second, Task, Goes
  <1> QED BY <1>1, <1>3, <1>4, <1>5 DEF OrderlyInv

LEMMA EventStormOrderly == ASSUME OrderlyInv, EventStorm PROVE OrderlyInv'
  <1>1. Orderly(page, store, export, sessions) /\ page.active /\ ~Queued
        /\ UNCHANGED <<store, export, sessions>> /\ page' = Failed(Flushed(page))
    BY DEF OrderlyInv, EventStorm, Task, Goes
  <1>2. page.busy = "no" /\ page.life = <<>> /\ page \in Pages
    BY <1>1, ActiveIdle DEF Queued, Orderly
  <1>3. Orderly(Flushed(page), store, export, sessions)
    BY <1>1, <1>2, FlushedOrderly
  <1>4. Flushed(page).life = <<>>
    BY <1>2, FlushedFields, FlushedEmpty
  <1>5. Orderly(Failed(Flushed(page)), store, export, sessions)
    BY <1>3, <1>4, FailedOrderly
  <1> QED BY <1>1, <1>5 DEF OrderlyInv

LEMMA ReloadOrderly == ASSUME OrderlyInv, Reload PROVE OrderlyInv'
  <1>1. /\ Orderly(page, store, export, sessions) /\ export' = NoExport
        /\ page' = [Loaded(page.flag, page.saved) EXCEPT !.open = FALSE]
        /\ UNCHANGED <<store, sessions>>
    BY DEF OrderlyInv, Reload, Task, Goes
  <1>2. page.flag \in BOOLEAN /\ page.saved \in BOOLEAN /\ store \in Stores /\ sessions \in Nat
        /\ store.meta.session <= sessions
    BY <1>1 DEF Orderly, Pages, Numbered
  <1>3. /\ page'.open = FALSE /\ page'.active = FALSE /\ page'.meta = NoMeta /\ page'.batch = 0
        /\ page'.writes = <<>> /\ page'.failed = <<>> /\ page'.db = <<>>
        /\ page'.life = <<"load">> /\ page'.busy = "no"
    BY <1>1 DEF Loaded
  <1>4. page' \in Pages
    <2> DEFINE q == Loaded(page.flag, page.saved)
    <2>1. q \in Pages
      BY <1>2, LoadedTyped
    <2> HIDE DEF q
    <2>2. [q EXCEPT !.open = FALSE] \in Pages
      BY <2>1 DEF Pages
    <2> QED BY <1>1, <2>2 DEF q
  <1>5. export' \in Exports /\ export'.header.session = 0
    BY <1>1, NoMetaTyped DEF NoExport, Exports, NoMeta
  <1>6. Matched(page', export')
    BY <1>3 DEF Matched
  <1>7. Lined(page')
    BY <1>3 DEF Lined
  <1>8. Untouched(page', export')
    BY <1>1, <1>3 DEF Untouched
  <1>9. Numbered(page', store', export', sessions')
    BY <1>1, <1>2, <1>3, <1>5 DEF Numbered, NoMeta
  <1>10. Visible(page')
    BY <1>3 DEF Visible
  <1> QED BY <1>1, <1>2, <1>4, <1>5, <1>6, <1>7, <1>8, <1>9, <1>10 DEF OrderlyInv, Orderly

LEMMA OpenOrderly == ASSUME OrderlyInv, Open PROVE OrderlyInv'
  <1>1. /\ Orderly(page, store, export, sessions) /\ ~page.open
        /\ page' = [page EXCEPT !.open = TRUE] /\ UNCHANGED <<store, export, sessions>>
    BY DEF OrderlyInv, Open, Task, Goes
  <1>2. page \in Pages /\ page' \in Pages
    BY <1>1 DEF Orderly, Pages
  <1>3. /\ page'.open = TRUE /\ page'.active = page.active /\ page'.meta = page.meta
        /\ page'.batch = page.batch /\ page'.writes = page.writes /\ page'.failed = page.failed
        /\ page'.db = page.db /\ page'.life = page.life /\ page'.busy = page.busy
    BY <1>1, <1>2 DEF Pages
  <1>4. Matched(page', export')
    BY <1>1, <1>3 DEF Orderly, Matched, Awaited
  <1>5. Lined(page')
    BY <1>1, <1>3 DEF Orderly, Lined
  <1>6. Untouched(page', export')
    BY <1>1, <1>3 DEF Orderly, Untouched, Loads
  <1>7. Numbered(page', store', export', sessions')
    BY <1>1, <1>3 DEF Orderly, Numbered
  <1>8. Visible(page')
    BY <1>1, <1>3 DEF Orderly, Visible
  <1> QED BY <1>1, <1>2, <1>4, <1>5, <1>6, <1>7, <1>8 DEF OrderlyInv, Orderly

\* What follows when the queue of operations has come to a stop.
LEMMA NotQueued ==
  ASSUME OrderlyInv, ~Queued
  PROVE  /\ page.open => (page.busy # "no" \/ page.life = <<>>)
         /\ ~page.open => Loads(page) /\ page.busy = "no" /\ page.db = <<>> /\ ~page.active
  <1>1. Lined(page) /\ Untouched(page, export)
    BY DEF OrderlyInv, Orderly
  <1>2. page.open => (page.busy # "no" \/ page.life = <<>>)
    BY DEF Queued
  <1>3. ASSUME ~page.open PROVE Loads(page) /\ page.busy = "no" /\ page.db = <<>> /\ ~page.active
    <2>1. page.life = <<"load">> /\ page.busy = "no"
      BY <1>1, <1>3 DEF Untouched
    <2>2. page.db = <<>> /\ ~page.active
      BY <1>1, <2>1, LifeTails DEF Lined
    <2> QED BY <2>1, <2>2, LifeTails DEF Loads
  <1> QED BY <1>2, <1>3

LEMMA ToggleOrderly == ASSUME OrderlyInv, Toggle PROVE OrderlyInv'
  <1>1. /\ Orderly(page, store, export, sessions) /\ page.open /\ ~Queued
        /\ page.busy \notin {"resume", "clear"} /\ Len(page.life) < 2
        /\ UNCHANGED <<store, export, sessions>>
    BY DEF OrderlyInv, Toggle, Task
  <1>2. PICK op \in {"start", "stop"} :
          /\ page' = [page EXCEPT !.life = Append(@, op)]
          /\ op = "start" => ~page.active
          /\ op = "stop" => page.active
    BY DEF Toggle, Task, Goes
  <1>3. page \in Pages /\ Lined(page)
    BY <1>1 DEF Orderly
  <1>4. Append(page.life, op) \in Seq({"load", "start", "stop"})
    BY <1>3 DEF Pages
  <1>5. page' \in Pages
    <2> DEFINE q == Append(page.life, op)
    <2>1. q \in Seq({"load", "start", "stop"}) /\ page' = [page EXCEPT !.life = q]
      BY <1>2, <1>4
    <2> HIDE DEF q
    <2> QED BY <1>3, <2>1 DEF Pages
  <1>6. /\ page'.open = page.open /\ page'.active = page.active /\ page'.meta = page.meta
        /\ page'.batch = page.batch /\ page'.writes = page.writes /\ page'.failed = page.failed
        /\ page'.db = page.db /\ page'.life = Append(page.life, op) /\ page'.busy = page.busy
    BY <1>2, <1>3 DEF Pages
  <1>7. \/ page.life = <<>> /\ page.busy = "no"
        \/ page.life = <<"load">> /\ page.busy = "view" /\ ~page.active
        \/ page.life = <<"stop">> /\ page.busy = "flush" /\ ~page.active
    <2>1. page.busy # "no" \/ page.life = <<>>
      BY <1>1 DEF Queued
    <2>2. page.life # <<"load", "start">> /\ page.life # <<"stop", "start">>
      <3>1. ~(Len(<<"load", "start">>) < 2) /\ ~(Len(<<"stop", "start">>) < 2)
        OBVIOUS
      <3> QED BY <1>1, <3>1
    <2> QED BY <1>1, <1>3, <2>1, <2>2, LifeTails DEF Lined
  <1>8. /\ page.life = <<>> => page'.life = <<op>>
        /\ page.life = <<"load">> => page'.life = <<"load", op>>
        /\ page.life = <<"stop">> => page'.life = <<"stop", op>>
    <2>1. Append(<<>>, op) = <<op>>
      OBVIOUS
    <2>2. Append(<<"load">>, op) = <<"load", op>> /\ Append(<<"stop">>, op) = <<"stop", op>>
      BY AppendToOne
    <2> QED BY <1>6, <2>1, <2>2
  <1>9. Lined(page')
    BY <1>2, <1>6, <1>7, <1>8 DEF Lined
  <1>10. Loads(page') => Loads(page)
    <2>1. Head(<<"load", op>>) = "load" /\ Head(<<"stop", op>>) = "stop" /\ Head(<<op>>) = op
      OBVIOUS
    <2> QED BY <1>2, <1>7, <1>8, <2>1, LifeTails DEF Loads
  <1>11. Matched(page', export')
    BY <1>1, <1>6 DEF Orderly, Matched, Awaited
  <1>12. Untouched(page', export')
    BY <1>1, <1>6, <1>10 DEF Orderly, Untouched
  <1>13. Numbered(page', store', export', sessions')
    BY <1>1, <1>6 DEF Orderly, Numbered
  <1>14. Visible(page')
    BY <1>1, <1>6 DEF Orderly, Visible
  <1> QED BY <1>1, <1>5, <1>9, <1>11, <1>12, <1>13, <1>14 DEF OrderlyInv, Orderly

LEMMA NothingAwaited ==
  ASSUME NEW p, NEW x, Matched(p, x), p.busy \notin {"resume", "view", "clear"}
  PROVE  \A i \in DOMAIN p.db : p.db[i].kind # "read" /\ p.db[i].kind # "clear"
  BY DEF Matched, Awaited

LEMMA LoadOrderly == ASSUME OrderlyInv, Load PROVE OrderlyInv'
  <1>1. /\ Orderly(page, store, export, sessions) /\ page.open /\ page.busy = "no"
        /\ page.life # <<>> /\ Head(page.life) = "load" /\ UNCHANGED <<store, export, sessions>>
    BY DEF OrderlyInv, Load, Ready, Queued
  <1>2. page.life = <<"load">> /\ ~page.active /\ Matched(page, export)
    BY <1>1, LifeTails DEF Orderly, Lined
  <1>3. Orderly(Reading(page, "resume"), store, export, sessions)
    BY <1>1, <1>2, ReadingOrderly
  <1>4. Orderly(Reading(page, "view"), store, export, sessions)
    BY <1>1, <1>2, ReadingOrderly
  <1>5. Orderly(Over(page), store, export, sessions)
    BY <1>1, <1>2, NothingAwaited, OverOrderly
  <1>6. page' \in {Reading(page, "resume"), Reading(page, "view"), Over(page)}
    BY DEF Load, Goes
  <1> QED BY <1>1, <1>3, <1>4, <1>5, <1>6 DEF OrderlyInv

LEMMA RejectedOrderly ==
  ASSUME NEW p, NEW st, NEW x, NEW ss, Orderly(p, st, x, ss), p.open, ~p.active, p.life # <<>>,
         \A i \in DOMAIN p.db : p.db[i].kind # "read" /\ p.db[i].kind # "clear"
  PROVE  Orderly(Rejected(p), st, x, ss)
  <1> DEFINE r == Failed(p)
  <1>1. Orderly(r, st, x, ss) /\ (p.meta.session # 0 => r.meta.error)
    BY FailedOrderly
  <1>2. p \in Pages
    BY DEF Orderly
  <1>3. r.open = p.open /\ ~r.active /\ r.life = p.life /\ r.db = p.db /\ r.busy = p.busy
    BY <1>2, FailedFields
  <1>4. p.busy = "clear" => p.meta.session # 0
    BY DEF Orderly, Numbered
  <1> HIDE DEF r
  <1>5. Orderly(Over(r), st, x, ss)
    BY <1>1, <1>3, <1>4, OverOrderly
  <1> QED BY <1>5 DEF Rejected, r

LEMMA StartOrderly == ASSUME OrderlyInv, Start PROVE OrderlyInv'
  <1>1. /\ Orderly(page, store, export, sessions) /\ page.open /\ page.busy = "no"
        /\ page.life # <<>> /\ Head(page.life) = "start" /\ UNCHANGED <<store, export>>
    BY DEF OrderlyInv, Start, Ready, Queued
  <1>2. page.life = <<"start">> /\ ~page.active /\ Matched(page, export)
    BY <1>1, LifeTails DEF Orderly, Lined
  <1>3. \A i \in DOMAIN page.db : page.db[i].kind # "read" /\ page.db[i].kind # "clear"
    BY <1>1, <1>2, NothingAwaited
  <1>4. Orderly(Fresh(page), store, export, sessions + 1)
    BY <1>1, <1>2, <1>3, FreshOrderly
  <1>5. Orderly(Rejected(page), store, export, sessions)
    BY <1>1, <1>2, <1>3, RejectedOrderly
  <1>6. \/ page' = Fresh(page) /\ sessions' = sessions + 1
        \/ page' = Rejected(page) /\ sessions' = sessions
    BY <1>2 DEF Start, Goes
  <1> QED BY <1>1, <1>4, <1>5, <1>6 DEF OrderlyInv

\* stop() before its last flush.
Halted(p) ==
  [Sampled(p) EXCEPT !.active = FALSE, !.flag = FALSE, !.busy = "flush", !.meta.stopped = TRUE]

LEMMA HaltedFields ==
  ASSUME NEW p \in Pages
  PROVE  LET r == Halted(p)
             s == Sampled(p)
         IN /\ r \in Pages
            /\ r.open = p.open /\ r.active = FALSE /\ r.writes = p.writes
            /\ r.failed = p.failed /\ r.db = p.db /\ r.life = p.life /\ r.busy = "flush"
            /\ r.flag = FALSE /\ r.saved = p.saved
            /\ r.meta.session = p.meta.session /\ r.meta.chunks = p.meta.chunks
            /\ r.meta.stopped = TRUE /\ r.meta.error = p.meta.error
            /\ r.batch = s.batch /\ r.meta.count = s.meta.count
  <1> DEFINE s == Sampled(p)
             m == [s.meta EXCEPT !.stopped = TRUE]
             r == [s EXCEPT !.active = FALSE, !.flag = FALSE, !.busy = "flush", !.meta = m]
  <1>1. /\ s \in Pages /\ s.meta \in Described
        /\ s.open = p.open /\ s.writes = p.writes
        /\ s.failed = p.failed /\ s.db = p.db /\ s.life = p.life
        /\ s.saved = p.saved
        /\ s.meta.session = p.meta.session /\ s.meta.chunks = p.meta.chunks
        /\ s.meta.error = p.meta.error
    <2>1. /\ s \in Pages
          /\ s.open = p.open /\ s.writes = p.writes
          /\ s.failed = p.failed /\ s.db = p.db /\ s.life = p.life
          /\ s.saved = p.saved
          /\ s.meta.session = p.meta.session /\ s.meta.chunks = p.meta.chunks
          /\ s.meta.error = p.meta.error
      BY SampledFields
    <2> HIDE DEF s
    <2>2. s.meta \in Described
      BY <2>1 DEF Pages
    <2> QED BY <2>1, <2>2
  <1>2. Halted(p) = [s EXCEPT !.active = FALSE, !.flag = FALSE, !.busy = "flush", !.meta.stopped = TRUE]
    BY DEF Halted
  <1> HIDE DEF s
  <1>3. /\ m \in Described /\ m.session = s.meta.session /\ m.chunks = s.meta.chunks
        /\ m.count = s.meta.count /\ m.stopped = TRUE /\ m.error = s.meta.error
    BY <1>1 DEF Described
  <1>4. Halted(p) = r
    BY <1>1, <1>2 DEF Pages
  <1> HIDE DEF m
  <1>5. r \in Pages
    BY <1>1, <1>3 DEF Pages
  <1>6. r.open = p.open /\ r.active = FALSE /\ r.flag = FALSE /\ r.saved = p.saved
    BY <1>1 DEF Pages
  <1>7. /\ r.writes = p.writes /\ r.failed = p.failed /\ r.db = p.db /\ r.life = p.life
        /\ r.busy = "flush" /\ r.meta = m /\ r.batch = s.batch
    BY <1>1 DEF Pages
  <1> HIDE DEF r
  <1> QED BY <1>1, <1>3, <1>4, <1>5, <1>6, <1>7 DEF s

LEMMA HaltedOrderly ==
  ASSUME NEW p, NEW st, NEW x, NEW ss, Orderly(p, st, x, ss), p.busy = "no", p.life = <<"stop">>
  PROVE  Orderly(Halted(p), st, x, ss) /\ Halted(p) \in Pages /\ Halted(p).active = FALSE
         /\ Halted(p).busy = "flush"
  <1> DEFINE r == Halted(p)
  <1>1. p \in Pages /\ Matched(p, x) /\ Lined(p) /\ Untouched(p, x) /\ Numbered(p, st, x, ss) /\ Visible(p)
    BY DEF Orderly
  <1>2. /\ r \in Pages
        /\ r.open = p.open /\ r.active = FALSE /\ r.writes = p.writes
        /\ r.failed = p.failed /\ r.db = p.db /\ r.life = p.life /\ r.busy = "flush"
        /\ r.meta.session = p.meta.session /\ r.meta.error = p.meta.error
    BY <1>1, HaltedFields
  <1> HIDE DEF r
  <1>3. p.active
    BY <1>1, LifeTails DEF Lined
  <1>4. p.failed = <<>> /\ p.meta.session # 0
    BY <1>1, <1>3 DEF Visible, Numbered
  <1>5. Matched(r, x)
    BY <1>1, <1>2 DEF Matched, Awaited
  <1>6. Lined(r) /\ ~Loads(r)
    BY <1>2, LifeTails DEF Lined, Loads
  <1>7. p.open
    BY <1>1, LifeTails DEF Untouched
  <1>8. Untouched(r, x)
    BY <1>2, <1>6, <1>7 DEF Untouched
  <1>9. Numbered(r, st, x, ss)
    BY <1>1, <1>2, <1>4 DEF Numbered
  <1>10. Visible(r)
    BY <1>2, <1>4 DEF Visible
  <1> QED BY <1>2, <1>5, <1>6, <1>8, <1>9, <1>10 DEF Orderly, r

LEMMA StopOrderly == ASSUME OrderlyInv, Stop PROVE OrderlyInv'
  <1>1. /\ Orderly(page, store, export, sessions) /\ page.open /\ page.busy = "no"
        /\ page.life # <<>> /\ Head(page.life) = "stop" /\ UNCHANGED <<store, export, sessions>>
    BY DEF OrderlyInv, Stop, Ready, Queued
  <1>2. page.life = <<"stop">> /\ page.active
    BY <1>1, LifeTails DEF Orderly, Lined
  <1>3. Orderly(Halted(page), store, export, sessions) /\ Halted(page).active = FALSE
        /\ Halted(page).busy = "flush"
    BY <1>1, <1>2, HaltedOrderly
  <1>4. Orderly(Flushed(Halted(page)), store, export, sessions)
    BY <1>3, FlushedOrderly
  <1>5. page' = Flushed(Halted(page))
    BY <1>2 DEF Stop, Goes, Stopping, Halted
  <1> QED BY <1>1, <1>4, <1>5 DEF OrderlyInv

LEMMA StoppedOrderly == ASSUME OrderlyInv, Stopped PROVE OrderlyInv'
  <1>1. /\ Orderly(page, store, export, sessions) /\ page.busy = "flush" /\ page' = Over(page)
        /\ UNCHANGED <<store, export, sessions>> /\ ~Queued
    BY DEF OrderlyInv, Stopped, Task, Goes
  <1>2. Lined(page) /\ Matched(page, export)
    BY <1>1 DEF Orderly
  <1>3. ~page.active /\ page.life # <<>>
    BY <1>1, <1>2, LifeTails DEF Lined
  <1>4. page.open
    BY <1>1, NotQueued
  <1>5. Orderly(Over(page), store, export, sessions)
    BY <1>1, <1>2, <1>3, <1>4, NothingAwaited, OverOrderly
  <1> QED BY <1>1, <1>5 DEF OrderlyInv

LEMMA ExportOrderly ==
  ASSUME NEW p, NEW st, NEW x, NEW y \in Exports, NEW ss, Orderly(p, st, x, ss),
         y.header.session <= ss, y = NoExport \/ ~Loads(p),
         \A i \in DOMAIN p.db : p.db[i].kind = "export" => y.stage = "reads"
  PROVE  Orderly(p, st, y, ss)
  <1>1. Matched(p, y)
    BY DEF Orderly, Matched, Awaited
  <1>2. Untouched(p, y)
    BY DEF Orderly, Untouched
  <1>3. Numbered(p, st, y, ss)
    BY DEF Orderly, Numbered
  <1> QED BY <1>1, <1>2, <1>3 DEF Orderly

LEMMA WithMetaFields ==
  ASSUME NEW p \in Pages, NEW m \in Described
  PROVE  LET r == [p EXCEPT !.meta = m]
         IN /\ r \in Pages /\ r.meta = m
            /\ r.open = p.open /\ r.active = p.active /\ r.batch = p.batch
            /\ r.writes = p.writes /\ r.failed = p.failed /\ r.db = p.db
            /\ r.life = p.life /\ r.busy = p.busy /\ r.flag = p.flag /\ r.saved = p.saved
  BY DEF Pages

\* What a transaction of this page leaves when it settles.
LEMMA DueSettled ==
  ASSUME OrderlyInv, ~Queued, page.db # <<>>
  PROVE  /\ Orderly(Settled, store, export, sessions) /\ page.open
         /\ \A i \in DOMAIN Settled.db : Settled.db[i].kind # Head(page.db).kind
         /\ Settled \in Pages /\ Matched(Settled, export)
         /\ Settled.open = page.open /\ Settled.active = page.active /\ Settled.meta = page.meta
         /\ Settled.batch = page.batch /\ Settled.writes = page.writes
         /\ Settled.failed = page.failed /\ Settled.life = page.life /\ Settled.busy = page.busy
         /\ Settled.flag = page.flag /\ Settled.saved = page.saved
         /\ Settled.db = Tail(page.db)
  <1> DEFINE s == [page EXCEPT !.db = Tail(@)]
  <1>1. Orderly(page, store, export, sessions)
    BY DEF OrderlyInv
  <1>2. /\ Orderly(s, store, export, sessions)
        /\ \A i \in DOMAIN s.db : s.db[i].kind # Head(page.db).kind
        /\ s.open = page.open /\ s.active = page.active /\ s.meta = page.meta /\ s.batch = page.batch
        /\ s.writes = page.writes /\ s.failed = page.failed /\ s.life = page.life
        /\ s.busy = page.busy /\ s.flag = page.flag /\ s.saved = page.saved /\ s.db = Tail(page.db)
    BY <1>1, SettledOrderly
  <1>3. Settled = s
    BY DEF Settled
  <1> HIDE DEF s
  <1>4. s \in Pages /\ Matched(s, export)
    BY <1>2 DEF Orderly
  <1>5. page.open
    BY NotQueued
  <1> QED BY <1>2, <1>3, <1>4, <1>5

LEMMA MetaReadOrderly == ASSUME OrderlyInv, MetaRead PROVE OrderlyInv'
  <1> DEFINE s == Settled
             m == store.meta
  <1>1. /\ Orderly(page, store, export, sessions) /\ page.db # <<>> /\ Head(page.db).kind = "read"
        /\ UNCHANGED <<store, export>> /\ ~Queued
    BY DEF OrderlyInv, MetaRead, Due, Task
  <1>2. page.busy \in {"resume", "view"}
    BY <1>1, TailElements DEF Orderly, Matched, Awaited, Pages
  <1>3. /\ Orderly(s, store, export, sessions) /\ page.open
        /\ \A i \in DOMAIN s.db : s.db[i].kind # "read"
        /\ s \in Pages /\ Matched(s, export)
        /\ s.open = page.open /\ s.active = page.active
        /\ s.batch = page.batch /\ s.writes = page.writes
        /\ s.failed = page.failed /\ s.life = page.life /\ s.busy = page.busy
    BY <1>1, DueSettled
  <1> HIDE DEF s
  <1>4. \A i \in DOMAIN s.db : s.db[i].kind # "read" /\ s.db[i].kind # "clear"
    BY <1>2, <1>3 DEF Matched, Awaited
  <1>5. /\ s.open /\ ~s.active /\ s.life # <<>>
        /\ page.busy = "view" => page.life \in {<<"load">>, <<"load", "start">>}
        /\ page.busy = "resume" => page.life = <<"load">>
    <2>1. Lined(page)
      BY <1>1 DEF Orderly
    <2> QED BY <1>2, <1>3, <2>1, LifeTails DEF Lined
  <1>6. Loads(page)
    BY <1>2, <1>5, LifeTails DEF Loads
  <1>7. page.writes = <<>> /\ page.failed = <<>> /\ page.batch = 0
    BY <1>1, <1>6 DEF Orderly, Untouched
  <1>8. m \in Described /\ m.session <= sessions /\ store \in Stores /\ export \in Exports
        /\ sessions \in Nat
    BY <1>1 DEF Orderly, Stores, Numbered
  <1> HIDE DEF m
  <1>9. CASE page.busy = "view" /\ page' = Over([s EXCEPT !.meta = m]) /\ sessions' = sessions
    <2> DEFINE t == [s EXCEPT !.meta = m]
               o == Over(s)
               r == Over(t)
    <2>1. /\ t \in Pages /\ t.meta = m
          /\ t.open = s.open /\ t.active = s.active /\ t.batch = s.batch
          /\ t.writes = s.writes /\ t.failed = s.failed /\ t.db = s.db
          /\ t.life = s.life /\ t.busy = s.busy
      BY <1>3, <1>8, WithMetaFields
    <2>2. Orderly(o, store, export, sessions) /\ ~Loads(o)
      BY <1>3, <1>4, <1>5, <1>9, OverOrderly
    <2>3. /\ o.open = s.open /\ o.active = s.active /\ o.batch = s.batch
          /\ o.writes = s.writes /\ o.failed = s.failed /\ o.db = s.db
          /\ o.busy = "no" /\ o.life = Tail(s.life)
      BY <1>3, <1>5, OverFields
    <2> HIDE DEF t, o
    <2>4. /\ r \in Pages
          /\ r.open = t.open /\ r.active = t.active /\ r.meta = t.meta /\ r.batch = t.batch
          /\ r.writes = t.writes /\ r.failed = t.failed /\ r.db = t.db
          /\ r.busy = "no" /\ r.life = Tail(t.life)
      BY <1>5, <2>1, OverFields
    <2> HIDE DEF r
    <2>5. /\ r.open = o.open /\ r.active = o.active /\ r.meta = m /\ r.batch = 0
          /\ r.writes = <<>> /\ r.failed = <<>> /\ r.db = o.db /\ r.busy = o.busy /\ r.life = o.life
          /\ o.writes = <<>> /\ o.active = s.active
      BY <1>3, <1>7, <2>1, <2>3, <2>4
    <2>6. Matched(r, export)
      BY <2>2, <2>5 DEF Orderly, Matched, Awaited
    <2>7. Lined(r) /\ ~Loads(r)
      BY <2>2, <2>5 DEF Orderly, Lined, Loads
    <2>8. Untouched(r, export)
      BY <1>5, <2>3, <2>5, <2>7 DEF Untouched
    <2>9. Numbered(r, store, export, sessions)
      BY <1>5, <1>8, <2>2, <2>3, <2>5 DEF Orderly, Numbered
    <2>10. Visible(r)
      BY <2>5 DEF Visible
    <2>11. Orderly(r, store, export, sessions)
      BY <1>8, <2>4, <2>6, <2>7, <2>8, <2>9, <2>10 DEF Orderly
    <2>12. page' = r
      BY <1>9 DEF r, t
    <2> QED BY <1>1, <1>9, <2>11, <2>12 DEF OrderlyInv
  <1>10. CASE page.busy = "resume" /\ page' = Fresh(s) /\ sessions' = sessions + 1
    <2>1. s.life = <<"load">>
      BY <1>3, <1>5, <1>10
    <2>2. Orderly(Fresh(s), store, export, sessions + 1)
      BY <1>3, <1>4, <1>5, <2>1, FreshOrderly
    <2> QED BY <1>1, <1>10, <2>2 DEF OrderlyInv
  <1>11. CASE page.busy = "resume" /\ m.session # 0 /\ page' = Activated([s EXCEPT !.meta = m])
              /\ sessions' = sessions
    <2> DEFINE t == [s EXCEPT !.meta = m]
    <2>1. /\ t \in Pages /\ t.meta = m
          /\ t.open = s.open /\ t.batch = s.batch
          /\ t.writes = s.writes /\ t.failed = s.failed /\ t.db = s.db
          /\ t.life = s.life /\ t.busy = s.busy
      BY <1>3, <1>8, WithMetaFields
    <2> HIDE DEF t
    <2>2. t.life = <<"load">> /\ t.open
      BY <1>3, <1>5, <1>11, <2>1
    <2>3. Matched(t, export)
      BY <1>3, <2>1 DEF Matched, Awaited
    <2>4. Numbered(t, store, export, sessions)
      <3>1. Numbered(s, store, export, sessions)
        BY <1>3 DEF Orderly
      <3> QED BY <1>8, <1>11, <2>1, <3>1 DEF Numbered
    <2>5. \A i \in DOMAIN t.db : t.db[i].kind # "read" /\ t.db[i].kind # "clear"
      BY <1>4, <2>1
    <2>6. t.meta.session # 0
      BY <1>11, <2>1
    <2>7. Orderly(Activated(t), store, export, sessions)
      BY <1>8, <2>1, <2>2, <2>3, <2>4, <2>5, <2>6, ActivatedOrderly
    <2> QED BY <1>1, <1>11, <2>7 DEF OrderlyInv, t
  <1>12. CASE page' = Rejected(s) /\ sessions' = sessions
    <2>1. Orderly(Rejected(s), store, export, sessions)
      BY <1>3, <1>4, <1>5, RejectedOrderly
    <2> QED BY <1>1, <1>12, <2>1 DEF OrderlyInv
  <1>13. CASE page.busy # "resume" /\ page' = Over(s) /\ sessions' = sessions
    <2>1. Orderly(Over(s), store, export, sessions)
      BY <1>2, <1>3, <1>4, <1>5, <1>13, OverOrderly
    <2> QED BY <1>1, <1>13, <2>1 DEF OrderlyInv
  <1> QED BY <1>9, <1>10, <1>11, <1>12, <1>13 DEF MetaRead, Task, Goes, s, m

LEMMA StoreClearedOrderly == ASSUME OrderlyInv, StoreCleared PROVE OrderlyInv'
  <1> DEFINE s == Settled
  <1>1. /\ Orderly(page, store, export, sessions) /\ page.db # <<>> /\ Head(page.db).kind = "clear"
        /\ UNCHANGED <<export, sessions>> /\ ~Queued
    BY DEF OrderlyInv, StoreCleared, Due, Task
  <1>2. page.busy = "clear"
    BY <1>1, TailElements DEF Orderly, Matched, Awaited, Pages
  <1>3. /\ Orderly(s, store, export, sessions) /\ page.open
        /\ \A i \in DOMAIN s.db : s.db[i].kind # "clear"
        /\ s \in Pages /\ Matched(s, export) /\ s.meta = page.meta
        /\ s.open = page.open /\ s.active = page.active
        /\ s.life = page.life /\ s.busy = page.busy
    BY <1>1, DueSettled
  <1> HIDE DEF s
  <1>4. \A i \in DOMAIN s.db : s.db[i].kind # "read" /\ s.db[i].kind # "clear"
    BY <1>2, <1>3 DEF Matched, Awaited
  <1>5. /\ s.open /\ ~s.active /\ s.life \in {<<"load">>, <<"start">>} /\ s.life # <<>>
    <2>1. Lined(page)
      BY <1>1 DEF Orderly
    <2> QED BY <1>2, <1>3, <2>1, LifeTails DEF Lined
  <1>6. page.meta.session # 0 /\ page.meta.session <= sessions /\ sessions \in Nat
        /\ page.meta \in Described /\ export \in Exports
    BY <1>1, <1>2 DEF Orderly, Numbered, Pages
  <1>7. CASE store' = [meta |-> page.meta, chunks |-> {}] /\ page' = Activated(s)
    <2>1. store' \in Stores /\ store'.meta = page.meta
      BY <1>6, <1>7 DEF Stores
    <2>2. Numbered(s, store, export, sessions)
      BY <1>3 DEF Orderly
    <2>3. Numbered(s, store', export, sessions)
      BY <1>6, <2>1, <2>2 DEF Numbered
    <2>4. Orderly(Activated(s), store', export, sessions)
      BY <1>3, <1>4, <1>5, <1>6, <2>1, <2>3, ActivatedOrderly
    <2> QED BY <1>1, <1>7, <2>4 DEF OrderlyInv
  <1>8. CASE store' = store /\ page' = Rejected(s)
    <2>1. Orderly(Rejected(s), store, export, sessions)
      BY <1>3, <1>4, <1>5, RejectedOrderly
    <2> QED BY <1>1, <1>8, <2>1 DEF OrderlyInv
  <1> QED BY <1>7, <1>8 DEF StoreCleared, Task, Goes, s

LEMMA StoredFields ==
  ASSUME NEW c \in Batches
  PROVE  /\ Stored(c) \in [session : Nat, sequence : Nat, n : Nat \ {0}]
         /\ Stored(c).session = c.meta.session /\ Stored(c).sequence = c.meta.chunks
         /\ Stored(c).n = c.n
  BY DEF Stored, Batches, Described

\* The chunk of a transaction is the first of the chain; it is written or refused.
LEMMA WriteDue ==
  ASSUME OrderlyInv, Due("write"), ~Queued
  PROVE  LET c == Head(page.db).chunk
         IN /\ c = page.writes[1] /\ c = Head(page.writes) /\ 1 \in DOMAIN page.writes
            /\ page.writes # <<>> /\ page.failed = <<>> /\ page.db # <<>> /\ Head(page.db).kind = "write"
            /\ page \in Pages /\ page.writes \in Seq(Batches) /\ c \in Batches /\ store \in Stores
            /\ Continued([Settled EXCEPT !.writes = Tail(@)]) = Written(page)
            /\ Continued(Failed([[Settled EXCEPT !.writes = Tail(@)] EXCEPT !.failed = Append(@, c)]))
                 = Refused(page, Head(page.writes))
            /\ page.active => page.life = <<>>
  <1>1. /\ Orderly(page, store, export, sessions) /\ page.db # <<>> /\ Head(page.db).kind = "write"
        /\ page \in Pages /\ store \in Stores
    BY DEF OrderlyInv, Due, Orderly
  <1>2. page.writes # <<>> /\ Head(page.db).chunk = Head(page.writes)
    <2>1. page.db \in Seq(Transactions)
      BY <1>1 DEF Pages
    <2>2. Head(page.db) = page.db[1] /\ 1 \in DOMAIN page.db
      BY <1>1, <2>1, TailElements
    <2> QED BY <1>1, <2>2 DEF Orderly, Matched, Awaited
  <1>3. page.failed = <<>>
    BY <1>1, <1>2 DEF Orderly, Visible
  <1>4. page.writes \in Seq(Batches)
    BY <1>1 DEF Pages
  <1>5. Head(page.writes) = page.writes[1] /\ 1 \in DOMAIN page.writes /\ Head(page.writes) \in Batches
    BY <1>2, <1>4, TailElements
  <1>6. Continued([Settled EXCEPT !.writes = Tail(@)]) = Written(page)
    BY DEF Settled, Written
  <1>7. Continued(Failed([[Settled EXCEPT !.writes = Tail(@)] EXCEPT !.failed = Append(@, Head(page.writes))]))
          = Refused(page, Head(page.writes))
    BY DEF Settled, Refused
  <1>8. page.active => page.life = <<>>
    BY <1>1, ActiveIdle DEF Queued
  <1> QED BY <1>1, <1>2, <1>3, <1>4, <1>5, <1>6, <1>7, <1>8

LEMMA WriteTyped ==
  ASSUME store \in Stores, NEW c \in Batches
  PROVE  Write(c) \in Stores /\ Write(c).meta = c.meta /\ Write(c).chunks = store.chunks \cup {Stored(c)}
  <1>1. c.meta \in Described
    BY DEF Batches
  <1>2. Stored(c) \in [session : Nat, sequence : Nat, n : Nat \ {0}]
    BY StoredFields
  <1> QED BY <1>1, <1>2 DEF Write, Stores

LEMMA ChunkWrittenOrderly == ASSUME OrderlyInv, ChunkWritten PROVE OrderlyInv'
  <1> DEFINE c == Head(page.db).chunk
  <1>1. Orderly(page, store, export, sessions) /\ Due("write") /\ ~Queued /\ UNCHANGED <<export, sessions>>
    BY DEF OrderlyInv, ChunkWritten, Task
  <1>2. /\ c = page.writes[1] /\ c = Head(page.writes)
        /\ page.db # <<>> /\ Head(page.db).kind = "write" /\ c \in Batches /\ store \in Stores
        /\ Continued([Settled EXCEPT !.writes = Tail(@)]) = Written(page)
        /\ Continued(Failed([[Settled EXCEPT !.writes = Tail(@)] EXCEPT !.failed = Append(@, c)]))
             = Refused(page, Head(page.writes))
        /\ page.active => page.life = <<>>
    BY <1>1, WriteDue
  <1>3. CASE store' = Write(c) /\ page' = Written(page)
    <2>1. store' \in Stores /\ store'.meta = page.writes[1].meta
      BY <1>2, <1>3, WriteTyped
    <2>2. Orderly(Written(page), store', export, sessions)
      BY <1>1, <1>2, <2>1, WrittenOrderly
    <2> QED BY <1>1, <1>3, <2>2 DEF OrderlyInv
  <1>4. CASE store' = store /\ page' = Refused(page, Head(page.writes))
    <2>1. Orderly(Refused(page, Head(page.writes)), store, export, sessions)
      BY <1>1, <1>2, RefusedOrderly
    <2> QED BY <1>1, <1>4, <2>1 DEF OrderlyInv
  <1>5. \/ store' = Write(c) /\ page' = Continued([Settled EXCEPT !.writes = Tail(@)])
        \/ /\ store' = store
           /\ page' = Continued(Failed([[Settled EXCEPT !.writes = Tail(@)] EXCEPT !.failed = Append(@, c)]))
    BY DEF ChunkWritten, Task, Goes
  <1> HIDE DEF c
  <1> QED BY <1>2, <1>3, <1>4, <1>5

LEMMA ExportStepOrderly == ASSUME OrderlyInv, Export PROVE OrderlyInv'
  <1> DEFINE s == Flushed(Sampled(page))
             y == [stage |-> "waits", header |-> s.meta, wait |-> Range(s.writes), rest |-> 0]
  <1>1. /\ Orderly(page, store, export, sessions) /\ page.open /\ page.busy = "no" /\ export = NoExport
        /\ page' = s /\ export' = y /\ UNCHANGED <<store, sessions>> /\ ~Queued
    BY DEF OrderlyInv, Export, Task, Goes
  <1>2. page.life = <<>> /\ page \in Pages
    BY <1>1 DEF Queued, Orderly
  <1>3. Orderly(Sampled(page), store, export, sessions)
    BY <1>1, SampledOrderly
  <1>4. Sampled(page).busy = "no" /\ Sampled(page).life = <<>> /\ Sampled(page) \in Pages
    BY <1>1, <1>2, SampledFields
  <1>5. Orderly(s, store, export, sessions)
    BY <1>3, <1>4, FlushedOrderly
  <1>6. s.life = <<>>
    BY <1>4, FlushedFields, FlushedEmpty
  <1> HIDE DEF s
  <1>7. s.meta \in Described /\ s.writes \in Seq(Batches) /\ s.meta.session <= sessions
    BY <1>5 DEF Orderly, Pages, Numbered
  <1>8. Range(s.writes) \subseteq Batches
    BY <1>7 DEF Range
  <1>9. y \in Exports /\ y.header = s.meta
    BY <1>7, <1>8 DEF Exports
  <1>10. ~Loads(s)
    BY <1>6 DEF Loads
  <1>11. \A i \in DOMAIN s.db : s.db[i].kind # "export"
    <2>1. export.stage # "reads"
      BY <1>1 DEF NoExport
    <2> QED BY <1>5, <2>1 DEF Orderly, Matched, Awaited
  <1> HIDE DEF y
  <1>12. Orderly(s, store, y, sessions)
    BY <1>5, <1>7, <1>9, <1>10, <1>11, ExportOrderly
  <1> QED BY <1>1, <1>12 DEF OrderlyInv

-----------------------------------------------------------------------------
(* Sums of samples *)

\* The sizes of the chunks of a queue, and of stored chunks.
Sizing(q) == [i \in DOMAIN q |-> q[i].n]
Weighing(S) == [k \in S |-> k.n]

LEMMA QueueSum ==
  ASSUME NEW q \in Seq(Batches), NEW S \in SUBSET DOMAIN q
  PROVE  /\ Sum(S, LAMBDA i : q[i].n) = Total(Sizing(q), S) /\ Total(Sizing(q), S) \in Nat
         /\ IsFiniteSet(S) /\ \A i \in DOMAIN q : Sizing(q)[i] = q[i].n /\ q[i].n \in Nat
  <1> DEFINE w == Sizing(q)
             body(g) == [s \in SUBSET S |->
                           IF s = {} THEN 0
                           ELSE q[CHOOSE x \in s : TRUE].n + g[s \ {CHOOSE x \in s : TRUE}]]
             same(g) == [s \in SUBSET S |->
                           IF s = {} THEN 0
                           ELSE w[CHOOSE x \in s : TRUE] + g[s \ {CHOOSE x \in s : TRUE}]]
             f == CHOOSE g : g = body(g)
  <1>1. DOMAIN q = 1..Len(q) /\ Len(q) \in Nat /\ \A i \in DOMAIN q : q[i] \in Batches
    OBVIOUS
  <1>2. IsFiniteSet(1..Len(q))
    <2>1. 1 \in Int /\ Len(q) \in Int
      BY <1>1
    <2> QED BY <2>1, FS_Interval
  <1>3. IsFiniteSet(S)
    BY <1>1, <1>2, FS_Subset
  <1>4. \A i \in DOMAIN q : w[i] = q[i].n /\ q[i].n \in Nat
    BY <1>1 DEF Sizing, Batches
  <1>5. Sum(S, LAMBDA i : q[i].n) = f[S]
    BY DEF Sum, MapThenSumSet, MapThenFoldSet
  <1> HIDE DEF w
  <1>6. ASSUME NEW g PROVE body(g) = same(g)
    <2>1. ASSUME NEW s \in SUBSET S, s # {}
          PROVE  w[CHOOSE x \in s : TRUE] = q[CHOOSE x \in s : TRUE].n
      <3>1. (CHOOSE x \in s : TRUE) \in DOMAIN q
        BY <2>1
      <3> QED BY <3>1, <1>4
    <2>2. ASSUME NEW s \in SUBSET S PROVE body(g)[s] = same(g)[s]
      BY <2>1
    <2> QED BY <2>2
  <1>7. (\E g : Summing(g, w, S)) => Summing(f, w, S)
    <2>1. \A g : Summing(g, w, S) <=> g = same(g)
      BY DEF Summing
    <2> HIDE DEF same, body
    <2>2. \A g : Summing(g, w, S) <=> g = body(g)
      BY <1>6, <2>1
    <2> QED BY <2>2
  <1>8. f[S] = Total(w, S)
    <2>1. \A x \in S : w[x] \in Nat
      BY <1>4
    <2> QED BY ONLY <1>3, <1>7, <2>1, ChosenSum
  <1>9. Total(w, S) \in Nat
    BY <1>3, <1>4, UnitsFinite
  <1> QED BY <1>3, <1>4, <1>5, <1>8, <1>9 DEF w

LEMMA StoreSum ==
  ASSUME NEW K, IsFiniteSet(K), \A k \in K : k.n \in Nat, NEW S \in SUBSET K
  PROVE  /\ Sum(S, LAMBDA k : k.n) = Total(Weighing(K), S) /\ Total(Weighing(K), S) \in Nat
         /\ IsFiniteSet(S) /\ \A k \in K : Weighing(K)[k] = k.n
  <1> DEFINE w == Weighing(K)
             body(g) == [s \in SUBSET S |->
                           IF s = {} THEN 0
                           ELSE (CHOOSE x \in s : TRUE).n + g[s \ {CHOOSE x \in s : TRUE}]]
             same(g) == [s \in SUBSET S |->
                           IF s = {} THEN 0
                           ELSE w[CHOOSE x \in s : TRUE] + g[s \ {CHOOSE x \in s : TRUE}]]
             f == CHOOSE g : g = body(g)
  <1>3. IsFiniteSet(S)
    BY FS_Subset
  <1>4. \A k \in K : w[k] = k.n /\ k.n \in Nat
    BY DEF Weighing
  <1>5. Sum(S, LAMBDA k : k.n) = f[S]
    BY DEF Sum, MapThenSumSet, MapThenFoldSet
  <1> HIDE DEF w
  <1>6. ASSUME NEW g PROVE body(g) = same(g)
    <2>1. ASSUME NEW s \in SUBSET S, s # {}
          PROVE  w[CHOOSE x \in s : TRUE] = (CHOOSE x \in s : TRUE).n
      <3>1. (CHOOSE x \in s : TRUE) \in K
        BY <2>1
      <3> QED BY <3>1, <1>4
    <2>2. ASSUME NEW s \in SUBSET S PROVE body(g)[s] = same(g)[s]
      BY <2>1
    <2> QED BY <2>2
  <1>7. (\E g : Summing(g, w, S)) => Summing(f, w, S)
    <2>1. \A g : Summing(g, w, S) <=> g = same(g)
      BY DEF Summing
    <2> HIDE DEF same, body
    <2>2. \A g : Summing(g, w, S) <=> g = body(g)
      BY <1>6, <2>1
    <2> QED BY <2>2
  <1>8. f[S] = Total(w, S)
    <2>1. \A x \in S : w[x] \in Nat
      BY <1>4
    <2> QED BY ONLY <1>3, <1>7, <2>1, ChosenSum
  <1>9. Total(w, S) \in Nat
    BY <1>3, <1>4, UnitsFinite
  <1> QED BY <1>3, <1>4, <1>5, <1>8, <1>9 DEF w

-----------------------------------------------------------------------------
(* Exporting keeps the order *)

LEMMA ExportReadsOrderly == ASSUME OrderlyInv, ExportReads PROVE OrderlyInv'
  <1> DEFINE n == Sum(KeptAside(export.header), LAMBDA i : page.failed[i].n)
             y == [export EXCEPT !.stage = "reads", !.wait = {},
                     !.header.error = @ \/ page.meta.error, !.rest = n]
             t == Transaction("export", NoChunk)
             r == [page EXCEPT !.db = Append(@, t)]
  <1>1. /\ Orderly(page, store, export, sessions) /\ export.stage = "waits" /\ page' = r
        /\ export' = y /\ UNCHANGED <<store, sessions>>
    BY DEF OrderlyInv, ExportReads, Task, Goes
  <1>2. page \in Pages /\ page.meta \in Described /\ page.failed \in Seq(Batches) /\ export \in Exports
        /\ export.header \in Described
    BY <1>1 DEF Orderly, Pages, Exports
  <1>3. n \in Nat
    <2>1. KeptAside(export.header) \in SUBSET DOMAIN page.failed
      BY DEF KeptAside
    <2> QED BY <1>2, <2>1, QueueSum
  <1>4. ~Loads(page)
    BY <1>1 DEF Orderly, Untouched, NoExport
  <1> HIDE DEF n
  <1>5. y \in Exports /\ y.stage = "reads" /\ y.header.session = export.header.session
    <2> DEFINE h == [export.header EXCEPT !.error = @ \/ page.meta.error]
    <2>1. page.meta.error \in BOOLEAN /\ export.header.error \in BOOLEAN
      BY <1>2 DEF Described
    <2>2. h \in Described /\ h.session = export.header.session
      BY <1>2, <2>1 DEF Described
    <2>3. y = [export EXCEPT !.stage = "reads", !.wait = {}, !.header = h, !.rest = n]
      BY <1>2 DEF Exports
    <2> HIDE DEF h
    <2> QED BY <1>2, <1>3, <2>2, <2>3 DEF Exports
  <1>6. export.header.session <= sessions
    BY <1>1 DEF Orderly, Numbered
  <1>7. \A i \in DOMAIN page.db : page.db[i].kind # "export"
    BY <1>1 DEF Orderly, Matched, Awaited
  <1> HIDE DEF y
  <1>8. Orderly(page, store, y, sessions)
    BY <1>1, <1>4, <1>5, <1>6, ExportOrderly
  <1>9. t \in Transactions /\ t.kind = "export"
    BY NoChunkTyped DEF Transaction
  <1> HIDE DEF t
  <1>10. Append(page.db, t) \in Seq(Transactions)
    BY <1>2, <1>9 DEF Pages
  <1>11. /\ r \in Pages /\ r.db = Append(page.db, t)
         /\ r.meta = page.meta /\ r.batch = page.batch /\ r.writes = page.writes
         /\ r.failed = page.failed /\ r.life = page.life /\ r.busy = page.busy
    BY <1>2, <1>10 DEF Pages
  <1>12. r.open = page.open /\ r.active = page.active
    BY <1>2, <1>10 DEF Pages
  <1> HIDE DEF r
  <1>13. Matched(r, y)
    <2>1. \A i \in DOMAIN page.db : Awaited(page.db[i], r, y) /\ page.db[i].kind # t.kind
      BY <1>7, <1>8, <1>9, <1>11 DEF Orderly, Matched, Awaited
    <2>2. Awaited(t, r, y)
      BY <1>5, <1>9 DEF Awaited
    <2> QED BY <1>2, <1>8, <1>9, <1>11, <2>1, <2>2, MatchedAppend DEF Orderly
  <1>14. Lined(r)
    <2>1. r.life # <<"load">>
      BY <1>4, <1>11, LifeTails DEF Loads
    <2>2. Lined(page)
      BY <1>1 DEF Orderly
    <2> QED BY <1>11, <1>12, <2>1, <2>2 DEF Lined
  <1>15. Untouched(r, y) /\ Numbered(r, store, y, sessions) /\ Visible(r)
    <2>1. Untouched(page, y) /\ Numbered(page, store, y, sessions) /\ Visible(page)
      BY <1>8 DEF Orderly
    <2>2. Untouched(r, y)
      BY <1>11, <1>12, <2>1 DEF Untouched, Loads
    <2>3. Numbered(r, store, y, sessions)
      BY <1>11, <1>12, <2>1 DEF Numbered
    <2>4. Visible(r)
      BY <1>11, <1>12, <2>1 DEF Visible
    <2> QED BY <2>2, <2>3, <2>4
  <1>16. Orderly(r, store, y, sessions)
    BY <1>8, <1>11, <1>13, <1>14, <1>15 DEF Orderly
  <1> QED BY <1>1, <1>16 DEF OrderlyInv

LEMMA NoExportTyped == NoExport \in Exports /\ NoExport.header = NoMeta /\ NoExport.stage = "none"
  BY NoMetaTyped DEF NoExport, Exports

LEMMA ExportEndsOrderly == ASSUME OrderlyInv, ExportEnds PROVE OrderlyInv'
  <1>1. /\ ~Queued /\ page.db # <<>> /\ Head(page.db).kind = "export" /\ page' = Settled
        /\ export' = NoExport /\ UNCHANGED <<store, sessions>>
    BY DEF ExportEnds, Due, Task, Goes
  <1>2. /\ Orderly(Settled, store, export, sessions)
        /\ \A i \in DOMAIN Settled.db : Settled.db[i].kind # "export"
    BY <1>1, DueSettled
  <1>3. NoExport.header.session <= sessions
    <2>1. sessions \in Nat
      BY <1>2 DEF Orderly
    <2> QED BY <2>1, NoExportTyped DEF NoMeta
  <1>4. Orderly(Settled, store, NoExport, sessions)
    BY <1>2, <1>3, NoExportTyped, ExportOrderly
  <1> QED BY <1>1, <1>4 DEF OrderlyInv

-----------------------------------------------------------------------------
(* The order of the recorder, whatever the user does *)

\* The page, its queues and the transactions of IndexedDB always fit together:
\* somebody waits for every transaction, at most one of a kind is under way, and
\* operations queue only behind the ones that may precede them.
THEOREM RecorderOrderly == Spec => []OrderlyInv
  <1>1. Init => OrderlyInv
    BY InitOrderly
  <1>2. OrderlyInv /\ [Next]_vars => OrderlyInv'
    <2> SUFFICES ASSUME OrderlyInv, [Next]_vars PROVE OrderlyInv'
      OBVIOUS
    <2>1. CASE Second
      BY <2>1, SecondOrderly
    <2>2. CASE EventStorm
      BY <2>2, EventStormOrderly
    <2>3. CASE Reload
      BY <2>3, ReloadOrderly
    <2>4. CASE Open
      BY <2>4, OpenOrderly
    <2>5. CASE Toggle
      BY <2>5, ToggleOrderly
    <2>6. CASE Load
      BY <2>6, LoadOrderly
    <2>7. CASE Start
      BY <2>7, StartOrderly
    <2>8. CASE Stop
      BY <2>8, StopOrderly
    <2>9. CASE Stopped
      BY <2>9, StoppedOrderly
    <2>10. CASE MetaRead
      BY <2>10, MetaReadOrderly
    <2>11. CASE StoreCleared
      BY <2>11, StoreClearedOrderly
    <2>12. CASE ChunkWritten
      BY <2>12, ChunkWrittenOrderly
    <2>13. CASE Export
      BY <2>13, ExportStepOrderly
    <2>14. CASE ExportReads
      BY <2>14, ExportReadsOrderly
    <2>15. CASE ExportEnds
      BY <2>15, ExportEndsOrderly
    <2>16. CASE UNCHANGED vars
      BY <2>16 DEF vars, OrderlyInv
    <2> QED BY <2>1, <2>2, <2>3, <2>4, <2>5, <2>6, <2>7, <2>8, <2>9, <2>10, <2>11, <2>12,
               <2>13, <2>14, <2>15, <2>16 DEF Next
  <1> QED BY <1>1, <1>2, PTL DEF Spec

\* A recording that cannot be stored is never shown as running: once a chunk was
\* kept aside nothing is recorded, and the session that it belongs to is not
\* called complete.
THEOREM FailuresAreVisible == Spec => []FailureVisible
  <1>1. OrderlyInv => FailureVisible
    <2> SUFFICES ASSUME OrderlyInv, NEW i \in DOMAIN page.failed
                 PROVE  ~page.active /\ (page.failed[i].meta.session = page.meta.session => page.meta.error)
      BY DEF FailureVisible
    <2>1. Visible(page)
      BY DEF OrderlyInv, Orderly
    <2>2. page.failed # <<>>
      OBVIOUS
    <2> QED BY <2>1, <2>2 DEF Visible
  <1> QED BY <1>1, RecorderOrderly, PTL

=============================================================================
