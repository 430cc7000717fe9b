-------------------------- MODULE JobPipelineProofs --------------------------
(***************************************************************************)
(* Proofs about what the jobs make of a video: its chunks, its automatic   *)
(* first pass and the stamps on its frames.                                *)
(***************************************************************************)
EXTENDS JobQueueProofs

-----------------------------------------------------------------------------
(* Counting the segments a fan-out inserts.                                *)

RankIn(M, s) == Cardinality({t \in M : t <= s})

LEMMA Ranked ==
  ASSUME NEW n \in Nat, NEW M \in SUBSET (0 .. n - 1)
  PROVE  /\ Cardinality(M) \in Nat
         /\ \A s \in M : RankIn(M, s) \in 1 .. Cardinality(M)
         /\ \A s, t \in M : s # t => RankIn(M, s) # RankIn(M, t)
         /\ \A k \in 1 .. Cardinality(M) : \E s \in M : RankIn(M, s) = k
<1> DEFINE upTo(s) == {t \in M : t <= s}
<1>1. IsFiniteSet(M) /\ \A s \in M : s \in Int
  <2>1. IsFiniteSet(0 .. n - 1)
    <3>1. 0 \in Int /\ n - 1 \in Int
      OBVIOUS
    <3> QED BY <3>1, FS_Interval
  <2>2. IsFiniteSet(M)
    BY <2>1, FS_Subset
  <2>3. \A s \in M : s \in 0 .. n - 1
    OBVIOUS
  <2>4. \A s \in M : s \in Int
    BY <2>3
  <2> QED BY <2>2, <2>4
<1>2. Cardinality(M) \in Nat
  BY <1>1, FS_CardinalityType
<1>3. ASSUME NEW s \in M
      PROVE  /\ IsFiniteSet(upTo(s)) /\ s \in upTo(s)
             /\ RankIn(M, s) \in 1 .. Cardinality(M)
  <2>1. upTo(s) \in SUBSET M /\ s \in upTo(s)
    BY <1>1
  <2>2. IsFiniteSet(upTo(s)) /\ Cardinality(upTo(s)) <= Cardinality(M)
    BY <1>1, <2>1, FS_Subset
  <2>3. Cardinality(upTo(s)) \in Nat
    BY <2>2, FS_CardinalityType
  <2>4. Cardinality(upTo(s)) # 0
    BY <2>1, <2>2, FS_EmptySet
  <2> QED BY <1>2, <2>1, <2>2, <2>3, <2>4 DEF RankIn
<1>4. ASSUME NEW s \in M, NEW t \in M, s < t
      PROVE  RankIn(M, s) < RankIn(M, t)
  <2>1. upTo(s) \cup {t} \in SUBSET upTo(t) /\ t \notin upTo(s)
    <3>1. s \in Int /\ t \in Int /\ \A x \in M : x \in Int
      BY <1>1
    <3>2. ~(t <= s) /\ t <= t
      BY <1>4, <3>1
    <3>3. \A x \in M : x <= s => x <= t
      BY <1>4, <3>1
    <3> QED BY <3>2, <3>3
  <2>2. IsFiniteSet(upTo(s)) /\ IsFiniteSet(upTo(t))
    BY <1>3
  <2>3. Cardinality(upTo(s) \cup {t}) = Cardinality(upTo(s)) + 1
    BY <2>1, <2>2, FS_AddElement
  <2>4. Cardinality(upTo(s) \cup {t}) <= Cardinality(upTo(t))
    BY <2>1, <2>2, FS_Subset
  <2>5. Cardinality(upTo(s)) \in Nat /\ Cardinality(upTo(t)) \in Nat
    BY <2>2, FS_CardinalityType
  <2> HIDE DEF upTo
  <2>6. Cardinality(upTo(s)) < Cardinality(upTo(t))
    BY <2>3, <2>4, <2>5
  <2> QED BY <2>6 DEF RankIn, upTo
<1>5. \A s, t \in M : s # t => RankIn(M, s) # RankIn(M, t)
  <2> SUFFICES ASSUME NEW s \in M, NEW t \in M, s # t
               PROVE  RankIn(M, s) # RankIn(M, t)
    OBVIOUS
  <2>1. s < t \/ t < s
    BY <1>1
  <2>2. RankIn(M, s) \in 1 .. Cardinality(M) /\ RankIn(M, t) \in 1 .. Cardinality(M)
    BY <1>3
  <2> QED BY <1>4, <2>1, <2>2
<1>6. \A k \in 1 .. Cardinality(M) : \E s \in M : RankIn(M, s) = k
  <2> DEFINE ranks == 1 .. Cardinality(M)
             f == [s \in M |-> RankIn(M, s)]
  <2>1. IsFiniteSet(ranks) /\ Cardinality(ranks) = Cardinality(M)
    BY <1>2, FS_Interval
  <2>2. f \in Injection(M, ranks)
    <3>1. f \in [M -> ranks]
      BY <1>3
    <3>2. \A a, b \in M : f[a] = f[b] => a = b
      BY <1>5
    <3> HIDE DEF f, ranks
    <3> QED BY <3>1, <3>2 DEF Injection, IsInjective
  <2>3. f \in Surjection(M, ranks)
    BY <2>1, <2>2, FS_Injection
  <2> QED BY <2>3 DEF Surjection
<1> QED BY <1>2, <1>3, <1>5, <1>6

-----------------------------------------------------------------------------
(* Chunks.                                                                 *)

\* The rows of one kind for one video are only added to.
LEMMA OfKept ==
  ASSUME NEW js, NEW new, TableStep(js, new), NEW kind, NEW v
  PROVE  Of(js, kind, v) = Of(new, kind, v) \cap DOMAIN js
BY DEF TableStep, RowStep, Of

\* No chunk job is inserted, and no chunk changes its job or its segment.
LEMMA PairingKept ==
  ASSUME ChunkPairing, TableStep(jobs, jobs'),
         \A i \in DOMAIN jobs' \ DOMAIN jobs : jobs'[i].kind # "chunk",
         NEW flip, chunks' = {flip[c] : c \in chunks},
         \A c \in chunks : /\ flip[c].job = c.job /\ flip[c].video = c.video
                           /\ flip[c].segment = c.segment
  PROVE  ChunkPairing'
<1>1. \A c \in chunks' : c.job \in Of(jobs', "chunk", c.video)
  BY OfKept DEF ChunkPairing
<1>2. \A i \in DOMAIN jobs' : jobs'[i].kind = "chunk" => \E c \in chunks' : c.job = i
  BY DEF ChunkPairing, TableStep, RowStep
<1>3. \A c, d \in chunks' : c # d =>
        c.job # d.job /\ <<c.video, c.segment>> # <<d.video, d.segment>>
  BY DEF ChunkPairing
<1> QED BY <1>1, <1>2, <1>3 DEF ChunkPairing

LEMMA PairingSame ==
  ASSUME ChunkPairing, TableStep(jobs, jobs'), chunks' = chunks,
         \A i \in DOMAIN jobs' \ DOMAIN jobs : jobs'[i].kind # "chunk"
  PROVE  ChunkPairing'
<1> DEFINE flip == [c \in chunks |-> c]
<1>1. /\ chunks' = {flip[c] : c \in chunks}
      /\ \A c \in chunks : flip[c] = c
  OBVIOUS
<1> HIDE DEF flip
<1> QED BY <1>1, PairingKept

\* The rows a fan-out inserts, and where.
LEMMA FanOutRows ==
  ASSUME IInv, NEW r \in net, FanOut(r)
  PROVE  LET v == jobs[r.job].video
             missing == Missing(v, r.segments)
             row == NewRow("chunk", v, "none", {})
         IN  /\ v \in Videos /\ Len(jobs) \in Nat
             /\ missing \in SUBSET (0 .. r.segments - 1) /\ r.segments \in Nat
             /\ DOMAIN jobs = 1 .. Len(jobs)
             /\ DOMAIN jobs' = 1 .. Len(jobs) + Cardinality(missing)
             /\ \A i \in DOMAIN jobs : jobs'[i] = jobs[i]
             /\ \A i \in DOMAIN jobs' \ DOMAIN jobs : jobs'[i] = row
             /\ TableStep(jobs, jobs')
<1> DEFINE v == jobs[r.job].video
           missing == Missing(v, r.segments)
           row == NewRow("chunk", v, "none", {})
           more == [k \in 1 .. Cardinality(missing) |-> row]
<1>1. r \in Request /\ r.segments \in Nat /\ r.job \in DOMAIN jobs
  BY DEF IInv, NetOK, Request, FanOut, Write
<1>2. v \in Videos /\ v # NoVideo
  BY <1>1, RowAt, NullsAreNoIds DEF IInv, FanOut, Write, Row, VideoOK
<1>3. missing \in SUBSET (0 .. r.segments - 1)
  BY DEF Missing
<1>4. jobs' = jobs \o more
  BY DEF FanOut
<1> HIDE DEF missing
<1>5. Cardinality(missing) \in Nat
  BY <1>1, <1>3, Ranked
<1>6. row \in Row
  BY <1>2, NewRowOK DEF Kinds
<1> HIDE DEF row, v
<1>7. jobs \in Seq(Row) /\ more \in Seq(Row) /\ Len(more) = Cardinality(missing)
  BY <1>5, <1>6 DEF IInv, TableOK
<1>8. \A k \in 1 .. Cardinality(missing) : more[k] = row
  OBVIOUS
<1> HIDE DEF more
<1>9. /\ jobs' \in Seq(Row)
      /\ Len(jobs') = Len(jobs) + Cardinality(missing)
      /\ \A i \in 1 .. Len(jobs) + Cardinality(missing) :
           jobs'[i] = IF i <= Len(jobs) THEN jobs[i] ELSE more[i - Len(jobs)]
  BY <1>4, <1>7, ConcatProperties
<1>10. /\ DOMAIN jobs = 1 .. Len(jobs) /\ Len(jobs) \in Nat
       /\ DOMAIN jobs' = 1 .. Len(jobs) + Cardinality(missing)
  BY <1>7, <1>9, LenProperties
<1>11. \A i \in DOMAIN jobs : jobs'[i] = jobs[i]
  BY <1>5, <1>9, <1>10
<1>12. \A i \in DOMAIN jobs' \ DOMAIN jobs : jobs'[i] = row
  BY <1>5, <1>8, <1>9, <1>10
<1>13. TableStep(jobs, jobs')
  BY FanOutOK DEF StepOK
<1> QED BY <1>1, <1>2, <1>3, <1>10, <1>11, <1>12, <1>13 DEF missing, row, v

\* The inserts of a fan-out pair each segment that was missing with the job
\* inserted for it.
LEMMA PairingFanOut ==
  ASSUME IInv, ChunkPairing, NEW r \in net, FanOut(r)
  PROVE  ChunkPairing'
<1> DEFINE v == jobs[r.job].video
           missing == Missing(v, r.segments)
           row == NewRow("chunk", v, "none", {})
           idOf(s) == Len(jobs) + RankIn(missing, s)
           chunk(s) == [job |-> idOf(s), video |-> v, segment |-> s, reported |-> FALSE]
<1>1. /\ v \in Videos /\ Len(jobs) \in Nat
      /\ missing \in SUBSET (0 .. r.segments - 1) /\ r.segments \in Nat
      /\ DOMAIN jobs = 1 .. Len(jobs)
      /\ DOMAIN jobs' = 1 .. Len(jobs) + Cardinality(missing)
      /\ \A i \in DOMAIN jobs : jobs'[i] = jobs[i]
      /\ \A i \in DOMAIN jobs' \ DOMAIN jobs : jobs'[i] = row
      /\ TableStep(jobs, jobs')
  BY FanOutRows
<1>2. chunks' = chunks \cup {chunk(s) : s \in missing}
  BY DEF FanOut, RankIn
<1>3. \A s \in missing : ~ \E c \in chunks : c.video = v /\ c.segment = s
  BY DEF Missing
<1>4. row.kind = "chunk" /\ row.video = v
  BY DEF NewRow
<1> HIDE DEF missing, v, row
<1>5. /\ Cardinality(missing) \in Nat
      /\ \A s \in missing : RankIn(missing, s) \in 1 .. Cardinality(missing)
      /\ \A s, t \in missing : s # t => RankIn(missing, s) # RankIn(missing, t)
      /\ \A k \in 1 .. Cardinality(missing) : \E s \in missing : RankIn(missing, s) = k
  BY <1>1, Ranked
<1>6. /\ \A s \in missing : idOf(s) \in DOMAIN jobs' \ DOMAIN jobs
      /\ \A s, t \in missing : s # t => idOf(s) # idOf(t)
      /\ \A i \in DOMAIN jobs' \ DOMAIN jobs : \E s \in missing : idOf(s) = i
  <2>1. \A s \in missing : idOf(s) \in DOMAIN jobs' \ DOMAIN jobs
    BY <1>1, <1>5
  <2>2. \A s, t \in missing : s # t => idOf(s) # idOf(t)
    <3> SUFFICES ASSUME NEW s \in missing, NEW t \in missing, s # t
                 PROVE  idOf(s) # idOf(t)
      OBVIOUS
    <3>1. /\ RankIn(missing, s) \in Int /\ RankIn(missing, t) \in Int
          /\ RankIn(missing, s) # RankIn(missing, t)
      BY <1>5
    <3> QED BY <1>1, <3>1
  <2>3. ASSUME NEW i \in DOMAIN jobs' \ DOMAIN jobs
        PROVE  \E s \in missing : idOf(s) = i
    <3>1. i - Len(jobs) \in 1 .. Cardinality(missing)
      BY <1>1, <1>5
    <3>2. PICK s \in missing : RankIn(missing, s) = i - Len(jobs)
      BY <1>5, <3>1
    <3>3. idOf(s) = i
      BY <1>1, <3>2
    <3> QED BY <3>3
  <2> QED BY <2>1, <2>2, <2>3
<1>7. \A s : /\ chunk(s).job = idOf(s) /\ chunk(s).video = v /\ chunk(s).segment = s
  OBVIOUS
<1> HIDE DEF idOf, chunk
<1>8. \A c \in chunks' : c.job \in Of(jobs', "chunk", c.video)
  <2>1. \A c \in chunks : c.job \in Of(jobs', "chunk", c.video)
    BY <1>1, OfKept DEF ChunkPairing
  <2>2. \A s \in missing : chunk(s).job \in Of(jobs', "chunk", chunk(s).video)
    BY <1>1, <1>4, <1>6, <1>7 DEF Of
  <2> QED BY <1>2, <2>1, <2>2
<1>9. \A i \in DOMAIN jobs' : jobs'[i].kind = "chunk" => \E c \in chunks' : c.job = i
  <2> SUFFICES ASSUME NEW i \in DOMAIN jobs', jobs'[i].kind = "chunk"
               PROVE  \E c \in chunks' : c.job = i
    OBVIOUS
  <2>1. CASE i \in DOMAIN jobs
    BY <1>1, <1>2, <2>1 DEF ChunkPairing
  <2>2. CASE i \notin DOMAIN jobs
    BY <1>2, <1>6, <1>7, <2>2
  <2> QED BY <2>1, <2>2
<1>10. ASSUME NEW c \in chunks', NEW d \in chunks', c # d
       PROVE  c.job # d.job /\ <<c.video, c.segment>> # <<d.video, d.segment>>
  <2>0. \A e \in chunks : e.job \in DOMAIN jobs
    BY DEF ChunkPairing, Of
  <2>1. CASE c \in chunks /\ d \in chunks
    BY <1>10, <2>1 DEF ChunkPairing
  <2>2. ASSUME NEW e \in chunks, NEW s \in missing
        PROVE  e.job # chunk(s).job
                 /\ <<e.video, e.segment>> # <<chunk(s).video, chunk(s).segment>>
    BY <1>3, <1>6, <1>7, <2>0
  <2>3. ASSUME NEW s \in missing, NEW t \in missing, c = chunk(s), d = chunk(t)
        PROVE  c.job # d.job /\ <<c.video, c.segment>> # <<d.video, d.segment>>
    <3>1. s # t
      BY <1>10, <2>3
    <3> QED BY <1>6, <1>7, <2>3, <3>1
  <2> QED BY <1>2, <2>1, <2>2, <2>3
<1> QED BY <1>8, <1>9, <1>10 DEF ChunkPairing

-----------------------------------------------------------------------------
(* The automatic first pass.                                               *)

ChunkedIn(js, v) ==
  /\ Of(js, "chunk", v) # {}
  /\ \A c \in Of(js, "chunk", v) : js[c].status = "done"

PassDue(js) == \A v \in Videos : ChunkedIn(js, v) => Of(js, "prelabel", v) # {}

Automatic(js, v) == {i \in Of(js, "prelabel", v) : js[i].frames = {}}

OnePass(js) == \A v \in Videos : \A i, k \in Automatic(js, v) : i = k

\* A step that completes no chunk and inserts none, nor an automatic pass.
Steady(old, new) ==
  /\ TableStep(old, new)
  /\ \A i \in DOMAIN old : new[i].status = "done" => old[i].status = "done"
  /\ \A i \in DOMAIN new \ DOMAIN old :
       new[i].kind # "chunk" /\ (new[i].kind = "prelabel" => new[i].frames # {})

LEMMA SteadyPasses ==
  ASSUME NEW js, NEW new, Steady(js, new), PassDue(js), OnePass(js)
  PROVE  PassDue(new) /\ OnePass(new)
<1>1. ASSUME NEW v \in Videos, ChunkedIn(new, v) PROVE Of(new, "prelabel", v) # {}
  <2>0. Of(js, "chunk", v) = Of(new, "chunk", v) \cap DOMAIN js
    BY OfKept DEF Steady
  <2>1. Of(new, "chunk", v) = Of(js, "chunk", v)
    <3>1. Of(new, "chunk", v) \subseteq DOMAIN js
      BY DEF Steady, Of
    <3> QED BY <2>0, <3>1
  <2>2. ChunkedIn(js, v)
    BY <1>1, <2>1 DEF ChunkedIn, Steady, Of
  <2> QED BY <2>2, OfKept DEF PassDue, Steady
<1>2. ASSUME NEW v \in Videos PROVE Automatic(new, v) = Automatic(js, v)
  BY OfKept DEF Automatic, Steady, TableStep, RowStep, Of
<1> QED BY <1>1, <1>2 DEF PassDue, OnePass

\* A fan-out inserts chunks still to be done.
LEMMA FanOutPasses ==
  ASSUME NEW js, NEW new, TableStep(js, new), PassDue(js), OnePass(js),
         \A i \in DOMAIN js : new[i] = js[i],
         \A i \in DOMAIN new \ DOMAIN js : new[i].kind = "chunk" /\ new[i].status = "pending"
  PROVE  PassDue(new) /\ OnePass(new)
<1>1. ASSUME NEW v \in Videos, ChunkedIn(new, v) PROVE Of(new, "prelabel", v) # {}
  <2>0. Of(js, "chunk", v) = Of(new, "chunk", v) \cap DOMAIN js
    BY OfKept
  <2>1. Of(new, "chunk", v) = Of(js, "chunk", v)
    <3>1. Of(new, "chunk", v) \subseteq DOMAIN js
      BY <1>1 DEF ChunkedIn, Of
    <3> QED BY <2>0, <3>1
  <2>2. ChunkedIn(js, v)
    BY <1>1, <2>1 DEF ChunkedIn, Of
  <2> QED BY <2>2, OfKept DEF PassDue
<1>2. ASSUME NEW v \in Videos PROVE Automatic(new, v) = Automatic(js, v)
  BY OfKept DEF Automatic, Of
<1> QED BY <1>1, <1>2 DEF PassDue, OnePass

\* The second statement of a completion's batch, after a first one that
\* completed no chunk but `id`.
LEMMA DueIsEnqueued ==
  ASSUME NEW js, TableOK(js), OnePass(js), NEW id,
         \A v \in Videos : ChunkedIn(js, v) =>
            \/ Of(js, "prelabel", v) # {}
            \/ id \in Of(js, "chunk", v) /\ js[id].status = "done"
  PROVE  PassDue(EnqueueIfDue(js, id)) /\ OnePass(EnqueueIfDue(js, id))
<1>1. CASE PrelabelDue(js, id)
  <2> DEFINE video == js[id].video
             row == NewRow("prelabel", video, "random", {})
             new == Append(js, row)
  <2>1. EnqueueIfDue(js, id) = new
    BY <1>1 DEF EnqueueIfDue
  <2>2. TableStep(js, EnqueueIfDue(js, id)) /\ js \in Seq(Row)
    BY EnqueueIfDueStep DEF TableOK
  <2>3. row.kind = "prelabel" /\ row.video = video
    BY DEF NewRow
  <2>4. Of(js, "prelabel", video) = {}
    BY <1>1 DEF PrelabelDue
  <2> HIDE DEF row, video
  <2>5. /\ DOMAIN new = DOMAIN js \cup {Len(js) + 1}
        /\ new[Len(js) + 1] = row
        /\ \A i \in DOMAIN js : new[i] = js[i]
    BY <2>2
  <2> HIDE DEF new
  <2>6. \A v : Of(new, "chunk", v) = Of(js, "chunk", v)
    BY <2>1, <2>2, <2>3, <2>5, OfKept DEF Of
  <2>7. \A v : Of(js, "prelabel", v) \subseteq Of(new, "prelabel", v)
    BY <2>1, <2>2, OfKept
  <2>8. Len(js) + 1 \in Of(new, "prelabel", video)
    BY <2>3, <2>5 DEF Of
  <2>9. PassDue(new)
    <3> SUFFICES ASSUME NEW v \in Videos, ChunkedIn(new, v)
                 PROVE  Of(new, "prelabel", v) # {}
      BY DEF PassDue
    <3>1. ChunkedIn(js, v)
      BY <2>5, <2>6 DEF ChunkedIn, Of
    <3>2. CASE id \in Of(js, "chunk", v)
      BY <2>8, <3>2 DEF Of, video
    <3> QED BY <2>7, <3>1, <3>2
  <2>10. OnePass(new)
    <3> SUFFICES ASSUME NEW v \in Videos, NEW i \in Automatic(new, v),
                        NEW k \in Automatic(new, v)
                 PROVE  i = k
      BY DEF OnePass
    <3>1. CASE v = video
      <4>1. \A x \in Of(new, "prelabel", v) : x = Len(js) + 1
        BY <2>4, <2>5, <3>1 DEF Of
      <4> QED BY <4>1 DEF Automatic
    <3>2. CASE v # video
      <4>1. \A x \in Automatic(new, v) : x \in Automatic(js, v)
        BY <2>3, <2>5, <3>2 DEF Of, Automatic
      <4> QED BY <4>1 DEF OnePass
    <3> QED BY <3>1, <3>2
  <2> QED BY <2>1, <2>9, <2>10
<1>2. CASE ~PrelabelDue(js, id)
  <2>1. EnqueueIfDue(js, id) = js
    BY <1>2 DEF EnqueueIfDue
  <2>2. PassDue(js)
    BY <1>2 DEF PassDue, PrelabelDue, ChunkedIn, Of
  <2> QED BY <2>1, <2>2
<1> QED BY <1>1, <1>2

\* What it inserts is no chunk.
LEMMA DueIsNoChunk ==
  ASSUME NEW js, TableOK(js), NEW id
  PROVE  \A i \in DOMAIN EnqueueIfDue(js, id) \ DOMAIN js : EnqueueIfDue(js, id)[i].kind # "chunk"
<1> DEFINE row == NewRow("prelabel", js[id].video, "random", {})
<1>1. js \in Seq(Row) /\ row.kind = "prelabel"
  BY DEF TableOK, NewRow
<1> HIDE DEF row
<1>2. \A i \in DOMAIN Append(js, row) \ DOMAIN js : Append(js, row)[i].kind # "chunk"
  BY <1>1
<1> QED BY <1>2 DEF EnqueueIfDue, row

\* The whole batch.
LEMMA CompletionEnqueues ==
  ASSUME IInv, PassDue(jobs), OnePass(jobs), NEW r \in net, CompleteAccepted(r)
  PROVE  PassDue(jobs') /\ OnePass(jobs')
<1> DEFINE mid == Finish(jobs, r.job, r.status)
<1>1. /\ HeldBy(jobs, r.job, r.worker) /\ jobs' = EnqueueIfDue(mid, r.job)
      /\ r.worker \in Workers /\ r.status \in {"done", "failed"}
  BY DEF CompleteAccepted, IInv, NetOK, Request
<1>2. TableStep(jobs, mid)
  BY <1>1, FinishStep DEF IInv
<1>3. /\ DOMAIN mid = DOMAIN jobs
      /\ \A i \in DOMAIN jobs \ {r.job} : mid[i] = jobs[i]
  BY <1>1 DEF Finish, IInv, TableOK
<1> HIDE DEF mid
<1>4. \A v : /\ Of(mid, "chunk", v) = Of(jobs, "chunk", v)
             /\ Of(mid, "prelabel", v) = Of(jobs, "prelabel", v)
  BY <1>2, <1>3, OfKept DEF Of
<1>5. OnePass(mid)
  <2>1. \A v : Automatic(mid, v) = Automatic(jobs, v)
    BY <1>2, <1>3, <1>4 DEF Automatic, TableStep, RowStep, Of
  <2> QED BY <2>1 DEF OnePass
<1>6. ASSUME NEW v \in Videos, ChunkedIn(mid, v)
      PROVE  \/ Of(mid, "prelabel", v) # {}
             \/ r.job \in Of(mid, "chunk", v) /\ mid[r.job].status = "done"
  <2>1. CASE r.job \in Of(mid, "chunk", v)
    BY <1>6, <2>1 DEF ChunkedIn
  <2>2. CASE r.job \notin Of(mid, "chunk", v)
    <3>1. ChunkedIn(jobs, v)
      BY <1>3, <1>4, <1>6, <2>2 DEF ChunkedIn, Of
    <3> QED BY <1>4, <3>1 DEF PassDue
  <2> QED BY <2>1, <2>2
<1>7. TableOK(mid)
  BY <1>2 DEF TableStep
<1> QED BY <1>1, <1>5, <1>6, <1>7, DueIsEnqueued

\* A completion that is refused may still enqueue, and never twice.
LEMMA RefusedEnqueues ==
  ASSUME IInv, PassDue(jobs), OnePass(jobs), NEW r \in net, CompleteRefused(r)
  PROVE  PassDue(jobs') /\ OnePass(jobs')
BY DueIsEnqueued DEF CompleteRefused, IInv, PassDue

-----------------------------------------------------------------------------
(* The invariant of the pipeline.                                          *)

PipelineInv == ChunkPairing /\ PassDue(jobs) /\ OnePass(jobs)

\* What the steps that leave the pipeline alone do to the table.
LEMMA SteadyQuiet ==
  ASSUME NEW js, NEW new, TableStep(js, new), Quiet(js, new), DOMAIN new = DOMAIN js
  PROVE  Steady(js, new)
BY DEF Steady, Quiet, QuietRow

LEMMA SteadySame == ASSUME NEW js, TableOK(js) PROVE Steady(js, js)
BY SameTable DEF Steady

LEMMA SteadyUpdates ==
  ASSUME NEW js, TableOK(js)
  PROVE  /\ \A id, w : w \in Workers /\ HeldBy(js, id, w) => Steady(js, Renew(js, id))
         /\ \A id, w : w \in Workers /\ id \in Pending(js) => Steady(js, Claim(js, id, w))
         /\ Steady(js, AgeRows(js)) /\ Steady(js, Reap(js))
<1>1. ASSUME NEW id, NEW w \in Workers, HeldBy(js, id, w) PROVE Steady(js, Renew(js, id))
  <2>1. TableStep(js, Renew(js, id)) /\ Quiet(js, Renew(js, id))
    BY <1>1, RenewStep, QuietUpdates
  <2>2. DOMAIN Renew(js, id) = DOMAIN js
    BY DEF Renew
  <2> QED BY <2>1, <2>2, SteadyQuiet
<1>2. ASSUME NEW w \in Workers, NEW id \in Pending(js) PROVE Steady(js, Claim(js, id, w))
  <2>1. TableStep(js, Claim(js, id, w))
    BY ClaimStep
  <2>2. /\ DOMAIN Claim(js, id, w) = DOMAIN js
        /\ \A i \in DOMAIN js \ {id} : Claim(js, id, w)[i] = js[i]
    BY DEF Claim
  <2>3. id \in DOMAIN js /\ js[id] \in Row
    BY RowAt DEF Pending
  <2>4. Claim(js, id, w)[id].status = "claimed"
    BY <2>3 DEF Claim, Row
  <2> QED BY <2>1, <2>2, <2>4 DEF Steady
<1>3. Steady(js, AgeRows(js))
  <2>1. DOMAIN AgeRows(js) = DOMAIN js
    BY DEF AgeRows
  <2> QED BY <2>1, AgeRowsStep, QuietUpdates, SteadyQuiet
<1>4. Steady(js, Reap(js))
  <2>1. DOMAIN Reap(js) = DOMAIN js
    BY DEF Reap
  <2> QED BY <2>1, ReapStep, QuietUpdates, SteadyQuiet
<1> QED BY <1>1, <1>2, <1>3, <1>4

LEMMA SteadyInsert ==
  ASSUME NEW js, TableOK(js), NEW row \in Row, LeaseOK(row), VideoOK(row),
         row.kind # "chunk", row.kind = "prelabel" => row.frames # {}
  PROVE  Steady(js, Append(js, row))
<1>1. js \in Seq(Row)
  BY DEF TableOK
<1>2. /\ DOMAIN Append(js, row) = DOMAIN js \cup {Len(js) + 1}
      /\ Append(js, row)[Len(js) + 1] = row
      /\ \A i \in DOMAIN js : Append(js, row)[i] = js[i]
  BY <1>1
<1>3. TableStep(js, Append(js, row))
  BY InsertRowStep
<1> QED BY <1>2, <1>3 DEF Steady

LEMMA SteadyAdmin ==
  ASSUME IInv, \/ \E v \in Videos : SubmitVideo(v) \/ CreatePrelabel(v) \/ CreateDryRun(v)
               \/ CreateSnapshot
  PROVE  Steady(jobs, jobs') /\ UNCHANGED rows
<1>1. ASSUME NEW kind \in Kinds, NEW video \in Videos \cup {NoVideo},
             kind = "snapshot" <=> video = NoVideo,
             NEW mode \in Modes \cup {"none"}, NEW frames \in SUBSET Frames,
             kind # "chunk", kind = "prelabel" => frames # {},
             jobs' = Append(jobs, NewRow(kind, video, mode, frames))
      PROVE  Steady(jobs, jobs')
  <2> DEFINE row == NewRow(kind, video, mode, frames)
  <2>1. row \in Row /\ LeaseOK(row) /\ VideoOK(row)
    BY <1>1, NewRowOK
  <2>2. row.kind = kind /\ row.frames = frames
    BY DEF NewRow
  <2> HIDE DEF row
  <2>3. Steady(jobs, Append(jobs, row))
    BY <1>1, <2>1, <2>2, SteadyInsert DEF IInv
  <2> QED BY <1>1, <2>3 DEF row
<1>2. CASE \E v \in Videos : SubmitVideo(v)
  BY <1>1, <1>2, NullsAreNoIds DEF SubmitVideo, Kinds
<1>3. CASE \E v \in Videos : CreatePrelabel(v)
  <2>1. PICK v \in Videos : CreatePrelabel(v)
    BY <1>3
  <2>2. PICK mode \in Modes, frames \in (SUBSET PoolOf(v)) \ {{}} :
          Enqueue(NewRow("prelabel", v, mode, frames))
    BY <2>1 DEF CreatePrelabel
  <2>3. frames \in SUBSET Frames /\ frames # {} /\ v # NoVideo
    BY NullsAreNoIds DEF PoolOf, IInv, RowsOK
  <2>4. /\ jobs' = Append(jobs, NewRow("prelabel", v, mode, frames))
        /\ UNCHANGED rows
    BY <2>2 DEF Enqueue
  <2> QED BY <1>1, <2>3, <2>4 DEF Kinds
<1>4. CASE \E v \in Videos : CreateDryRun(v)
  BY <1>1, <1>4, NullsAreNoIds DEF CreateDryRun, Enqueue, Kinds
<1>5. CASE CreateSnapshot
  BY <1>1, <1>5 DEF CreateSnapshot, Enqueue, Kinds
<1> QED BY <1>2, <1>3, <1>4, <1>5

LEMMA PipelineSteady ==
  ASSUME PipelineInv, Steady(jobs, jobs'), chunks' = chunks
  PROVE  PipelineInv'
BY PairingSame, SteadyPasses DEF PipelineInv, Steady

LEMMA PipelineHandle ==
  ASSUME IInv, PipelineInv, NEW r \in net, Handle(r)
  PROVE  PipelineInv'
<1>0. r.worker \in Workers /\ TableOK(jobs) /\ Steady(jobs, jobs)
  BY SteadySame DEF IInv, NetOK, Request
<1>1. CASE ClaimGranted(r)
  <2>1. PICK id \in OldestPending(jobs) : jobs' = Claim(jobs, id, r.worker)
    BY <1>1 DEF ClaimGranted
  <2>2. id \in Pending(jobs) /\ chunks' = chunks
    BY <1>1 DEF OldestPending, ClaimGranted, rows
  <2> QED BY <1>0, <2>1, <2>2, SteadyUpdates, PipelineSteady
<1>2. CASE HeartbeatRenews(r)
  BY <1>0, <1>2, SteadyUpdates, PipelineSteady DEF HeartbeatRenews, rows
<1>3. CASE \/ ClaimEmpty(r) \/ HeartbeatRefused(r) \/ ReportChecked(r) \/ ReportRefused(r)
           \/ ReportPredictions(r) \/ ReportArtifact(r)
  <2>1. jobs' = jobs /\ chunks' = chunks
    BY <1>3, Zenon DEF ClaimEmpty, HeartbeatRefused, ReportChecked, ReportRefused,
       ReportPredictions, ReportArtifact, Refuse, rows
  <2> QED BY <1>0, <2>1, PipelineSteady
<1>4. CASE FanOut(r)
  <2> DEFINE row == NewRow("chunk", jobs[r.job].video, "none", {})
  <2>1. /\ TableStep(jobs, jobs')
        /\ \A i \in DOMAIN jobs : jobs'[i] = jobs[i]
        /\ \A i \in DOMAIN jobs' \ DOMAIN jobs : jobs'[i] = row
    BY <1>4, FanOutRows
  <2>2. row.kind = "chunk" /\ row.status = "pending"
    BY DEF NewRow
  <2> HIDE DEF row
  <2>3. PassDue(jobs') /\ OnePass(jobs')
    BY <2>1, <2>2, FanOutPasses DEF PipelineInv
  <2>4. ChunkPairing'
    BY <1>4, PairingFanOut DEF PipelineInv
  <2> QED BY <2>3, <2>4 DEF PipelineInv
<1>5. CASE ReportImages(r)
  <2> DEFINE flag(c) == IF c.job = r.job THEN [c EXCEPT !.reported = TRUE] ELSE c
             flip == [c \in chunks |-> IF HeldBy(jobs, r.job, r.worker) THEN flag(c) ELSE c]
  <2>1. chunks' = {flip[c] : c \in chunks} /\ jobs' = jobs
    BY <1>5 DEF ReportImages
  <2>2. \A c \in chunks : /\ flip[c].job = c.job /\ flip[c].video = c.video
                          /\ flip[c].segment = c.segment
    BY DEF IInv, RowsOK, Chunk
  <2> HIDE DEF flip
  <2>3. ChunkPairing'
    BY <1>0, <2>1, <2>2, PairingKept DEF PipelineInv, Steady
  <2> QED BY <2>1, <2>3 DEF PipelineInv
<1>6. CASE CompleteAccepted(r)
  <2>1. PassDue(jobs') /\ OnePass(jobs')
    BY <1>6, CompletionEnqueues DEF PipelineInv
  <2>2. ChunkPairing'
    <3> DEFINE mid == Finish(jobs, r.job, r.status)
    <3>1. TableStep(jobs, mid) /\ DOMAIN mid = DOMAIN jobs
      BY <1>0, <1>6, FinishStep DEF CompleteAccepted, IInv, NetOK, Finish
    <3>2. jobs' = EnqueueIfDue(mid, r.job) /\ chunks' = chunks
      BY <1>6 DEF CompleteAccepted, rows
    <3> HIDE DEF mid
    <3>3. TableStep(jobs, jobs')
      BY <1>6, HandleOK DEF Handle, StepOK
    <3>4. \A i \in DOMAIN jobs' \ DOMAIN jobs : jobs'[i].kind # "chunk"
      BY <3>1, <3>2, DueIsNoChunk DEF TableStep
    <3> QED BY <3>2, <3>3, <3>4, PairingSame DEF PipelineInv
  <2> QED BY <2>1, <2>2 DEF PipelineInv
<1>7. CASE CompleteRefused(r)
  <2>1. PassDue(jobs') /\ OnePass(jobs')
    BY <1>7, RefusedEnqueues DEF PipelineInv
  <2>2. jobs' = EnqueueIfDue(jobs, r.job) /\ chunks' = chunks
    BY <1>7 DEF CompleteRefused, Refuse, rows
  <2>3. TableStep(jobs, jobs') /\ \A i \in DOMAIN jobs' \ DOMAIN jobs : jobs'[i].kind # "chunk"
    BY <1>0, <2>2, EnqueueIfDueStep, DueIsNoChunk
  <2>4. ChunkPairing'
    BY <2>2, <2>3, PairingSame DEF PipelineInv
  <2> QED BY <2>1, <2>4 DEF PipelineInv
<1> QED BY <1>1, <1>2, <1>3, <1>4, <1>5, <1>6, <1>7 DEF Handle

LEMMA PipelineStep ==
  ASSUME IInv, PipelineInv, [Next]_vars PROVE PipelineInv'
<1>0. TableOK(jobs) /\ Steady(jobs, jobs)
  BY SteadySame DEF IInv
<1>1. CASE UNCHANGED vars
  BY <1>0, <1>1, PipelineSteady DEF vars
<1>2. ASSUME NEW w \in Workers, WorkerStep(w) PROVE PipelineInv'
  <2>1. jobs' = jobs /\ chunks' = chunks
    BY <1>2, Zenon DEF WorkerStep, Poll, Beat, BeatFails, SendReport, WorkSucceeds,
       WorkIsDoomed, LetGo, rows
  <2> QED BY <1>0, <2>1, PipelineSteady
<1>3. ASSUME NEW r \in net, Handle(r) PROVE PipelineInv'
  BY <1>3, PipelineHandle
<1>4. ASSUME NEW r \in net, StrayLost(r) PROVE PipelineInv'
  BY <1>0, <1>4, PipelineSteady DEF StrayLost, rows
<1>5. CASE \/ \E v \in Videos : SubmitVideo(v) \/ CreatePrelabel(v) \/ CreateDryRun(v)
           \/ CreateSnapshot
  BY <1>5, SteadyAdmin, PipelineSteady DEF rows
<1>6. CASE Tick \/ ReapStaleJobs
  BY <1>0, <1>6, SteadyUpdates, PipelineSteady DEF Tick, ReapStaleJobs, rows
<1> QED BY <1>1, <1>2, <1>3, <1>4, <1>5, <1>6 DEF Next

\* There are no chunks and no passes at first.
LEMMA PipelineInit == Init => PipelineInv
BY DEF Init, PipelineInv, ChunkPairing, PassDue, OnePass, ChunkedIn, Automatic, Of

\* At most one element, at most one counted.
LEMMA AtMostOne ==
  ASSUME NEW S, \A i, k \in S : i = k PROVE Cardinality(S) <= 1
<1>1. CASE S = {}
  BY <1>1, FS_EmptySet
<1>2. CASE S # {}
  <2>1. PICK i \in S : TRUE
    BY <1>2
  <2>2. S = {i}
    BY <2>1
  <2>3. Cardinality({i}) = 1
    BY FS_Singleton
  <2> QED BY <2>2, <2>3
<1> QED BY <1>1, <1>2

\* What is known of chunks and passes holds of every reachable state.
THEOREM PipelineInvariant == Spec => []PipelineInv
<1>1. IInv /\ PipelineInv /\ [Next]_vars => PipelineInv'
  BY PipelineStep
<1> QED BY <1>1, PipelineInit, Invariance, PTL DEF Spec

\* Every chunks row has its job and every chunk job its row, one segment
\* each, however often a fan-out is served again.
THEOREM ChunksPair == Spec => []ChunkPairing
<1>1. PipelineInv => ChunkPairing
  BY DEF PipelineInv
<1> QED BY <1>1, PipelineInvariant, PTL

\* In whatever order the completions of its chunks are served, accepted or
\* refused, a video whose chunks are done has a prelabel job.
THEOREM LastChunkIsHeard == Spec => []LastChunkEnqueues
<1>1. PipelineInv => LastChunkEnqueues
  BY DEF PipelineInv, PassDue, ChunkedIn, LastChunkEnqueues, Chunked
<1> QED BY <1>1, PipelineInvariant, PTL

\* And never two automatic ones.
THEOREM OneAutomaticPass == Spec => []AutomaticPassOnce
<1>1. PipelineInv => AutomaticPassOnce
  <2> SUFFICES ASSUME PipelineInv, NEW v \in Videos
               PROVE  Cardinality(Automatic(jobs, v)) <= 1
    BY DEF AutomaticPassOnce, Automatic
  <2> QED BY AtMostOne DEF PipelineInv, OnePass
<1> QED BY <1>1, PipelineInvariant, PTL

-----------------------------------------------------------------------------
(* Stamps.                                                                 *)

\* A job's own list is of frames of its video, and a report's frames are
\* those its job may stamp.
FramesFit(js) == \A i \in DOMAIN js : \A f \in js[i].frames : f[1] = js[i].video

Stamps(row, f) ==
  row.kind = "prelabel" /\ row.video = f[1] /\ (row.frames = {} \/ f \in row.frames)

AsksFit(n, js) == \A r \in n : r.op = "report" => \A f \in r.frames : Stamps(js[r.job], f)

StampsInv == FramesFit(jobs) /\ AsksFit(net, jobs) /\ StampHasSource

\* Where a report in flight comes from.
LEMMA ReportsComeFrom ==
  ASSUME IInv, [Next]_vars, NEW q \in net', q.op = "report"
  PROVE  \/ \E r \in net : Alike(q, r)
         \/ \E w \in Workers : /\ worker[w].pc = "working" /\ q.job = worker[w].job
                               /\ q.frames = FramesFor(jobs[q.job]) /\ jobs' = jobs
<1>0. net \subseteq Request /\ \A p : Alike(p, p)
  BY DEF IInv, NetOK, Alike
<1>1. CASE net' \subseteq net
  BY <1>0, <1>1
<1>2. ASSUME NEW S \in SUBSET net, NEW m \in Cut(net, S), q \in m
      PROVE  \E r \in net : Alike(q, r)
  BY <1>2, CutAlike
<1>3. ASSUME NEW w \in Workers, WorkerStep(w), q \notin net
      PROVE  \/ \E r \in net : Alike(q, r)
             \/ /\ worker[w].pc = "working" /\ q.job = worker[w].job
                /\ q.frames = FramesFor(jobs[q.job]) /\ jobs' = jobs
  <2>0. Live(w) \in SUBSET net /\ Beats(w) \in SUBSET net
    BY DEF Live, Beats
  <2>1. CASE Poll(w)
    BY <1>3, <2>1, AskFields DEF Poll
  <2>2. CASE Beat(w)
    BY <1>3, <2>2, AskFields DEF Beat
  <2>3. CASE BeatFails(w) \/ LetGo(w)
    BY <1>2, <2>0, <2>3 DEF BeatFails, LetGo
  <2>4. CASE SendReport(w)
    <3> DEFINE frames == FramesFor(jobs[worker[w].job])
               made(n) == [Ask("report", w) EXCEPT !.segments = n, !.frames = frames]
    <3>1. PICK n : net' = net \cup {made(n)}
      BY <2>4 DEF SendReport
    <3>2. made(n).job = worker[w].job /\ made(n).frames = frames
      BY AskFields
    <3>3. q = made(n)
      BY <1>3, <3>1
    <3> HIDE DEF made
    <3> QED BY <2>4, <3>2, <3>3 DEF SendReport
  <2>5. ASSUME NEW status, SendComplete(w, status)
        PROVE  \E r \in net : Alike(q, r)
    <3> DEFINE a == [Ask("complete", w) EXCEPT !.status = status]
    <3>1. PICK n \in Cut(net, Live(w)) : net' = n \cup {a}
      BY <2>5 DEF SendComplete
    <3>2. a.op = "complete"
      BY AskFields
    <3> HIDE DEF a
    <3>3. q \in n
      BY <3>1, <3>2
    <3> QED BY <1>2, <2>0, <3>3
  <2> QED BY <1>3, <2>1, <2>2, <2>3, <2>4, <2>5 DEF WorkerStep, WorkSucceeds, WorkIsDoomed
<1>4. ASSUME NEW r \in net, Handle(r), q \notin net PROVE \E p \in net : Alike(q, p)
  <2>1. CASE ReportChecked(r)
    BY <1>0, <1>4, <2>1, CheckedOf DEF ReportChecked
  <2>2. CASE Refuse(r)
    BY <2>2, RefuseAlike
  <2>3. net' \subseteq net \/ Refuse(r) \/ ReportChecked(r)
    BY <1>4, Zenon DEF Handle, ClaimGranted, ClaimEmpty, HeartbeatRenews,
       HeartbeatRefused, ReportRefused, FanOut, ReportImages, ReportPredictions,
       ReportArtifact, Write, CompleteAccepted, CompleteRefused
  <2> QED BY <1>1, <1>4, <2>1, <2>2, <2>3
<1>5. ASSUME \/ UNCHANGED vars \/ Tick \/ ReapStaleJobs \/ CreateSnapshot
             \/ \E v \in Videos : SubmitVideo(v) \/ CreatePrelabel(v) \/ CreateDryRun(v)
             \/ \E r \in net : StrayLost(r)
      PROVE  net' \subseteq net
  BY <1>5, QuietAdmin DEF vars, Tick, ReapStaleJobs, StrayLost
<1> QED BY <1>0, <1>1, <1>3, <1>4, <1>5 DEF Next

\* The lists of frames the jobs inserted by a step come with.
LEMMA FramesFitStep ==
  ASSUME IInv, FramesFit(jobs), [Next]_vars PROVE FramesFit(jobs')
<1>0. jobs \in Seq(Row) /\ TableStep(jobs, jobs')
  BY NextOK DEF IInv, TableOK, StepOK
<1> SUFFICES \A i \in DOMAIN jobs' \ DOMAIN jobs : \A f \in jobs'[i].frames : f[1] = jobs'[i].video
  BY <1>0 DEF FramesFit, TableStep, RowStep
<1>1. ASSUME NEW js \in Seq(Row), DOMAIN js = DOMAIN jobs, NEW row, jobs' = Append(js, row)
      PROVE  \A i \in DOMAIN jobs' \ DOMAIN jobs : jobs'[i] = row
  BY <1>1
<1>2. CASE DOMAIN jobs' = DOMAIN jobs
  BY <1>2
<1>3. ASSUME NEW js \in Seq(Row), DOMAIN js = DOMAIN jobs, NEW id, jobs' = EnqueueIfDue(js, id)
      PROVE  \A i \in DOMAIN jobs' \ DOMAIN jobs : jobs'[i].frames = {}
  <2> DEFINE row == NewRow("prelabel", js[id].video, "random", {})
  <2>1. jobs' = js \/ jobs' = Append(js, row)
    BY <1>3 DEF EnqueueIfDue
  <2>2. row.frames = {}
    BY DEF NewRow
  <2> HIDE DEF row
  <2> QED BY <1>1, <1>3, <2>1, <2>2
<1>4. ASSUME NEW w \in Workers, WorkerStep(w) PROVE jobs' = jobs
  BY <1>4, Zenon DEF WorkerStep, Poll, Beat, BeatFails, SendReport, WorkSucceeds,
     WorkIsDoomed, LetGo
<1>5. ASSUME NEW r \in net, Handle(r)
      PROVE  \A i \in DOMAIN jobs' \ DOMAIN jobs : jobs'[i].frames = {}
  <2>1. CASE FanOut(r)
    <3> DEFINE row == NewRow("chunk", jobs[r.job].video, "none", {})
    <3>1. \A i \in DOMAIN jobs' \ DOMAIN jobs : jobs'[i] = row
      BY <2>1, FanOutRows
    <3>2. row.frames = {}
      BY DEF NewRow
    <3> HIDE DEF row
    <3> QED BY <3>1, <3>2
  <2>2. CASE CompleteAccepted(r)
    <3> DEFINE mid == Finish(jobs, r.job, r.status)
    <3>1. r.worker \in Workers /\ r.status \in {"done", "failed"} /\ TableOK(jobs)
      BY <2>2 DEF CompleteAccepted, IInv, NetOK, Request
    <3>2. mid \in Seq(Row) /\ DOMAIN mid = DOMAIN jobs
      BY <2>2, <3>1, FinishStep DEF CompleteAccepted, TableStep, TableOK, Finish
    <3>3. jobs' = EnqueueIfDue(mid, r.job)
      BY <2>2 DEF CompleteAccepted
    <3> HIDE DEF mid
    <3> QED BY <1>3, <3>2, <3>3
  <2>3. CASE CompleteRefused(r)
    BY <1>0, <1>3, <2>3 DEF CompleteRefused
  <2>4. CASE \/ ClaimGranted(r) \/ HeartbeatRenews(r) \/ ClaimEmpty(r)
             \/ HeartbeatRefused(r) \/ ReportChecked(r) \/ ReportRefused(r)
             \/ ReportImages(r) \/ ReportPredictions(r) \/ ReportArtifact(r)
    <3>1. DOMAIN jobs' = DOMAIN jobs
      BY <2>4 DEF ClaimGranted, Claim, HeartbeatRenews, Renew, ClaimEmpty,
         HeartbeatRefused, ReportChecked, ReportRefused, ReportImages,
         ReportPredictions, ReportArtifact
    <3> QED BY <3>1
  <2> QED BY <1>5, <2>1, <2>2, <2>3, <2>4 DEF Handle
<1>6. CASE \E v \in Videos : CreatePrelabel(v)
  <2>1. PICK v \in Videos : CreatePrelabel(v)
    BY <1>6
  <2>2. PICK mode \in Modes, frames \in SUBSET PoolOf(v) :
          Enqueue(NewRow("prelabel", v, mode, frames))
    BY <2>1 DEF CreatePrelabel
  <2> DEFINE row == NewRow("prelabel", v, mode, frames)
  <2>3. row.frames = frames /\ row.video = v
    BY DEF NewRow
  <2>4. \A f \in frames : f[1] = v
    BY DEF PoolOf
  <2> HIDE DEF row
  <2>5. \A i \in DOMAIN jobs' \ DOMAIN jobs : jobs'[i] = row
    BY <1>0, <1>1, <2>2 DEF Enqueue, row
  <2> QED BY <2>3, <2>4, <2>5
<1>7. CASE \/ \E v \in Videos : SubmitVideo(v) \/ CreateDryRun(v)
           \/ CreateSnapshot
  <2>1. PICK kind, video : jobs' = Append(jobs, NewRow(kind, video, "none", {}))
    BY <1>7 DEF SubmitVideo, CreateDryRun, CreateSnapshot, Enqueue
  <2> DEFINE row == NewRow(kind, video, "none", {})
  <2>2. row.frames = {}
    BY DEF NewRow
  <2> HIDE DEF row
  <2>3. \A i \in DOMAIN jobs' \ DOMAIN jobs : jobs'[i] = row
    BY <1>0, <1>1, <2>1 DEF row
  <2> QED BY <2>2, <2>3
<1>8. CASE Tick \/ ReapStaleJobs \/ UNCHANGED vars \/ \E r \in net : StrayLost(r)
  BY <1>2, <1>8 DEF Tick, ReapStaleJobs, AgeRows, Reap, vars, StrayLost
<1> QED BY <1>4, <1>5, <1>6, <1>7, <1>8 DEF Next

\* A step neither takes a job's frames from it nor a report's from its job.
LEMMA AsksFitStep ==
  ASSUME IInv, AttemptsInv, StampsInv, [Next]_vars PROVE AsksFit(net', jobs')
<1>1. TableStep(jobs, jobs')
  BY NextOK DEF StepOK
<1> SUFFICES ASSUME NEW q \in net', q.op = "report", NEW f \in q.frames
             PROVE  Stamps(jobs'[q.job], f)
  BY DEF AsksFit
<1>2. CASE \E r \in net : Alike(q, r)
  <2>1. PICK r \in net : Alike(q, r)
    BY <1>2
  <2>2. Stamps(jobs[q.job], f) /\ q.job \in DOMAIN jobs
    BY <2>1 DEF Alike, StampsInv, AsksFit, AttemptsInv, RecordsOK, RecordOK, Started
  <2> QED BY <1>1, <2>2 DEF TableStep, RowStep, Stamps
<1>3. CASE \E w \in Workers : /\ worker[w].pc = "working" /\ q.job = worker[w].job
                              /\ q.frames = FramesFor(jobs[q.job]) /\ jobs' = jobs
  <2>1. PICK w \in Workers : /\ worker[w].pc = "working" /\ q.job = worker[w].job
                             /\ q.frames = FramesFor(jobs[q.job]) /\ jobs' = jobs
    BY <1>3
  <2> DEFINE row == jobs[q.job]
  <2>2. q.job \in DOMAIN jobs
    BY <2>1 DEF AttemptsInv, AttemptExclusive, Believes, Holding
  <2>3. row.kind = "prelabel"
    BY <2>1 DEF FramesFor
  <2>4. CASE row.frames # {}
    <3>1. f \in row.frames
      BY <2>1, <2>3, <2>4 DEF FramesFor
    <3> QED BY <2>1, <2>2, <2>3, <3>1 DEF Stamps, StampsInv, FramesFit
  <2>5. CASE row.frames = {}
    <3>1. f \in Sample(PoolOf(row.video))
      BY <2>1, <2>3, <2>5 DEF FramesFor
    <3>2. f \in PoolOf(row.video)
      BY <3>1 DEF Sample
    <3> QED BY <2>1, <2>3, <2>5, <3>2 DEF Stamps, PoolOf
  <2> QED BY <2>4, <2>5
<1> QED BY <1>2, <1>3, ReportsComeFrom

\* A pass of the frame's video that chose it so has reported.
SourceOf(f, stamp, js, stored) ==
  \E i \in Of(js, "prelabel", f[1]) :
    /\ js[i].selection = stamp
    /\ js[i].frames = {} \/ f \in js[i].frames
    /\ \E a \in 1 .. js[i].attempts : <<i, a>> \in stored

LEMMA SourceStays ==
  ASSUME NEW js, TableOK(js), NEW new, TableStep(js, new), NEW stored, NEW more,
         stored \subseteq more, NEW f, NEW stamp, SourceOf(f, stamp, js, stored)
  PROVE  SourceOf(f, stamp, new, more)
<1>0. PICK i \in Of(js, "prelabel", f[1]) :
        /\ js[i].selection = stamp
        /\ js[i].frames = {} \/ f \in js[i].frames
        /\ \E a \in 1 .. js[i].attempts : <<i, a>> \in stored
  BY DEF SourceOf
<1>1. PICK a \in 1 .. js[i].attempts : <<i, a>> \in stored
  BY <1>0
<1>2. Started(new, i, a)
  BY StartedStays DEF Started, Of
<1>3. /\ i \in Of(new, "prelabel", f[1])
      /\ new[i].selection = js[i].selection /\ new[i].frames = js[i].frames
  BY OfKept DEF Of, TableStep, RowStep
<1> QED BY <1>0, <1>1, <1>2, <1>3 DEF SourceOf, Started

\* What a step does to the stamps.
StampStep ==
  /\ DOMAIN images \subseteq DOMAIN images'
  /\ \A f \in DOMAIN images : images[f] # "none" => images'[f] = images[f]
  /\ \A f \in DOMAIN images' : images'[f] # "none" =>
       \/ f \in DOMAIN images /\ images[f] # "none"
       \/ \E r \in net : ReportPredictions(r) /\ f \in r.frames
                          /\ images'[f] = jobs[r.job].selection

LEMMA StampsStep == ASSUME IInv, [Next]_vars PROVE StampStep
<1>1. CASE images' = images
  BY <1>1 DEF StampStep
<1>2. ASSUME NEW r \in net, ReportImages(r) PROVE StampStep
  BY <1>2 DEF StampStep, ReportImages
<1>3. ASSUME NEW r \in net, ReportPredictions(r) PROVE StampStep
  <2>1. images' = [f \in DOMAIN images |-> Stamp(f, r)]
    BY <1>3 DEF ReportPredictions
  <2>2. DOMAIN images' = DOMAIN images
    BY <2>1
  <2>3. \A f \in DOMAIN images :
          \/ images'[f] = images[f]
          \/ f \in r.frames /\ images[f] = "none" /\ images'[f] = jobs[r.job].selection
    BY <2>1 DEF Stamp
  <2> QED BY <1>3, <2>2, <2>3 DEF StampStep
<1>4. \/ images' = images
      \/ \E r \in net : ReportImages(r) \/ ReportPredictions(r)
  <2>1. ASSUME NEW w \in Workers, WorkerStep(w) PROVE images' = images
    BY <2>1, Zenon DEF WorkerStep, Poll, Beat, BeatFails, SendReport, WorkSucceeds,
       WorkIsDoomed, LetGo, rows
  <2>2. ASSUME NEW r \in net, Handle(r) \/ StrayLost(r)
        PROVE  images' = images \/ ReportImages(r) \/ ReportPredictions(r)
    BY <2>2, Zenon DEF Handle, StrayLost, ClaimGranted, ClaimEmpty, HeartbeatRenews,
       HeartbeatRefused, ReportChecked, ReportRefused, FanOut, ReportArtifact,
       CompleteAccepted, CompleteRefused, Refuse, rows
  <2>3. ASSUME \/ \E v \in Videos : SubmitVideo(v) \/ CreatePrelabel(v) \/ CreateDryRun(v)
               \/ CreateSnapshot \/ Tick \/ ReapStaleJobs \/ UNCHANGED vars
        PROVE  images' = images
    BY <2>3, Zenon DEF SubmitVideo, CreatePrelabel, CreateDryRun, CreateSnapshot,
       Enqueue, Tick, ReapStaleJobs, rows, vars
  <2> QED BY <2>1, <2>2, <2>3 DEF Next
<1> QED BY <1>1, <1>2, <1>3, <1>4

LEMMA SourcesStep ==
  ASSUME IInv, AttemptsInv, StampsInv, [Next]_vars PROVE StampHasSource'
<1>1. TableStep(jobs, jobs') /\ written \subseteq written' /\ TableOK(jobs)
  BY NextOK, HistoryGrows DEF StepOK, IInv
<1> SUFFICES ASSUME NEW f \in DOMAIN images', images'[f] # "none"
             PROVE  SourceOf(f, images'[f], jobs', written')
  BY DEF StampHasSource, SourceOf
<1>2. CASE f \in DOMAIN images /\ images[f] # "none"
  <2>1. SourceOf(f, images[f], jobs, written)
    BY <1>2 DEF StampsInv, StampHasSource, SourceOf
  <2>2. images'[f] = images[f]
    BY <1>2, StampsStep DEF StampStep
  <2> QED BY <1>1, <2>1, <2>2, SourceStays
<1>3. ASSUME NEW r \in net, ReportPredictions(r), f \in r.frames,
             images'[f] = jobs[r.job].selection
      PROVE  SourceOf(f, images'[f], jobs', written')
  <2>1. r.op = "report" /\ jobs' = jobs /\ written' = written \cup {<<r.job, r.attempt>>}
    BY <1>3 DEF ReportPredictions, Write
  <2>2. r.job \in DOMAIN jobs /\ r.attempt \in 1 .. jobs[r.job].attempts
    BY <2>1 DEF AttemptsInv, RecordsOK, RecordOK, Started
  <2>3. Stamps(jobs[r.job], f)
    BY <1>3, <2>1 DEF StampsInv, AsksFit
  <2> QED BY <1>3, <2>1, <2>2, <2>3 DEF SourceOf, Stamps, Of
<1> QED BY <1>2, <1>3, StampsStep DEF StampStep

\* Nothing is stamped at first.
LEMMA StampsInit == Init => StampsInv
BY DEF Init, StampsInv, FramesFit, AsksFit, StampHasSource

\* What is known of stamps holds of every reachable state.
THEOREM StampsInvariant == Spec => []StampsInv
<1>1. IInv /\ AttemptsInv /\ StampsInv /\ [Next]_vars => StampsInv'
  BY FramesFitStep, AsksFitStep, SourcesStep DEF StampsInv
<1> QED BY <1>1, StampsInit, Invariance, AttemptsInvariant, PTL DEF Spec

\* No stamp is there but by a reported pass of the frame's video whose job
\* has that selection_reason and that frame.
THEOREM StampsHaveSources == Spec => []StampHasSource
<1>1. StampsInv => StampHasSource
  BY DEF StampsInv
<1> QED BY <1>1, StampsInvariant, PTL

\* Whoever reports, and however late, no image row goes and no stamp changes.
THEOREM StampsWrittenOnce == Spec => StampWriteOnce
<1>1. IInv /\ [Next]_vars =>
        [\A f \in DOMAIN images :
           /\ f \in DOMAIN images'
           /\ images[f] # "none" => images'[f] = images[f]]_vars
  BY StampsStep DEF StampStep
<1> QED BY <1>1, Invariance, PTL DEF Spec, StampWriteOnce
=============================================================================
