------------------------------- MODULE Sampling -------------------------------
(***************************************************************************)
(* What the program picks from a video, as functions of their input: the   *)
(* segments a duration is cut into and the seconds each yields frames of,  *)
(* the frames the dedup keeps, the systematic draw of the automatic pass   *)
(* and the farthest-point draw of a supplementary one.  The behaviours are *)
(* one state each, a case: TLC goes through all of them.                   *)
(*                                                                         *)
(* A perceptual hash is the set of its one bits; the 64 bits are Bits.     *)
(***************************************************************************)
EXTENDS Integers, FiniteSets, FiniteSetsExt, Sequences

CONSTANTS
  SegmentSeconds,   (* SEGMENT_SECONDS                                      *)
  Bits,
  MaxDuration,      (* bound: the longest video                             *)
  MaxFrames,        (* bound: the largest pool of the systematic draw       *)
  MaxHashes         (* bound: the frames hashed at a time                   *)

ASSUME SamplingAssumption ==
  /\ SegmentSeconds \in Nat \ {0}
  /\ IsFiniteSet(Bits)
  /\ MaxDuration \in Nat /\ MaxFrames \in Nat /\ MaxHashes \in Nat

VARIABLE sampling   (* the case                                             *)

-----------------------------------------------------------------------------
(* Cutting.                                                                *)

Lesser(a, b) == IF a < b THEN a ELSE b

\* Mistake: a last segment that begins where the video ends.
SegmentCountOver(duration) == duration \div SegmentSeconds + 1

\* As many as begin before the end.
SegmentCount(duration) == (duration + SegmentSeconds - 1) \div SegmentSeconds

\* segmentsFor: the last one ends with the video.
SegmentStart(k) == k * SegmentSeconds
SegmentEnd(k, duration) == Lesser(SegmentStart(k) + SegmentSeconds, duration)

\* Extractor.Extract and readFrames: the i-th of the files ffmpeg leaves is
\* the frame of second start + i of the video; `found` is how many there are.
SecondsOf(k, found) == {SegmentStart(k) + i : i \in 0..(found - 1)}

-----------------------------------------------------------------------------
(* The systematic draw.                                                    *)

\* Mistake: a stride rounded down before it is multiplied.
DrawnByStride(i, n, budget) == i * (n \div budget)

\* systematicSample: the index of the i-th frame drawn, of a pool in time order.
DrawnIndex(i, n, budget) == (i * n) \div budget

\* SampleN: a pool within the budget is taken whole.
Sampled(n, budget) ==
  IF n <= budget THEN 0..(n - 1) ELSE {DrawnIndex(i, n, budget) : i \in 0..(budget - 1)}

-----------------------------------------------------------------------------
(* Hashes.                                                                 *)

Hamming(a, b) == Cardinality((a \ b) \cup (b \ a))

\* Dedup: each frame is measured against the last one kept.
KeptNext(hashes, threshold, kept, i) ==
  IF kept = {} \/ Hamming(hashes[i], hashes[Max(kept)]) >= threshold
  THEN kept \cup {i} ELSE kept

\* The places of the frames kept, once all were looked at in their order.
KeptOf(hashes, threshold) ==
  LET last == Len(hashes)
      kept[n \in 0..last] ==
        IF n = 0 THEN {} ELSE KeptNext(hashes, threshold, kept[n - 1], n)
  IN kept[last]

Infinite == Cardinality(Bits) + 1

Nearest(hash, others) ==
  IF others = {} THEN Infinite ELSE Min({Hamming(hash, other) : other \in others})

\* What a pick must be unlike: the frames sampled already and the picks so far.
MeasuredAgainst(pool, picks, reference) == reference \cup {pool[p] : p \in picks}

\* The lowest of the candidates that are farthest from all of those.
FarthestOf(pool, picks, reference) ==
  LET Away(i) == Nearest(pool[i], MeasuredAgainst(pool, picks, reference))
      left == DOMAIN pool \ picks
  IN Min({i \in left : \A j \in left : Away(j) <= Away(i)})

PickedNext(pool, reference, picks) == picks \cup {FarthestOf(pool, picks, reference)}

\* selectDiverse: a pool within the budget is taken whole.
Diverse(pool, reference, budget) ==
  LET picked[n \in 0..budget] ==
        IF n = 0 THEN {} ELSE PickedNext(pool, reference, picked[n - 1])
  IN IF Len(pool) <= budget THEN DOMAIN pool ELSE picked[budget]

-----------------------------------------------------------------------------

Cuts == [kind : {"cut"}, duration : 1..MaxDuration]
Draws == [kind : {"draw"}, pool : 1..MaxFrames, budget : 1..MaxFrames]
HashSeqs == [1..MaxHashes -> SUBSET Bits]
Dedups == [kind : {"dedup"}, hashes : HashSeqs, threshold : 1..Cardinality(Bits)]
Picks == [kind : {"pick"}, hashes : HashSeqs, reference : {{}, {Bits}},
          budget : 1..(MaxHashes - 1)]

Of(kind) == sampling.kind = kind

SamplingInit == sampling \in Cuts \cup Draws \cup Dedups \cup Picks
SamplingNext == UNCHANGED sampling
SamplingSpec == SamplingInit /\ [][SamplingNext]_sampling

-----------------------------------------------------------------------------
(* Properties.                                                             *)

\* Every second of a video is extracted by exactly one of its chunks, whatever
\* its length: no chunk is empty, none reaches past the end, and no two of them
\* produce the same second, which is one object key and one row.
CoveredOnce ==
  Of("cut") =>
    LET duration == sampling.duration
        chunks == 0..(SegmentCount(duration) - 1)
        SecondsCut(k) == SecondsOf(k, SegmentEnd(k, duration) - SegmentStart(k))
    IN /\ \A k \in chunks : SegmentStart(k) < SegmentEnd(k, duration)
       /\ UNION {SecondsCut(k) : k \in chunks} = 0..(duration - 1)
       /\ \A j, k \in chunks : j # k => SecondsCut(j) \cap SecondsCut(k) = {}

\* The systematic draw returns exactly its budget of distinct frames (or the
\* whole pool), begins with the first frame, and leaves no stretch of the video
\* longer than one stride undrawn, the end included.
DrawnAcross ==
  Of("draw") =>
    LET n == sampling.pool
        budget == sampling.budget
        drawn == Sampled(n, budget)
        stride == (n + budget - 1) \div budget
    IN /\ drawn \subseteq 0..(n - 1) /\ 0 \in drawn
       /\ Cardinality(drawn) = Lesser(n, budget)
       /\ \A t \in 0..(n - 1) : \E d \in drawn : d <= t /\ t < d + stride

\* A frame is dropped only for being near the very frame kept before it, never
\* by drifting away from it a little at a time.
DroppedAreNear ==
  Of("dedup") =>
    LET hashes == sampling.hashes
        kept == KeptOf(hashes, sampling.threshold)
    IN \A i \in DOMAIN hashes :
         \/ i \in kept
         \/ LET before == {k \in kept : k < i}
            IN before # {} /\ Hamming(hashes[i], hashes[Max(before)]) < sampling.threshold

\* How far the nearest two of a choice are, or one of it and the reference.
Spread(hashes, chosen, reference) ==
  Min({Nearest(hashes[i], reference) : i \in chosen}
        \cup {Hamming(hashes[pair[1]], hashes[pair[2]]) :
                pair \in {p \in chosen \X chosen : p[1] # p[2]}})

\* The greedy draw is never less than half as spread as the best choice of as
\* many frames: it does not fill the budget with near copies of one far frame.
HalfAsSpreadAsAny ==
  Of("pick") =>
    LET hashes == sampling.hashes
        reference == sampling.reference
        chosen == Diverse(hashes, reference, sampling.budget)
    IN /\ Cardinality(chosen) = sampling.budget
       /\ \A other \in kSubset(sampling.budget, DOMAIN hashes) :
            Spread(hashes, other, reference) <= 2 * Spread(hashes, chosen, reference)
=============================================================================
