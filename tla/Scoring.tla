------------------------------- MODULE Scoring -------------------------------
(***************************************************************************)
(* The evaluation's arithmetic, as functions of one class's detections and *)
(* ground truth at one IoU threshold.  An IoU is a number of Tenths, given *)
(* for each detection and box; two on different images have none.  A       *)
(* precision is a number of Parts and an average precision a number of     *)
(* Parts of all the ground truth, so that every fraction is exact.  The    *)
(* behaviours are one state each, a case.                                  *)
(***************************************************************************)
EXTENDS Integers, Sequences, FiniteSets, FiniteSetsExt

CONSTANTS
  Tenths,          (* bound: the IoUs there are, and 0                      *)
  Images,          (* bound: the images scored                              *)
  Confidences,     (* bound                                                 *)
  MaxDetections,   (* bound                                                 *)
  MaxTruth,        (* bound: the boxes of ground truth                      *)
  Parts            (* a multiple of every rank                              *)

ASSUME ScoringAssumption ==
  /\ Tenths \subseteq Nat /\ 0 \in Tenths /\ Confidences \subseteq Nat
  /\ 1 \in Images
  /\ MaxDetections \in Nat /\ MaxTruth \in Nat
  /\ Parts \in Nat /\ \A rank \in 1..MaxDetections : Parts % rank = 0

VARIABLE scoring   (* the case                                              *)

-----------------------------------------------------------------------------
(* AveragePrecision.                                                       *)

\* sort.SliceStable: the more confident first, ties as they came.
RankedBefore(detections, d, e) ==
  \/ detections[d].confidence > detections[e].confidence
  \/ detections[d].confidence = detections[e].confidence /\ d < e

Ranked(detections) ==
  CHOOSE ranking \in [DOMAIN detections -> DOMAIN detections] :
    \A m, n \in DOMAIN detections :
      m < n => RankedBefore(detections, ranking[m], ranking[n])

\* The boxes of its image a detection reaches and no earlier one has claimed.
OpenTo(detection, truth, claimed, threshold) ==
  {g \in DOMAIN truth \ claimed : /\ truth[g] = detection.image
                                  /\ detection.iou[g] >= threshold}

\* It claims the one it overlaps most, the first of equals.
Claim(detection, open) ==
  {Min({g \in open : \A h \in open : detection.iou[h] <= detection.iou[g]})}

MatchedNext(detection, truth, before, threshold) ==
  LET open == OpenTo(detection, truth, before.claimed, threshold)
  IN IF open = {} THEN before
     ELSE [claimed |-> before.claimed \cup Claim(detection, open), tp |-> before.tp + 1]

\* The boxes claimed once the first n of the ranking are matched, and how many
\* of those n were true positives.
Matched(detections, truth, threshold) ==
  LET ranking == Ranked(detections)
      step[n \in 0..Len(detections)] ==
        IF n = 0 THEN [claimed |-> {}, tp |-> 0]
        ELSE MatchedNext(detections[ranking[n]], truth, step[n - 1], threshold)
  IN step

TruePositives(detections, truth, threshold) ==
  LET step == Matched(detections, truth, threshold)
  IN [n \in 1..Len(detections) |-> step[n].tp]

\* Mistake: the curve as it is measured, with its dips.
EnvelopeLeftOut(precision) == precision

\* Each point takes the best precision at or after it.
Envelope(precision) ==
  [i \in DOMAIN precision |->
     Max({precision[j] : j \in {j \in DOMAIN precision : i <= j}})]

Total(terms) ==
  LET last == Len(terms)
      sum[n \in 0..last] == IF n = 0 THEN 0 ELSE sum[n - 1] + terms[n]
  IN sum[last]

\* areaUnderCurve: the curve between its two fixed ends, its envelope from the
\* right, and the sum of the steps of recall under it.  Recall counts every
\* box, found or not.
Area(tp, truth) ==
  LET total == Len(truth)
      last == Len(tp) + 1
      recall == [i \in 0..last |-> IF i = 0 THEN 0 ELSE IF i = last THEN total ELSE tp[i]]
      precision == [i \in 0..last |-> IF i \in {0, last} THEN 0 ELSE (tp[i] * Parts) \div i]
      best == Envelope(precision)
  IN IF total = 0 THEN 0
     ELSE Total([i \in 1..last |-> (recall[i] - recall[i - 1]) * best[i]])

AveragePrecision(detections, truth, threshold) ==
  Area(TruePositives(detections, truth, threshold), truth)

-----------------------------------------------------------------------------

Detections(truths) ==
  [image : Images, confidence : Confidences, iou : [1..truths -> Tenths]]

\* The images are interchangeable: the first box is on image 1.
Truths(truths) == {truth \in [1..truths -> Images] : truths > 0 => truth[1] = 1}

Cases(found, truths) ==
  [detections : [1..found -> Detections(truths)], truth : Truths(truths)]

ScoringInit == \E found \in 0..MaxDetections, truths \in 0..MaxTruth :
                 scoring \in Cases(found, truths)
ScoringNext == UNCHANGED scoring
ScoringSpec == ScoringInit /\ [][ScoringNext]_scoring

-----------------------------------------------------------------------------
(* Properties.                                                             *)

Thresholds == Tenths \ {0}

\* Each box of ground truth, found or not, counts the best precision at which
\* that many are recalled, and nothing if they never are: what the backward
\* envelope and the sum of steps come to, with ties, no detection at all, no
\* ground truth at all, and false positives ranked after the last recall.
Best(tp, m) ==
  Max({0} \cup {(tp[i] * Parts) \div i : i \in {i \in DOMAIN tp : tp[i] >= m}})

MeanOfBestPrecisions ==
  \A threshold \in Thresholds :
    LET tp == TruePositives(scoring.detections, scoring.truth, threshold)
    IN Area(tp, scoring.truth) = Total([m \in DOMAIN scoring.truth |-> Best(tp, m)])

\* A stricter overlap never scores better, so AP@[.5:.95] is at most AP@.5:
\* a detection that stops matching may leave its box to a later one, but the
\* exchange gains nothing.
StricterIsNoBetter ==
  \A low, high \in Thresholds :
    low < high =>
      AveragePrecision(scoring.detections, scoring.truth, high)
        <= AveragePrecision(scoring.detections, scoring.truth, low)
=============================================================================
