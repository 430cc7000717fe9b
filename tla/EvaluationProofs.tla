--------------------------- MODULE EvaluationProofs ---------------------------
(***************************************************************************)
(* Theorems about Evaluation, for any pool, classes, jobs, runs and edits, *)
(* and about GroundTruthWalk, for any page size and any number of writes   *)
(* in flight.                                                              *)
(***************************************************************************)
EXTENDS Evaluation, GroundTruthWalk, FiniteSetTheorems, FunctionTheorems,
  SequenceTheorems, WellFoundedInduction, TLAPS

-----------------------------------------------------------------------------
(* EVALUATION.                                                             *)

Verdict == [image : Pool, source : Sources, accepts : BOOLEAN]

Stages == {"train", "roster", "marks", "truth", "copy", "report"}
TrainEntry == [image : Pool, split : {"train"}, labels : {0, 1}]
EvalEntry ==
  [image : Pool, split : {"eval"}, labels : UNION {[cs -> Nat] : cs \in SUBSET Classes}]
Run ==
  [at : Stages, job : Jobs, train : SUBSET TrainEntry, roster : SUBSET Classes,
   frozen : SUBSET Pool, scored : SUBSET Pool, eval : SUBSET EvalEntry, copied : SUBSET Pool]

\* What a run reads, and the run, typed.
GroundTyped == truth \in [Pairs -> Nat] /\ active \subseteq Classes
RunTyped == build = Idle \/ build \in Run
Typed == GroundTyped /\ RunTyped

\* Marked in full at some instant since the run began to read.
Examined(i, classes) == \E x \in examined : x[1] = i /\ x[2] = classes

\* The inductive invariant of what is scored: while the run reads, no instant
\* goes by unexamined, and what it read of the marks was true at one.
ScoredInv ==
  /\ Typed
  /\ Reading => Vouched \subseteq examined /\ build.eval = {}
  /\ build # Idle /\ build.at = "truth" => \A i \in build.scored : Examined(i, build.roster)
  /\ ScoredWasExamined

-----------------------------------------------------------------------------
(* Types.                                                                  *)

LEMMA IdleIs == Idle.at = "idle" /\ Idle.at \notin Stages
BY DEF Idle, Stages

\* A run that is under way is a record.
LEMMA UnderWay == ASSUME RunTyped, build.at \in Stages PROVE build \in Run
BY IdleIs DEF RunTyped

LEMMA TypedBegins == EvaluationInit => Typed
BY DEF EvaluationInit, GroundInit, BuildInit, Typed, GroundTyped, RunTyped

LEMMA GroundKeeps ==
  ASSUME GroundTyped, [EvaluationNext]_evaluation
  PROVE  GroundTyped'
<1>1. CASE UNCHANGED <<truth, active>>
  BY <1>1 DEF GroundTyped
<1>2. CASE Annotates
  <2>1. PICK i \in Pool, c \in Classes :
          \/ DrawBox(i, c) \/ DeleteBox(i, c)
          \/ \E exhaustive \in BOOLEAN : SetExhaustive(i, c, exhaustive)
    BY <1>2 DEF Annotates
  <2>2. <<i, c>> \in Pairs
    BY DEF Pairs
  <2>3. truth[<<i, c>>] \in Nat
    BY <2>2 DEF GroundTyped
  <2>4. CASE DrawBox(i, c)
    <3>1. truth[<<i, c>>] + 1 \in Nat
      BY <2>3
    <3>2. truth' = [truth EXCEPT ![<<i, c>>] = truth[<<i, c>>] + 1] /\ active' = active
      BY <2>4 DEF DrawBox
    <3> QED  BY <3>1, <3>2 DEF GroundTyped
  <2>5. CASE DeleteBox(i, c)
    <3>1. truth[<<i, c>>] - 1 \in Nat
      BY <2>3, <2>5 DEF DeleteBox
    <3>2. truth' = [truth EXCEPT ![<<i, c>>] = truth[<<i, c>>] - 1] /\ active' = active
      BY <2>5 DEF DeleteBox
    <3> QED  BY <3>1, <3>2 DEF GroundTyped
  <2>6. CASE \E exhaustive \in BOOLEAN : SetExhaustive(i, c, exhaustive)
    BY <1>1, <2>6 DEF SetExhaustive
  <2> QED  BY <2>1, <2>4, <2>5, <2>6
<1>3. CASE Reworks
  <2>1. truth' = truth /\ (active' = active \/ \E c \in Classes : SetActive(c))
    BY <1>3 DEF Reworks, SetActive, StampReason
  <2>2. active' \subseteq Classes
    BY <2>1 DEF SetActive, GroundTyped
  <2> QED  BY <2>1, <2>2 DEF GroundTyped
<1> QED
  BY <1>1, <1>2, <1>3
     DEF EvaluationNext, evaluation, ground, Rules, Promoted, Builds, Start, ReadTrain,
         ReadRoster, ReadMarks, ReadTruth, CopyOne, PutManifest, ReportSnapshot, BuildDies

\* A run that is under way goes on.
LEMMA RunKeeps ==
  ASSUME Typed, [EvaluationNext]_evaluation
  PROVE  RunTyped'
<1>1. CASE build' = build \/ build' = Idle
  BY <1>1 DEF Typed, RunTyped
<1>2. ASSUME NEW j \in Jobs, Start(j) PROVE RunTyped'
  BY <1>2 DEF Start, RunTyped, Run, Stages
<1>3. CASE ReadTrain
  <2> DEFINE found == {[image |-> i, split |-> "train", labels |-> LabelOf(i)] :
                         i \in {k \in Pool : reason[k] # "random" /\ LabelOf(k) = 1}}
  <2>1. \A i \in Pool : LabelOf(i) \in {0, 1}
    BY DEF LabelOf
  <2>2. found \subseteq TrainEntry
    BY <2>1 DEF TrainEntry
  <2>3. build' = [build EXCEPT !.at = "roster", !.train = found]
    BY <1>3 DEF ReadTrain
  <2> HIDE DEF found
  <2>4. build \in Run
    BY <1>3, UnderWay DEF ReadTrain, At, Typed, Stages
  <2> QED  BY <2>2, <2>3, <2>4 DEF RunTyped, Run, Stages
<1>4. CASE ReadRoster
  <2>1. build \in Run
    BY <1>4, UnderWay DEF ReadRoster, At, Typed, Stages
  <2>2. Frozen \subseteq Pool /\ active \subseteq Classes
    BY DEF Frozen, Typed, GroundTyped
  <2>3. build' = [build EXCEPT !.at = "marks", !.roster = active, !.frozen = Frozen]
    BY <1>4 DEF ReadRoster
  <2> QED  BY <2>1, <2>2, <2>3 DEF RunTyped, Run, Stages
<1>5. CASE ReadMarks
  <2> DEFINE found == Covered(build.frozen, build.roster, marks)
  <2>1. build \in Run
    BY <1>5, UnderWay DEF ReadMarks, At, Typed, Stages
  <2>2. found \subseteq Pool
    BY <2>1 DEF Covered, Run
  <2>3. build' = [build EXCEPT !.at = "truth", !.scored = found]
    BY <1>5 DEF ReadMarks
  <2> HIDE DEF found
  <2> QED  BY <2>1, <2>2, <2>3 DEF RunTyped, Run, Stages
<1>6. CASE ReadTruth
  <2> DEFINE found == {[image |-> i, split |-> "eval", labels |-> TruthOn(i, build.roster)] :
                         i \in build.scored}
  <2>1. build \in Run
    BY <1>6, UnderWay DEF ReadTruth, At, Typed, Stages
  <2>2. build.scored \subseteq Pool /\ build.roster \in SUBSET Classes
    BY <2>1 DEF Run
  <2>3. \A i \in build.scored : TruthOn(i, build.roster) \in [build.roster -> Nat]
    BY <2>2 DEF TruthOn, Typed, GroundTyped, Pairs
  <2>4. found \subseteq EvalEntry
    BY <2>2, <2>3 DEF EvalEntry
  <2>5. build' = [build EXCEPT !.at = "copy", !.eval = found]
    BY <1>6 DEF ReadTruth
  <2> HIDE DEF found
  <2> QED  BY <2>1, <2>4, <2>5 DEF RunTyped, Run, Stages
<1>7. CASE CopyOne
  <2>1. build \in Run
    BY <1>7, UnderWay DEF CopyOne, At, Typed, Stages
  <2>2. PICK i \in ImagesOf(Source) : build' = [build EXCEPT !.copied = build.copied \cup {i}]
    BY <1>7 DEF CopyOne
  <2>3. ImagesOf(Source) \subseteq Pool
    BY <2>1 DEF ImagesOf, Source, Run, TrainEntry, EvalEntry
  <2>4. build.copied \cup {i} \subseteq Pool
    BY <2>1, <2>2, <2>3 DEF Run
  <2> QED  BY <2>1, <2>2, <2>4 DEF RunTyped, Run
<1>8. CASE PutManifest
  <2>1. build \in Run
    BY <1>8, UnderWay DEF PutManifest, At, Typed, Stages
  <2>2. build' = [build EXCEPT !.at = "report"]
    BY <1>8 DEF PutManifest, Goto
  <2> QED  BY <2>1, <2>2 DEF RunTyped, Run, Stages
<1> QED
  BY <1>1, <1>2, <1>3, <1>4, <1>5, <1>6, <1>7, <1>8
     DEF EvaluationNext, evaluation, work, Annotates, Reworks, Rules, Promoted, Builds,
         ReportSnapshot, BuildDies

LEMMA TypedKeeps == Typed /\ [EvaluationNext]_evaluation => Typed'
BY GroundKeeps, RunKeeps DEF Typed

-----------------------------------------------------------------------------
(* What is scored.                                                         *)

\* Nothing vouched for changes but by an annotator.
LEMMA VouchedStays ==
  ASSUME UNCHANGED <<truth, marks>>
  PROVE  Vouched' = Vouched
BY DEF Vouched, TruthOn

\* A frame covered by a roster is vouched for with its boxes.
LEMMA CoveredIsVouched ==
  ASSUME NEW images \in SUBSET Pool, NEW roster \in SUBSET Classes,
         NEW i \in Covered(images, roster, marks)
  PROVE  <<i, roster, TruthOn(i, roster)>> \in Vouched
<1>1. i \in Pool /\ roster # {} /\ \A c \in roster : <<i, c>> \in marks
  BY DEF Covered
<1> DEFINE p == <<i, roster>>
<1>2. p \in Pool \X ((SUBSET Classes) \ {{}}) /\ p[1] = i /\ p[2] = roster
  BY <1>1
<1>3. \A c \in p[2] : <<p[1], c>> \in marks
  BY <1>1
<1>4. <<p[1], p[2], TruthOn(p[1], p[2])>> \in Vouched
  BY <1>2, <1>3 DEF Vouched
<1> QED  BY <1>2, <1>4

LEMMA ScoredBegins == EvaluationInit => ScoredInv
<1> SUFFICES ASSUME EvaluationInit PROVE ScoredInv
  OBVIOUS
<1>1. build = Idle
  BY DEF EvaluationInit, BuildInit
<1> QED  BY <1>1, TypedBegins DEF ScoredInv, Reading, ScoredWasExamined

LEMMA ScoredKeeps == ScoredInv /\ [EvaluationNext]_evaluation => ScoredInv'
<1> SUFFICES ASSUME ScoredInv, [EvaluationNext]_evaluation PROVE ScoredInv'
  OBVIOUS
<1>1. Typed /\ Typed'
  BY TypedKeeps DEF ScoredInv
<1>2. CASE UNCHANGED <<truth, marks, build, examined>>
  BY <1>1, <1>2, VouchedStays DEF ScoredInv, Reading, Examined, ScoredWasExamined
<1>3. CASE Annotates
  <2>1. build' = build /\ examined' = (IF Reading THEN examined \cup Vouched' ELSE examined)
    BY <1>3 DEF Annotates, work
  <2>2. examined \subseteq examined'
    BY <2>1
  <2>3. Reading' => Vouched' \subseteq examined' /\ build'.eval = {}
    BY <2>1 DEF Reading, ScoredInv
  <2> QED  BY <1>1, <2>1, <2>2, <2>3 DEF ScoredInv, Examined, ScoredWasExamined
<1>4. ASSUME NEW j \in Jobs, Start(j) PROVE ScoredInv'
  <2>1. build'.at = "train" /\ build'.eval = {} /\ examined' = Vouched
    BY <1>4 DEF Start
  <2>2. Vouched' = Vouched
    BY <1>4, VouchedStays DEF Start, ground
  <2> QED  BY <1>1, <2>1, <2>2 DEF ScoredInv, ScoredWasExamined
<1>5. ASSUME UNCHANGED <<truth, marks, examined>>, build \in Run, build' \in Run,
             Reading' => Reading, build'.at # "truth",
             build'.eval = build.eval, build.eval = {} \/ build'.roster = build.roster
      PROVE  ScoredInv'
  <2>1. build # Idle
    BY <1>5, IdleIs DEF Run
  <2>2. ScoredWasExamined'
    BY <1>5, <2>1 DEF ScoredInv, ScoredWasExamined
  <2>3. Reading' => Vouched' \subseteq examined' /\ build'.eval = {}
    BY <1>5, VouchedStays DEF ScoredInv
  <2> QED  BY <1>1, <1>5, <2>2, <2>3 DEF ScoredInv
<1>6. CASE ReadTrain
  <2>1. build \in Run /\ Reading
    BY <1>1, <1>6, UnderWay, IdleIs DEF ReadTrain, At, Typed, Stages, Reading
  <2>2. build'.at = "roster" /\ build'.eval = build.eval /\ build'.roster = build.roster
    BY <1>6, <2>1 DEF ReadTrain, Run
  <2>3. build' \in Run
    BY <1>1, <2>2, IdleIs DEF Typed, RunTyped
  <2> QED  BY <1>5, <1>6, <2>1, <2>2, <2>3 DEF ReadTrain, ground
<1>7. CASE ReadRoster
  <2>1. build \in Run /\ Reading
    BY <1>1, <1>7, UnderWay, IdleIs DEF ReadRoster, At, Typed, Stages, Reading
  <2>2. build'.at = "marks" /\ build'.eval = build.eval
    BY <1>7, <2>1 DEF ReadRoster, Run
  <2>3. build' \in Run
    BY <1>1, <2>2, IdleIs DEF Typed, RunTyped
  <2>4. build.eval = {}
    BY <2>1 DEF ScoredInv
  <2> QED  BY <1>5, <1>7, <2>1, <2>2, <2>3, <2>4 DEF ReadRoster, ground
<1>8. CASE ReadMarks
  <2>1. build \in Run /\ Reading
    BY <1>1, <1>8, UnderWay, IdleIs DEF ReadMarks, At, Typed, Stages, Reading
  <2>2. /\ build'.at = "truth" /\ build'.eval = build.eval /\ build'.roster = build.roster
        /\ build'.scored = Covered(build.frozen, build.roster, marks)
    BY <1>8, <2>1 DEF ReadMarks, Run
  <2>3. UNCHANGED <<truth, marks, examined>>
    BY <1>8 DEF ReadMarks, ground
  <2>4. build.eval = {} /\ Vouched \subseteq examined
    BY <2>1 DEF ScoredInv
  <2>5. ASSUME NEW i \in build'.scored PROVE Examined(i, build.roster)'
    <3>1. build.frozen \in SUBSET Pool /\ build.roster \in SUBSET Classes
      BY <2>1 DEF Run
    <3>2. <<i, build.roster, TruthOn(i, build.roster)>> \in examined
      BY <2>2, <2>4, <2>5, <3>1, CoveredIsVouched
    <3> QED  BY <2>2, <2>3, <3>2 DEF Examined
  <2>6. Vouched' \subseteq examined'
    BY <2>3, <2>4, VouchedStays
  <2>7. ScoredWasExamined'
    BY <2>2, <2>4 DEF ScoredWasExamined
  <2> QED  BY <1>1, <2>2, <2>4, <2>5, <2>6, <2>7 DEF ScoredInv
<1>9. CASE ReadTruth
  <2>1. build \in Run /\ build.at = "truth"
    BY <1>1, <1>9, UnderWay DEF ReadTruth, At, Typed, Stages
  <2>2. /\ build'.at = "copy" /\ build'.roster = build.roster
        /\ build'.eval = {[image |-> i, split |-> "eval", labels |-> TruthOn(i, build.roster)] :
                            i \in build.scored}
    BY <1>9, <2>1 DEF ReadTruth, Run
  <2>3. examined' = examined
    BY <1>9 DEF ReadTruth
  <2>4. \A i \in build.scored : Examined(i, build.roster)
    BY <2>1, IdleIs DEF ScoredInv, Run
  <2>5. ASSUME NEW e \in build'.eval PROVE \E x \in examined' : x[1] = e.image /\ x[2] = build'.roster
    <3>1. PICK i \in build.scored : e.image = i
      BY <2>2, <2>5
    <3> QED  BY <2>2, <2>3, <2>4, <3>1 DEF Examined
  <2>6. ScoredWasExamined'
    BY <2>5 DEF ScoredWasExamined
  <2>7. ~Reading'
    BY <2>2 DEF Reading
  <2> QED  BY <1>1, <2>2, <2>6, <2>7 DEF ScoredInv
<1>10. CASE CopyOne
  <2>1. build \in Run
    BY <1>1, <1>10, UnderWay DEF CopyOne, At, Typed, Stages
  <2>2. build'.at = "copy" /\ build'.eval = build.eval /\ build'.roster = build.roster
    BY <1>10, <2>1 DEF CopyOne, At, Run
  <2>3. build' \in Run /\ ~Reading'
    BY <1>1, <2>2, IdleIs DEF Typed, RunTyped, Reading
  <2> QED  BY <1>5, <1>10, <2>1, <2>2, <2>3 DEF CopyOne, ground
<1>11. CASE PutManifest
  <2>1. build \in Run
    BY <1>1, <1>11, UnderWay DEF PutManifest, At, Typed, Stages
  <2>2. build'.at = "report" /\ build'.eval = build.eval /\ build'.roster = build.roster
    BY <1>11, <2>1 DEF PutManifest, Goto, Run
  <2>3. build' \in Run /\ ~Reading'
    BY <1>1, <2>2, IdleIs DEF Typed, RunTyped, Reading
  <2> QED  BY <1>5, <1>11, <2>1, <2>2, <2>3 DEF PutManifest, ground
<1>12. CASE ReportSnapshot \/ BuildDies
  <2>1. build' = Idle
    BY <1>12 DEF ReportSnapshot, BuildDies
  <2> QED  BY <1>1, <2>1 DEF ScoredInv, Reading, ScoredWasExamined
<1>13. CASE Reworks \/ Rules \/ Promoted \/ UNCHANGED evaluation
  <2>1. UNCHANGED <<truth, marks, build, examined>>
    BY <1>13 DEF Reworks, SetActive, StampReason, Rules, Promoted, evaluation, ground, work
  <2> QED  BY <1>2, <2>1
<1> QED
  BY <1>3, <1>4, <1>6, <1>7, <1>8, <1>9, <1>10, <1>11, <1>12, <1>13
     DEF EvaluationNext, Builds

\* What is scored was examined for every class of its roster at one instant.
THEOREM ScoredWasSeen == EvaluationSpec => []ScoredWasExamined
<1>1. ScoredInv => ScoredWasExamined
  BY DEF ScoredInv
<1> QED  BY <1>1, ScoredBegins, ScoredKeeps, PTL DEF EvaluationSpec

-----------------------------------------------------------------------------
(* Manifests.                                                              *)

\* The bucket, record by record.
BucketTyped ==
  /\ DOMAIN artifacts = Jobs
  /\ \A j \in Jobs :
       artifacts[j] = [objects |-> artifacts[j].objects, manifest |-> artifacts[j].manifest]

CatalogueRows ==
  [job : Jobs, images : {Cardinality(entries) : entries \in SUBSET (TrainEntry \cup EvalEntry)}]

\* The inductive invariant of what is exported: what a run has copied is
\* there, and so is the manifest that it is about to report.
ManifestInv ==
  /\ Typed /\ BucketTyped /\ catalogue \in Seq(CatalogueRows)
  /\ build # Idle => build.copied \subseteq artifacts[build.job].objects
  /\ build # Idle /\ build.at = "report" => artifacts[build.job].manifest.written
  /\ ManifestIsWhole

LEMMA ListedJobs ==
  ASSUME catalogue \in Seq(CatalogueRows)
  PROVE  \A k \in DOMAIN catalogue : catalogue[k].job \in Jobs
<1>1. \A k \in DOMAIN catalogue : catalogue[k] \in CatalogueRows
  OBVIOUS
<1> QED  BY <1>1 DEF CatalogueRows

LEMMA ManifestBegins == EvaluationInit => ManifestInv
<1> SUFFICES ASSUME EvaluationInit PROVE ManifestInv
  OBVIOUS
<1>1. build = Idle /\ catalogue = <<>>
  BY DEF EvaluationInit, BuildInit
<1>2. /\ DOMAIN artifacts = Jobs
      /\ \A j \in Jobs : artifacts[j] = [objects |-> {}, manifest |-> NoManifest]
  BY DEF EvaluationInit, BuildInit
<1>3. NoManifest.images = {}
  BY DEF NoManifest
<1>4. ManifestIsWhole
  BY <1>1, <1>2, <1>3 DEF ManifestIsWhole, ImagesOf
<1>5. BucketTyped
  BY <1>2 DEF BucketTyped
<1> QED  BY <1>1, <1>4, <1>5, TypedBegins DEF ManifestInv

LEMMA ManifestKeeps == ManifestInv /\ [EvaluationNext]_evaluation => ManifestInv'
<1> SUFFICES ASSUME ManifestInv, [EvaluationNext]_evaluation PROVE ManifestInv'
  OBVIOUS
<1>1. Typed /\ Typed' /\ BucketTyped /\ catalogue \in Seq(CatalogueRows)
  BY TypedKeeps DEF ManifestInv
<1>2. CASE UNCHANGED <<artifacts, catalogue, build>>
  BY <1>1, <1>2 DEF ManifestInv, BucketTyped, ManifestIsWhole
<1>3. ASSUME UNCHANGED <<artifacts, catalogue>>,
             build' = Idle \/ build'.copied = {}
               \/ (build # Idle /\ build'.job = build.job /\ build'.copied = build.copied),
             build' = Idle \/ build'.at # "report"
      PROVE  ManifestInv'
  BY <1>1, <1>3 DEF ManifestInv, BucketTyped, ManifestIsWhole
<1>4. ASSUME NEW j \in Jobs, Start(j) PROVE ManifestInv'
  BY <1>3, <1>4 DEF Start
<1>5. CASE ReadTrain \/ ReadRoster \/ ReadMarks \/ ReadTruth
  <2>1. build \in Run /\ build # Idle
    BY <1>1, <1>5, UnderWay, IdleIs
       DEF ReadTrain, ReadRoster, ReadMarks, ReadTruth, At, Typed, Stages
  <2>2. UNCHANGED <<artifacts, catalogue>>
    BY <1>5 DEF ReadTrain, ReadRoster, ReadMarks, ReadTruth
  <2>3. build'.job = build.job /\ build'.copied = build.copied /\ build'.at # "report"
    <3>1. CASE ReadTrain
      BY <2>1, <3>1 DEF ReadTrain, Run
    <3>2. CASE ReadRoster
      BY <2>1, <3>2 DEF ReadRoster, Run
    <3>3. CASE ReadMarks
      BY <2>1, <3>3 DEF ReadMarks, Run
    <3>4. CASE ReadTruth
      BY <2>1, <3>4 DEF ReadTruth, Run
    <3> QED  BY <1>5, <3>1, <3>2, <3>3, <3>4
  <2> QED  BY <1>3, <2>1, <2>2, <2>3
<1>6. CASE CopyOne
  <2>1. build \in Run /\ build # Idle
    BY <1>1, <1>6, UnderWay, IdleIs DEF CopyOne, At, Typed, Stages
  <2> DEFINE job == build.job
  <2>2. PICK i \in ImagesOf(Source) :
          /\ artifacts' = [artifacts EXCEPT ![job].objects = artifacts[job].objects \cup {i}]
          /\ build' = [build EXCEPT !.copied = build.copied \cup {i}]
    BY <1>6 DEF CopyOne
  <2>3. job \in Jobs
    BY <2>1 DEF Run
  <2>4. build'.job = job /\ build'.at = "copy" /\ build'.copied = build.copied \cup {i}
    BY <1>6, <2>1, <2>2 DEF CopyOne, At, Run
  <2> HIDE DEF job
  <2>5. /\ DOMAIN artifacts' = Jobs
        /\ \A j \in Jobs : artifacts'[j] =
             [objects |-> IF j = job THEN artifacts[j].objects \cup {i} ELSE artifacts[j].objects,
              manifest |-> artifacts[j].manifest]
    <3> DEFINE row == [objects |-> artifacts[job].objects \cup {i}, manifest |-> artifacts[job].manifest]
    <3>1. artifacts[job] = [objects |-> artifacts[job].objects, manifest |-> artifacts[job].manifest]
      BY <1>1, <2>3 DEF BucketTyped
    <3>2. [artifacts[job] EXCEPT !.objects = artifacts[job].objects \cup {i}] = row
      BY <3>1
    <3> HIDE DEF row
    <3>3. artifacts' = [artifacts EXCEPT ![job] = row]
      BY <2>2, <3>2
    <3>4. DOMAIN artifacts' = Jobs /\ artifacts'[job] = row
            /\ \A j \in Jobs \ {job} : artifacts'[j] = artifacts[j]
      BY <1>1, <2>3, <3>3 DEF BucketTyped
    <3> QED  BY <1>1, <3>4 DEF BucketTyped, row
  <2>6. build.copied \subseteq artifacts[job].objects
    BY <2>1 DEF ManifestInv, job
  <2>7. build'.copied \subseteq artifacts'[build'.job].objects
    BY <2>3, <2>4, <2>5, <2>6
  <2>8. \A j \in Jobs : artifacts'[j].manifest = artifacts[j].manifest
                          /\ artifacts[j].objects \subseteq artifacts'[j].objects
    BY <2>5
  <2>9. catalogue' = catalogue
    BY <1>6 DEF CopyOne
  <2>10. \A k \in DOMAIN catalogue : catalogue[k].job \in Jobs
    BY <1>1, ListedJobs
  <2>11. ManifestIsWhole'
    BY <2>8, <2>9, <2>10 DEF ManifestInv, ManifestIsWhole
  <2>12. BucketTyped'
    BY <2>5 DEF BucketTyped
  <2> QED  BY <1>1, <2>4, <2>7, <2>9, <2>11, <2>12 DEF ManifestInv
<1>7. CASE PutManifest
  <2>1. build \in Run /\ build # Idle
    BY <1>1, <1>7, UnderWay, IdleIs DEF PutManifest, At, Typed, Stages
  <2> DEFINE job == build.job
  <2> DEFINE manifest == [images |-> Source, written |-> TRUE]
  <2>2. artifacts' = [artifacts EXCEPT ![job].manifest = manifest] /\ catalogue' = catalogue
    BY <1>7 DEF PutManifest
  <2>3. job \in Jobs
    BY <2>1 DEF Run
  <2>4. build'.job = job /\ build'.copied = build.copied
    BY <1>7, <2>1 DEF PutManifest, Goto, Run
  <2>5. ImagesOf(Source) = build.copied /\ build.copied \subseteq artifacts[job].objects
    BY <1>7, <2>1 DEF PutManifest, CopiesDone, ManifestInv
  <2>6. ImagesOf(manifest.images) = build.copied /\ manifest.written
    BY <2>5
  <2> HIDE DEF job, manifest
  <2>7. /\ DOMAIN artifacts' = Jobs
        /\ \A j \in Jobs : artifacts'[j] =
             [objects |-> artifacts[j].objects,
              manifest |-> IF j = job THEN manifest ELSE artifacts[j].manifest]
    <3> DEFINE row == [objects |-> artifacts[job].objects, manifest |-> manifest]
    <3>1. artifacts[job] = [objects |-> artifacts[job].objects, manifest |-> artifacts[job].manifest]
      BY <1>1, <2>3 DEF BucketTyped
    <3>2. [artifacts[job] EXCEPT !.manifest = manifest] = row
      BY <3>1
    <3> HIDE DEF row
    <3>3. artifacts' = [artifacts EXCEPT ![job] = row]
      BY <2>2, <3>2
    <3>4. DOMAIN artifacts' = Jobs /\ artifacts'[job] = row
            /\ \A j \in Jobs \ {job} : artifacts'[j] = artifacts[j]
      BY <1>1, <2>3, <3>3 DEF BucketTyped
    <3> QED  BY <1>1, <3>4 DEF BucketTyped, row
  <2>8. \A k \in DOMAIN catalogue : catalogue[k].job \in Jobs
    BY <1>1, ListedJobs
  <2>9. /\ \A j \in Jobs : ImagesOf(artifacts'[j].manifest.images) \subseteq artifacts'[j].objects
        /\ \A j \in Jobs : artifacts[j].manifest.written => artifacts'[j].manifest.written
        /\ artifacts'[job].manifest.written /\ artifacts'[job].objects = artifacts[job].objects
    BY <2>3, <2>5, <2>6, <2>7 DEF ManifestInv, ManifestIsWhole
  <2>10. ManifestIsWhole'
    BY <2>2, <2>8, <2>9 DEF ManifestInv, ManifestIsWhole, ImagesOf
  <2>11. BucketTyped'
    BY <2>7 DEF BucketTyped
  <2> QED  BY <1>1, <2>2, <2>4, <2>5, <2>9, <2>10, <2>11 DEF ManifestInv
<1>8. CASE ReportSnapshot
  <2>1. build \in Run /\ build # Idle /\ build.at = "report"
    BY <1>1, <1>8, UnderWay, IdleIs DEF ReportSnapshot, At, Typed, Stages
  <2> DEFINE row == [job |-> build.job, images |-> Cardinality(Source)]
  <2>2. catalogue' = Append(catalogue, row) /\ build' = Idle /\ artifacts' = artifacts
    BY <1>8 DEF ReportSnapshot
  <2>3. row \in CatalogueRows
    BY <2>1 DEF CatalogueRows, Run, Source
  <2>4. row.job = build.job
    OBVIOUS
  <2>5. artifacts[build.job].manifest.written
    BY <2>1 DEF ManifestInv
  <2> HIDE DEF row
  <2>6. catalogue' \in Seq(CatalogueRows)
    BY <1>1, <2>2, <2>3
  <2>7. \A k \in DOMAIN catalogue' : catalogue'[k] = row \/ (k \in DOMAIN catalogue /\ catalogue'[k] = catalogue[k])
    BY <1>1, <2>2, <2>3
  <2>8. ManifestIsWhole'
    BY <2>2, <2>4, <2>5, <2>7 DEF ManifestInv, ManifestIsWhole
  <2> QED  BY <1>1, <2>2, <2>6, <2>8 DEF ManifestInv, BucketTyped
<1>9. CASE BuildDies
  BY <1>3, <1>9 DEF BuildDies
<1>10. CASE Annotates \/ Reworks \/ Rules \/ Promoted \/ UNCHANGED evaluation
  BY <1>2, <1>10 DEF Annotates, Reworks, Rules, Promoted, evaluation, work
<1> QED
  BY <1>4, <1>5, <1>6, <1>7, <1>8, <1>9, <1>10 DEF EvaluationNext, Builds

\* A manifest names objects that are there, and what is listed has one.
THEOREM ManifestsAreWhole == EvaluationSpec => []ManifestIsWhole
<1>1. ManifestInv => ManifestIsWhole
  BY DEF ManifestInv
<1> QED  BY <1>1, ManifestBegins, ManifestKeeps, PTL DEF EvaluationSpec

-----------------------------------------------------------------------------
(* Verdicts.                                                               *)

RuledByAdmin(i) == \E k \in DOMAIN log : log[k].image = i /\ log[k].source = "admin"
AdminRow(k, i) == k \in DOMAIN log /\ log[k].image = i /\ log[k].source = "admin"

LEMMA LogSteps ==
  ASSUME log \in Seq(Verdict), [EvaluationNext]_evaluation
  PROVE  log' = log \/ \E v \in Verdict : log' = Append(log, v)
<1>1. ASSUME Rules PROVE \E v \in Verdict : log' = Append(log, v)
  <2>1. PICK i \in Pool, source \in Sources, accepts \in BOOLEAN :
          log' = Append(log, [image |-> i, source |-> source, accepts |-> accepts])
    BY <1>1 DEF Rules
  <2>2. [image |-> i, source |-> source, accepts |-> accepts] \in Verdict
    BY DEF Verdict
  <2> QED  BY <2>1, <2>2
<1>2. ~Rules => log' = log
  BY DEF EvaluationNext, evaluation, Annotates, Reworks, Promoted, Builds, Start, ReadTrain,
         ReadRoster, ReadMarks, ReadTruth, CopyOne, PutManifest, ReportSnapshot, BuildDies
<1> QED  BY <1>1, <1>2

\* With a ruling of an administrator's, the latest of theirs decides, whoever
\* is trusted.
AdminsDecide ==
  \A i : RuledByAdmin(i) =>
    \A k : Wins(k, i) <=> AdminRow(k, i) /\ \A m : AdminRow(m, i) => k >= m

LEMMA LatestAdminWins == log \in Seq(Verdict) => AdminsDecide
<1> SUFFICES ASSUME log \in Seq(Verdict), NEW i, RuledByAdmin(i), NEW k
             PROVE  Wins(k, i) <=> AdminRow(k, i) /\ \A m : AdminRow(m, i) => k >= m
  BY DEF AdminsDecide
<1>1. PICK a : AdminRow(a, i)
  BY DEF RuledByAdmin, AdminRow
<1>2. \A m : AdminRow(m, i) => m \in Weighty(i) /\ Rank(m) = 0
  BY DEF AdminRow, Weighty, Rank
<1>3. \A m \in Weighty(i) : AdminRow(m, i) \/ Rank(m) = 1
  BY DEF AdminRow, Weighty, Rank
<1>4. ASSUME Wins(k, i) PROVE AdminRow(k, i) /\ \A m : AdminRow(m, i) => k >= m
  <2>1. k \in Weighty(i) /\ \A m \in Weighty(i) : Rank(k) < Rank(m) \/ (Rank(k) = Rank(m) /\ k >= m)
    BY <1>4 DEF Wins
  <2>2. Rank(k) # 1
    BY <1>1, <1>2, <2>1
  <2>3. AdminRow(k, i)
    BY <1>3, <2>1, <2>2
  <2> QED  BY <1>2, <2>1, <2>3
<1>5. ASSUME AdminRow(k, i), \A m : AdminRow(m, i) => k >= m PROVE Wins(k, i)
  <2>1. k \in Weighty(i) /\ Rank(k) = 0
    BY <1>2, <1>5
  <2>2. \A m \in Weighty(i) : Rank(k) < Rank(m) \/ (Rank(k) = Rank(m) /\ k >= m)
    BY <1>2, <1>3, <1>5, <2>1
  <2> QED  BY <2>1, <2>2 DEF Wins
<1> QED  BY <1>4, <1>5

\* A ruling that is not an administrator's on the image leaves the winner.
LEMMA LabelStays ==
  ASSUME AdminsDecide, AdminsDecide', NEW i, RuledByAdmin(i),
         \A k : AdminRow(k, i)' <=> AdminRow(k, i),
         \A k \in DOMAIN log : log'[k] = log[k]
  PROVE  LabelOf(i)' = LabelOf(i)
<1>1. RuledByAdmin(i)'
  BY DEF RuledByAdmin, AdminRow
<1>2. \A k : Wins(k, i)' <=> AdminRow(k, i)' /\ \A m : AdminRow(m, i)' => k >= m
  BY <1>1 DEF AdminsDecide
<1>3. \A k : Wins(k, i) <=> AdminRow(k, i) /\ \A m : AdminRow(m, i) => k >= m
  BY DEF AdminsDecide
<1>4. \A k : Wins(k, i)' <=> Wins(k, i)
  BY <1>2, <1>3
<1>5. \A k : Wins(k, i) => k \in DOMAIN log
  BY DEF Wins, Weighty
<1>6. \A k : Wins(k, i)' => k \in DOMAIN log'
  BY DEF Wins, Weighty
<1>7. (\E k \in DOMAIN log : Wins(k, i) /\ log[k].accepts)
        <=> \E k \in DOMAIN log' : Wins(k, i)' /\ log'[k].accepts
  BY <1>4, <1>5, <1>6
<1> QED  BY <1>7 DEF LabelOf

LEMMA AdminStep ==
  ASSUME log \in Seq(Verdict), AdminsDecide, AdminsDecide', [EvaluationNext]_evaluation,
         NEW i \in Pool, RuledByAdmin(i), LabelOf(i)' # LabelOf(i)
  PROVE  Last(log').source = "admin" /\ Last(log').image = i
<1>1. CASE log' = log
  <2>1. \A k : AdminRow(k, i)' <=> AdminRow(k, i)
    BY <1>1 DEF AdminRow
  <2> QED  BY <1>1, <2>1, LabelStays
<1>2. ASSUME NEW v \in Verdict, log' = Append(log, v) PROVE v.source = "admin" /\ v.image = i
  <2>1. /\ DOMAIN log' = DOMAIN log \cup {Len(log) + 1}
        /\ log'[Len(log) + 1] = v /\ \A k \in DOMAIN log : log'[k] = log[k]
        /\ Len(log) + 1 \notin DOMAIN log
    BY <1>2
  <2>2. ~(v.source = "admin" /\ v.image = i) => \A k : AdminRow(k, i)' <=> AdminRow(k, i)
    BY <2>1 DEF AdminRow
  <2> QED  BY <2>1, <2>2, LabelStays
<1>3. ASSUME NEW v \in Verdict, log' = Append(log, v) PROVE Last(log') = v
  BY <1>3 DEF Last
<1> QED  BY <1>1, <1>2, <1>3, LogSteps

\* Once an administrator has ruled, only an administrator's ruling moves the
\* label.
THEOREM AdminHasTheWord == EvaluationSpec => AdminLabelStands
<1>1. EvaluationInit => log \in Seq(Verdict)
  BY DEF EvaluationInit, BuildInit
<1>2. log \in Seq(Verdict) /\ [EvaluationNext]_evaluation => (log \in Seq(Verdict))'
  BY LogSteps
<1>3. /\ log \in Seq(Verdict) /\ AdminsDecide /\ AdminsDecide'
      /\ [EvaluationNext]_evaluation
      => [\A i \in Pool :
            (\E k \in DOMAIN log : log[k].image = i /\ log[k].source = "admin")
              /\ LabelOf(i)' # LabelOf(i)
            => Last(log').source = "admin" /\ Last(log').image = i]_evaluation
  BY AdminStep DEF RuledByAdmin
<1> QED
  BY <1>1, <1>2, <1>3, LatestAdminWins, PTL DEF EvaluationSpec, AdminLabelStands

-----------------------------------------------------------------------------
(* Splits.                                                                 *)

Stamps == {"none", "random", "manual"}

RuledIsStamped == \A k \in DOMAIN log : reason[log[k].image] # "none"

HalvesKnown ==
  build # Idle =>
    /\ \A e \in build.train : reason[e.image] = "manual" /\ e.labels = 1
    /\ \A i \in build.frozen : reason[i] = "random"
    /\ build.at = "truth" => build.scored \subseteq build.frozen
    /\ \A e \in build.eval : reason[e.image] = "random"
    /\ \A e, f \in build.eval : e.image = f.image => e = f

\* The inductive invariant of the two halves: a stamp outlives whoever read
\* it, and only what is stamped is ruled on.
SplitsInv ==
  /\ Typed /\ log \in Seq(Verdict) /\ reason \in [Pool -> Stamps]
  /\ RuledIsStamped /\ HalvesKnown

\* Each half agrees with the stamps, and neither has an image twice.
LEMMA SplitsFollow == SplitsInv => SplitsHold
<1> SUFFICES ASSUME SplitsInv, build # Idle, NEW e \in Source, NEW f \in Source
             PROVE  Agrees(e) /\ (e.image = f.image => e = f)
  BY DEF SplitsHold
<1>1. build \in Run
  BY DEF SplitsInv, Typed, RunTyped
<1>2. \A x \in build.train : x \in TrainEntry /\ reason[x.image] = "manual" /\ x.labels = 1
  BY <1>1 DEF SplitsInv, HalvesKnown, Run
<1>3. \A x \in build.eval : x \in EvalEntry /\ reason[x.image] = "random"
  BY <1>1 DEF SplitsInv, HalvesKnown, Run
<1>4. \A x \in build.train : x = [image |-> x.image, split |-> "train", labels |-> 1]
  BY <1>2 DEF TrainEntry
<1>5. \A x \in build.eval : x.split = "eval"
  BY <1>3 DEF EvalEntry
<1>6. Agrees(e)
  BY <1>2, <1>3, <1>4, <1>5 DEF Agrees, SplitFor, Source
<1>7. ASSUME e.image = f.image PROVE e = f
  <2>1. CASE e \in build.train /\ f \in build.train
    <3>1. e = [image |-> e.image, split |-> "train", labels |-> 1]
      BY <1>4, <2>1
    <3>2. f = [image |-> f.image, split |-> "train", labels |-> 1]
      BY <1>4, <2>1
    <3> QED  BY <1>7, <3>1, <3>2
  <2>2. CASE e \in build.eval /\ f \in build.eval
    BY <1>7, <2>2 DEF SplitsInv, HalvesKnown
  <2>3. CASE (e \in build.train /\ f \in build.eval) \/ (e \in build.eval /\ f \in build.train)
    BY <1>2, <1>3, <1>7, <2>3
  <2> QED  BY <2>1, <2>2, <2>3 DEF Source
<1> QED  BY <1>6, <1>7

LEMMA SplitsBegin == EvaluationInit => SplitsInv
<1> SUFFICES ASSUME EvaluationInit PROVE SplitsInv
  OBVIOUS
<1>1. build = Idle /\ log = <<>> /\ reason \in [Pool -> Stamps]
  BY DEF EvaluationInit, BuildInit, GroundInit, Stamps
<1> QED  BY <1>1, TypedBegins DEF SplitsInv, RuledIsStamped, HalvesKnown

\* A stamp stays.
LEMMA StampStays ==
  ASSUME reason \in [Pool -> Stamps], [EvaluationNext]_evaluation
  PROVE  /\ reason' \in [Pool -> Stamps]
         /\ \A i \in Pool : reason[i] # "none" => reason'[i] = reason[i]
<1>1. CASE reason' = reason
  BY <1>1
<1>2. ASSUME NEW i \in Pool, NEW why \in {"random", "manual"}, StampReason(i, why)
      PROVE  /\ reason' \in [Pool -> Stamps]
             /\ \A k \in Pool : reason[k] # "none" => reason'[k] = reason[k]
  BY <1>2 DEF StampReason, Stamps
<1>3. reason' = reason \/ \E i \in Pool, why \in {"random", "manual"} : StampReason(i, why)
  BY DEF EvaluationNext, evaluation, ground, Annotates, DrawBox, DeleteBox, SetExhaustive,
         Reworks, SetActive, Rules, Promoted, Builds, Start, ReadTrain, ReadRoster, ReadMarks,
         ReadTruth, CopyOne, PutManifest, ReportSnapshot, BuildDies
<1> QED  BY <1>1, <1>2, <1>3

LEMMA RulingsFindStamps ==
  ASSUME SplitsInv, [EvaluationNext]_evaluation
  PROVE  log' \in Seq(Verdict) /\ RuledIsStamped'
<1>1. log \in Seq(Verdict) /\ \A k \in DOMAIN log : log[k].image \in Pool
  <2>1. \A k \in DOMAIN log : log[k] \in Verdict
    BY DEF SplitsInv
  <2> QED  BY <2>1 DEF SplitsInv, Verdict
<1>2. \A i \in Pool : reason[i] # "none" => reason'[i] = reason[i]
  BY StampStays DEF SplitsInv
<1>3. CASE ~Rules
  <2>1. log' = log
    BY <1>3 DEF EvaluationNext, evaluation, Annotates, Reworks, Promoted, Builds, Start,
            ReadTrain, ReadRoster, ReadMarks, ReadTruth, CopyOne, PutManifest, ReportSnapshot,
            BuildDies
  <2> QED  BY <1>1, <1>2, <2>1 DEF SplitsInv, RuledIsStamped
<1>4. CASE Rules
  <2>1. PICK i \in Pool, source \in Sources, accepts \in BOOLEAN :
          /\ reason[i] # "none" /\ reason' = reason
          /\ log' = Append(log, [image |-> i, source |-> source, accepts |-> accepts])
    BY <1>4 DEF Rules, ground
  <2> DEFINE v == [image |-> i, source |-> source, accepts |-> accepts]
  <2>2. v \in Verdict /\ v.image = i
    BY DEF Verdict
  <2> HIDE DEF v
  <2>3. log' = Append(log, v)
    BY <2>1 DEF v
  <2>4. \A k \in DOMAIN log' : log'[k] = v \/ (k \in DOMAIN log /\ log'[k] = log[k])
    BY <1>1, <2>2, <2>3
  <2>5. log' \in Seq(Verdict)
    BY <1>1, <2>2, <2>3
  <2> QED  BY <2>1, <2>2, <2>4, <2>5 DEF SplitsInv, RuledIsStamped
<1> QED  BY <1>3, <1>4

LEMMA HalvesKeep ==
  ASSUME SplitsInv, [EvaluationNext]_evaluation
  PROVE  HalvesKnown'
<1>1. Typed /\ HalvesKnown /\ \A i \in Pool : reason[i] # "none" => reason'[i] = reason[i]
  BY StampStays DEF SplitsInv
<1>2. CASE build' = build
  <2>1. build # Idle => build \in Run
    BY <1>1 DEF Typed, RunTyped
  <2>2. build # Idle =>
          /\ \A e \in build.train \cup build.eval : e.image \in Pool
          /\ build.frozen \subseteq Pool
    BY <2>1 DEF Run, TrainEntry, EvalEntry
  <2> QED  BY <1>1, <1>2, <2>2 DEF HalvesKnown
<1>3. CASE build' = Idle
  BY <1>3 DEF HalvesKnown
<1>4. ASSUME NEW j \in Jobs, Start(j) PROVE HalvesKnown'
  BY <1>4 DEF Start, HalvesKnown
<1>5. ASSUME build \in Run, build # Idle, reason' = reason, build'.train = build.train,
             build'.frozen = build.frozen, build'.eval = build.eval,
             build'.at = "truth" => build'.scored \subseteq build.frozen
      PROVE  HalvesKnown'
  BY <1>1, <1>5 DEF HalvesKnown
<1>6. CASE ReadTrain
  <2>1. build \in Run /\ build # Idle /\ build.at = "train"
    BY <1>1, <1>6, UnderWay, IdleIs DEF ReadTrain, At, Typed, Stages
  <2>2. /\ build'.train = {[image |-> i, split |-> "train", labels |-> LabelOf(i)] :
                             i \in {k \in Pool : reason[k] # "random" /\ LabelOf(k) = 1}}
        /\ build'.eval = build.eval /\ build'.frozen = build.frozen /\ build'.at = "roster"
    BY <1>6, <2>1 DEF ReadTrain, Run
  <2>3. reason' = reason
    BY <1>6 DEF ReadTrain, ground
  <2>4. ASSUME NEW e \in build'.train PROVE reason[e.image] = "manual" /\ e.labels = 1
    <3>1. PICK i \in Pool : /\ reason[i] # "random" /\ LabelOf(i) = 1
                            /\ e = [image |-> i, split |-> "train", labels |-> LabelOf(i)]
      BY <2>2, <2>4
    <3>2. \E k \in DOMAIN log : log[k].image = i
      BY <3>1 DEF LabelOf, Wins, Weighty
    <3>3. reason[i] # "none" /\ reason[i] \in Stamps
      BY <3>2 DEF SplitsInv, RuledIsStamped
    <3> QED  BY <3>1, <3>3 DEF Stamps
  <2> QED  BY <1>1, <2>1, <2>2, <2>3, <2>4 DEF HalvesKnown
<1>7. CASE ReadRoster
  <2>1. build \in Run /\ build # Idle
    BY <1>1, <1>7, UnderWay, IdleIs DEF ReadRoster, At, Typed, Stages
  <2>2. /\ build'.train = build.train /\ build'.eval = build.eval /\ build'.at = "marks"
        /\ build'.frozen = Frozen /\ reason' = reason
    BY <1>7, <2>1 DEF ReadRoster, Run, ground
  <2> QED  BY <1>1, <2>1, <2>2 DEF HalvesKnown, Frozen
<1>8. CASE ReadMarks
  <2>1. build \in Run /\ build # Idle
    BY <1>1, <1>8, UnderWay, IdleIs DEF ReadMarks, At, Typed, Stages
  <2>2. /\ build'.train = build.train /\ build'.eval = build.eval
        /\ build'.frozen = build.frozen /\ reason' = reason
        /\ build'.scored = Covered(build.frozen, build.roster, marks)
    BY <1>8, <2>1 DEF ReadMarks, Run, ground
  <2>3. build'.scored \subseteq build.frozen
    BY <2>2 DEF Covered
  <2> QED  BY <1>5, <2>1, <2>2, <2>3
<1>9. CASE ReadTruth
  <2>1. build \in Run /\ build # Idle /\ build.at = "truth"
    BY <1>1, <1>9, UnderWay, IdleIs DEF ReadTruth, At, Typed, Stages
  <2>2. /\ build'.train = build.train /\ build'.frozen = build.frozen /\ build'.at = "copy"
        /\ build'.eval = {[image |-> i, split |-> "eval", labels |-> TruthOn(i, build.roster)] :
                            i \in build.scored}
    BY <1>9, <2>1 DEF ReadTruth, Run
  <2>3. reason' = reason
    BY <1>9 DEF ReadTruth, ground
  <2>4. \A i \in build.scored : reason[i] = "random"
    BY <1>1, <2>1 DEF HalvesKnown
  <2>5. /\ \A e \in build'.eval : reason[e.image] = "random"
        /\ \A e, f \in build'.eval : e.image = f.image => e = f
    BY <2>2, <2>4
  <2> QED  BY <1>1, <2>1, <2>2, <2>3, <2>5 DEF HalvesKnown
<1>10. CASE CopyOne
  <2>1. build \in Run /\ build # Idle
    BY <1>1, <1>10, UnderWay, IdleIs DEF CopyOne, At, Typed, Stages
  <2>2. /\ build'.train = build.train /\ build'.eval = build.eval /\ build'.at = "copy"
        /\ build'.frozen = build.frozen /\ reason' = reason
    BY <1>10, <2>1 DEF CopyOne, At, Run, ground
  <2> QED  BY <1>5, <2>1, <2>2
<1>11. CASE PutManifest
  <2>1. build \in Run /\ build # Idle
    BY <1>1, <1>11, UnderWay, IdleIs DEF PutManifest, At, Typed, Stages
  <2>2. /\ build'.train = build.train /\ build'.eval = build.eval /\ build'.at = "report"
        /\ build'.frozen = build.frozen /\ reason' = reason
    BY <1>11, <2>1 DEF PutManifest, Goto, Run, ground
  <2> QED  BY <1>5, <2>1, <2>2
<1>12. CASE Annotates \/ Reworks \/ Rules \/ Promoted \/ UNCHANGED evaluation
  BY <1>2, <1>12 DEF Annotates, Reworks, Rules, Promoted, evaluation, work
<1>13. CASE ReportSnapshot \/ BuildDies
  BY <1>3, <1>13 DEF ReportSnapshot, BuildDies
<1> QED
  BY <1>4, <1>6, <1>7, <1>8, <1>9, <1>10, <1>11, <1>12, <1>13 DEF EvaluationNext, Builds

LEMMA SplitsKeep == SplitsInv /\ [EvaluationNext]_evaluation => SplitsInv'
BY TypedKeeps, StampStays, RulingsFindStamps, HalvesKeep DEF SplitsInv

\* Nothing evaluated on was trained on, and the worker's second opinion of a
\* split never fails a build.
THEOREM SplitsStand == EvaluationSpec => []SplitsHold
BY SplitsKeep, SplitsFollow, SplitsBegin, PTL DEF EvaluationSpec

-----------------------------------------------------------------------------
(* Types, down to what is exported.                                        *)

\* Nothing is deleted that is not there, nor drawn beyond the bound.
BoxesBounded == \A p \in Pairs : truth[p] <= MaxBoxes

\* What a run exports: finitely many entries.
ExportTyped ==
  build # Idle =>
    /\ build.eval \subseteq Entries
    /\ IsFiniteSet(build.train) /\ IsFiniteSet(build.eval)

\* The inductive invariant, beyond ManifestInv and SplitsInv.
TypeInv ==
  /\ BoxesBounded /\ marks \subseteq Pairs
  /\ trusted \in BOOLEAN /\ runs \in Nat /\ edits \in Nat
  /\ ExportTyped
  /\ \A j \in Jobs : artifacts[j].objects \subseteq Pool
                       /\ artifacts[j].manifest.images \subseteq Entries
  /\ catalogue \in Seq([job : Jobs, images : Nat])

\* An entry for each of some images of the pool.
LEMMA EntriesFinite ==
  ASSUME NEW images \in SUBSET Pool, NEW entry, DOMAIN entry = images
  PROVE  IsFiniteSet({entry[i] : i \in images})
<1> DEFINE entries == {entry[i] : i \in images}
<1>1. IsFiniteSet(images)
  BY GroundTruthAssumption, FS_Subset
<1>2. [i \in images |-> entry[i]] \in Surjection(images, entries)
  BY DEF Surjection
<1> QED  BY <1>1, <1>2, FS_Surjection

LEMMA BoxesStayBounded ==
  ASSUME Typed, BoxesBounded, marks \subseteq Pairs, [EvaluationNext]_evaluation
  PROVE  BoxesBounded' /\ marks' \subseteq Pairs
<1>1. CASE UNCHANGED <<truth, marks>>
  BY <1>1 DEF BoxesBounded
<1>2. ASSUME NEW i \in Pool, NEW c \in Classes,
             DrawBox(i, c) \/ DeleteBox(i, c) \/ \E exhaustive \in BOOLEAN : SetExhaustive(i, c, exhaustive)
      PROVE  BoxesBounded' /\ marks' \subseteq Pairs
  <2>1. <<i, c>> \in Pairs /\ truth \in [Pairs -> Nat] /\ MaxBoxes \in Nat
    BY GroundTruthAssumption DEF Pairs, Typed, GroundTyped
  <2> DEFINE p == <<i, c>>
  <2>2. truth[p] \in Nat
    BY <2>1
  <2>3. CASE DrawBox(i, c)
    <3>1. truth' = [truth EXCEPT ![p] = truth[p] + 1] /\ truth[p] < MaxBoxes /\ marks' = marks
      BY <2>3 DEF DrawBox
    <3> HIDE DEF p
    <3> QED  BY <2>1, <2>2, <3>1 DEF BoxesBounded
  <2>4. CASE DeleteBox(i, c)
    <3>1. truth' = [truth EXCEPT ![p] = truth[p] - 1] /\ marks' = marks
      BY <2>4 DEF DeleteBox
    <3> HIDE DEF p
    <3> QED  BY <2>1, <2>2, <3>1 DEF BoxesBounded
  <2>5. CASE \E exhaustive \in BOOLEAN : SetExhaustive(i, c, exhaustive)
    BY <2>1, <2>5 DEF SetExhaustive, BoxesBounded
  <2> QED  BY <1>2, <2>3, <2>4, <2>5
<1> QED
  BY <1>1, <1>2
     DEF EvaluationNext, evaluation, ground, Annotates, Reworks, SetActive, StampReason,
         Rules, Promoted, Builds, Start, ReadTrain, ReadRoster, ReadMarks, ReadTruth, CopyOne,
         PutManifest, ReportSnapshot, BuildDies

LEMMA ExportKeeps ==
  ASSUME Typed, BoxesBounded, ExportTyped, [EvaluationNext]_evaluation
  PROVE  ExportTyped'
<1>1. CASE build' = Idle
  BY <1>1 DEF ExportTyped
<1>2. ASSUME build # Idle, build'.train = build.train, build'.eval = build.eval
      PROVE  ExportTyped'
  BY <1>2 DEF ExportTyped
<1>3. CASE UNCHANGED build
  BY <1>3 DEF ExportTyped
<1>4. ASSUME NEW j \in Jobs, Start(j) PROVE ExportTyped'
  <2>1. build'.train = {} /\ build'.eval = {}
    BY <1>4 DEF Start
  <2> QED  BY <2>1, FS_EmptySet DEF ExportTyped
<1>5. CASE ReadTrain
  <2> DEFINE images == {k \in Pool : reason[k] # "random" /\ LabelOf(k) = 1}
  <2> DEFINE entry == [i \in images |-> [image |-> i, split |-> "train", labels |-> LabelOf(i)]]
  <2>1. build \in Run /\ build # Idle
    BY <1>5, UnderWay, IdleIs DEF ReadTrain, At, Typed, Stages
  <2>2. build'.train = {entry[i] : i \in images} /\ build'.eval = build.eval
    BY <1>5, <2>1 DEF ReadTrain, Run
  <2>3. images \in SUBSET Pool /\ DOMAIN entry = images
    OBVIOUS
  <2> HIDE DEF images, entry
  <2> QED  BY <2>1, <2>2, <2>3, EntriesFinite DEF ExportTyped
<1>6. CASE ReadRoster \/ ReadMarks
  <2>1. build \in Run /\ build # Idle
    BY <1>6, UnderWay, IdleIs DEF ReadRoster, ReadMarks, At, Typed, Stages
  <2>2. CASE ReadRoster
    BY <1>2, <2>1, <2>2 DEF ReadRoster, Run
  <2>3. CASE ReadMarks
    BY <1>2, <2>1, <2>3 DEF ReadMarks, Run
  <2> QED  BY <1>6, <2>2, <2>3
<1>7. CASE ReadTruth
  <2> DEFINE images == build.scored
  <2> DEFINE entry == [i \in images |-> [image |-> i, split |-> "eval", labels |-> TruthOn(i, build.roster)]]
  <2>1. build \in Run /\ build # Idle
    BY <1>7, UnderWay, IdleIs DEF ReadTruth, At, Typed, Stages
  <2>2. build'.eval = {entry[i] : i \in images} /\ build'.train = build.train
    BY <1>7, <2>1 DEF ReadTruth, Run
  <2>3. images \in SUBSET Pool /\ DOMAIN entry = images /\ build.roster \in SUBSET Classes
    BY <2>1 DEF Run
  <2>4. \A i \in images : TruthOn(i, build.roster) \in [build.roster -> 0 .. MaxBoxes]
    BY <2>3, GroundTruthAssumption DEF TruthOn, Typed, GroundTyped, Pairs, BoxesBounded
  <2>5. \A i \in images : entry[i] \in Entries
    BY <2>3, <2>4 DEF Entries
  <2> HIDE DEF images, entry
  <2>6. build'.eval \subseteq Entries
    BY <2>2, <2>5
  <2>7. IsFiniteSet(build'.eval)
    BY <2>2, <2>3, EntriesFinite
  <2> QED  BY <2>1, <2>2, <2>6, <2>7 DEF ExportTyped
<1>8. CASE CopyOne
  <2>1. build \in Run /\ build # Idle
    BY <1>8, UnderWay, IdleIs DEF CopyOne, At, Typed, Stages
  <2> QED  BY <1>2, <1>8, <2>1 DEF CopyOne, Run
<1>9. CASE PutManifest
  <2>1. build \in Run /\ build # Idle
    BY <1>9, UnderWay, IdleIs DEF PutManifest, At, Typed, Stages
  <2> QED  BY <1>2, <1>9, <2>1 DEF PutManifest, Goto, Run
<1> QED
  BY <1>1, <1>3, <1>4, <1>5, <1>6, <1>7, <1>8, <1>9
     DEF EvaluationNext, evaluation, work, Annotates, Reworks, Rules, Promoted, Builds,
         ReportSnapshot, BuildDies

\* What the bucket and the catalogue hold is what runs exported.
LEMMA BucketKeeps ==
  ASSUME ManifestInv, TypeInv, [EvaluationNext]_evaluation
  PROVE  /\ \A j \in Jobs : artifacts'[j].objects \subseteq Pool
                              /\ artifacts'[j].manifest.images \subseteq Entries
         /\ catalogue' \in Seq([job : Jobs, images : Nat])
<1>1. CASE UNCHANGED <<artifacts, catalogue>>
  BY <1>1 DEF TypeInv
<1>2. Typed /\ BucketTyped
  BY DEF ManifestInv
<1>3. CASE CopyOne
  <2>1. build \in Run
    BY <1>2, <1>3, UnderWay DEF CopyOne, At, Typed, Stages
  <2> DEFINE job == build.job
  <2>2. PICK i \in ImagesOf(Source) :
          artifacts' = [artifacts EXCEPT ![job].objects = artifacts[job].objects \cup {i}]
    BY <1>3 DEF CopyOne
  <2>3. i \in Pool /\ job \in Jobs
    BY <2>1 DEF ImagesOf, Source, Run, TrainEntry, EvalEntry
  <2> HIDE DEF job
  <2> DEFINE row == [objects |-> artifacts[job].objects \cup {i}, manifest |-> artifacts[job].manifest]
  <2>4. artifacts[job] = [objects |-> artifacts[job].objects, manifest |-> artifacts[job].manifest]
    BY <1>2, <2>3 DEF BucketTyped
  <2>5. [artifacts[job] EXCEPT !.objects = artifacts[job].objects \cup {i}] = row
    BY <2>4
  <2>6. row.objects = artifacts[job].objects \cup {i} /\ row.manifest = artifacts[job].manifest
    OBVIOUS
  <2> HIDE DEF row
  <2>7. artifacts' = [artifacts EXCEPT ![job] = row] /\ catalogue' = catalogue
    BY <1>3, <2>2, <2>5 DEF CopyOne
  <2>8. artifacts'[job] = row /\ \A j \in Jobs \ {job} : artifacts'[j] = artifacts[j]
    BY <1>2, <2>3, <2>7 DEF BucketTyped
  <2>9. row.objects \subseteq Pool /\ row.manifest.images \subseteq Entries
    BY <2>3, <2>6 DEF TypeInv
  <2> QED  BY <2>7, <2>8, <2>9 DEF TypeInv
<1>4. CASE PutManifest
  <2>1. build \in Run /\ build # Idle
    BY <1>2, <1>4, UnderWay, IdleIs DEF PutManifest, At, Typed, Stages
  <2> DEFINE job == build.job
  <2> DEFINE manifest == [images |-> Source, written |-> TRUE]
  <2>2. artifacts' = [artifacts EXCEPT ![job].manifest = manifest] /\ catalogue' = catalogue
    BY <1>4 DEF PutManifest
  <2>3. job \in Jobs
    BY <2>1 DEF Run
  <2>4. build.train \subseteq TrainEntry /\ build.eval \subseteq Entries
    BY <2>1 DEF Run, TypeInv, ExportTyped
  <2>5. TrainEntry \subseteq Entries
    BY DEF TrainEntry, Entries
  <2>6. manifest.images \subseteq Entries
    BY <2>4, <2>5 DEF Source
  <2> HIDE DEF job, manifest
  <2> DEFINE row == [objects |-> artifacts[job].objects, manifest |-> manifest]
  <2>7. artifacts[job] = [objects |-> artifacts[job].objects, manifest |-> artifacts[job].manifest]
    BY <1>2, <2>3 DEF BucketTyped
  <2>8. [artifacts[job] EXCEPT !.manifest = manifest] = row
    BY <2>7
  <2>9. row.objects = artifacts[job].objects /\ row.manifest = manifest
    OBVIOUS
  <2> HIDE DEF row
  <2>10. artifacts' = [artifacts EXCEPT ![job] = row]
    BY <2>2, <2>8
  <2>11. artifacts'[job] = row /\ \A j \in Jobs \ {job} : artifacts'[j] = artifacts[j]
    BY <1>2, <2>3, <2>10 DEF BucketTyped
  <2>12. row.objects \subseteq Pool /\ row.manifest.images \subseteq Entries
    BY <2>3, <2>6, <2>9 DEF TypeInv
  <2> QED  BY <2>2, <2>11, <2>12 DEF TypeInv
<1>5. CASE ReportSnapshot
  <2>1. build \in Run /\ build # Idle
    BY <1>2, <1>5, UnderWay, IdleIs DEF ReportSnapshot, At, Typed, Stages
  <2>2. IsFiniteSet(Source)
    BY <2>1, FS_Union DEF TypeInv, ExportTyped, Source
  <2>3. Cardinality(Source) \in Nat
    BY <2>2, FS_CardinalityType
  <2> DEFINE row == [job |-> build.job, images |-> Cardinality(Source)]
  <2>4. row \in [job : Jobs, images : Nat]
    BY <2>1, <2>3 DEF Run
  <2>5. catalogue' = Append(catalogue, row) /\ artifacts' = artifacts
    BY <1>5 DEF ReportSnapshot
  <2> HIDE DEF row
  <2>6. catalogue' \in Seq([job : Jobs, images : Nat])
    BY <2>4, <2>5 DEF TypeInv
  <2> QED  BY <2>5, <2>6 DEF TypeInv
<1> QED
  BY <1>1, <1>3, <1>4, <1>5
     DEF EvaluationNext, evaluation, work, Annotates, Reworks, Rules, Promoted, Builds, Start,
         ReadTrain, ReadRoster, ReadMarks, ReadTruth, BuildDies

LEMMA CountsKeep ==
  ASSUME trusted \in BOOLEAN, runs \in Nat, edits \in Nat, [EvaluationNext]_evaluation
  PROVE  trusted' \in BOOLEAN /\ runs' \in Nat /\ edits' \in Nat
<1>1. (trusted' = trusted \/ trusted' = TRUE) /\ (runs' = runs \/ runs' = runs + 1)
        /\ (edits' = edits \/ edits' = edits + 1)
  BY DEF EvaluationNext, evaluation, work, Annotates, Reworks, Rules, Promoted, Edits, Builds,
         Start, ReadTrain, ReadRoster, ReadMarks, ReadTruth, CopyOne, PutManifest,
         ReportSnapshot, BuildDies
<1>2. trusted' \in BOOLEAN
  BY <1>1
<1>3. runs' \in Nat /\ edits' \in Nat
  BY <1>1
<1> QED  BY <1>2, <1>3

LEMMA TypeBegins == EvaluationInit => TypeInv
<1> SUFFICES ASSUME EvaluationInit PROVE TypeInv
  OBVIOUS
<1>1. /\ build = Idle /\ catalogue = <<>> /\ trusted \in BOOLEAN /\ runs = 0 /\ edits = 0
      /\ \A j \in Jobs : artifacts[j].objects = {} /\ artifacts[j].manifest.images = {}
  BY DEF EvaluationInit, BuildInit, NoManifest
<1>2. marks = {} /\ \A p \in Pairs : truth[p] = 0
  BY DEF EvaluationInit, GroundInit
<1>3. BoxesBounded
  BY <1>2, GroundTruthAssumption DEF BoxesBounded
<1>4. catalogue \in Seq([job : Jobs, images : Nat])
  BY <1>1
<1> QED  BY <1>1, <1>2, <1>3, <1>4 DEF TypeInv, ExportTyped

LEMMA TypeKeeps == ManifestInv /\ TypeInv /\ [EvaluationNext]_evaluation => TypeInv'
<1> SUFFICES ASSUME ManifestInv, TypeInv, [EvaluationNext]_evaluation PROVE TypeInv'
  OBVIOUS
<1>1. BoxesBounded' /\ marks' \subseteq Pairs
  BY BoxesStayBounded DEF ManifestInv, TypeInv
<1>2. ExportTyped'
  BY ExportKeeps DEF ManifestInv, TypeInv
<1>3. trusted' \in BOOLEAN /\ runs' \in Nat /\ edits' \in Nat
  BY CountsKeep DEF TypeInv
<1> QED  BY <1>1, <1>2, <1>3, BucketKeeps DEF TypeInv

LEMMA TypesFollow == ManifestInv /\ SplitsInv /\ TypeInv => EvaluationTypeOK
<1> SUFFICES ASSUME ManifestInv, SplitsInv, TypeInv PROVE EvaluationTypeOK
  OBVIOUS
<1>1. GroundTypeOK
  BY DEF GroundTypeOK, ManifestInv, Typed, GroundTyped, TypeInv, SplitsInv, Stamps
<1>2. \A k \in DOMAIN log : log[k] \in [image : Pool, source : Sources, accepts : BOOLEAN]
  <2>1. \A k \in DOMAIN log : log[k] \in Verdict
    BY DEF SplitsInv
  <2> QED  BY <2>1 DEF Verdict
<1>3. build = Idle \/ build \in Building
  <2>1. CASE build # Idle
    <3>1. build \in Run /\ build.eval \subseteq Entries
      BY <2>1 DEF ManifestInv, Typed, RunTyped, TypeInv, ExportTyped
    <3>2. TrainEntry \subseteq Entries
      BY DEF TrainEntry, Entries
    <3>3. build.train \subseteq Entries
      BY <3>1, <3>2 DEF Run
    <3> QED  BY <3>1, <3>3 DEF Run, Building, Stages
  <2> QED  BY <2>1
<1> DEFINE Entered == [job : Jobs, images : Nat]
<1>4. catalogue \in Seq(Entered)
  BY DEF TypeInv
<1>5. \A k \in DOMAIN catalogue : catalogue[k] \in Entered
  <2> HIDE DEF Entered
  <2> QED  BY <1>4
<1> QED  BY <1>1, <1>2, <1>3, <1>5 DEF EvaluationTypeOK, TypeInv

\* Annotations, rulings, the run, the bucket and the catalogue keep their
\* types, and no frame's boxes are counted below none or beyond the bound.
THEOREM EvaluationTypeCorrect == EvaluationSpec => []EvaluationTypeOK
BY TypeBegins, TypeKeeps, TypesFollow, ManifestBegins, ManifestKeeps, SplitsBegin, SplitsKeep,
   PTL DEF EvaluationSpec

-----------------------------------------------------------------------------
(* Whose rulings count.                                                    *)

\* Of any rows of verdicts one is the latest.
LEMMA LatestOf ==
  ASSUME NEW n \in Nat, NEW rows \in SUBSET (1 .. n), rows # {}
  PROVE  \E k \in rows : \A m \in rows : k >= m
<1> DEFINE left == {n - k : k \in rows}
<1>1. \A k \in rows : k \in Nat /\ n - k \in Nat
  OBVIOUS
<1>2. left \in SUBSET Nat /\ left # {}
  BY <1>1
<1>3. \E x \in left : \A y \in left : ~ (<<y, x>> \in OpToRel(<, Nat))
  <2> HIDE DEF left
  <2> QED  BY <1>2, NatLessThanWellFounded, WFMin, Zenon
<1>4. PICK x \in left : \A y \in left : ~ (<<y, x>> \in OpToRel(<, Nat))
  BY <1>3
<1>5. \A y \in left : ~ (y < x)
  BY <1>2, <1>4 DEF OpToRel
<1>6. PICK k \in rows : x = n - k
  OBVIOUS
<1>7. \A m \in rows : ~ (n - m < n - k)
  BY <1>5, <1>6
<1> QED  BY <1>1, <1>7

\* The rulings that count include one that wins, if there are any.
LEMMA OneWins ==
  ASSUME log \in Seq(Verdict), NEW i, Weighty(i) # {}
  PROVE  \E k \in DOMAIN log : Wins(k, i)
<1> DEFINE admins == {k \in Weighty(i) : log[k].source = "admin"}
<1>1. Len(log) \in Nat /\ DOMAIN log = 1 .. Len(log)
  OBVIOUS
<1>2. Weighty(i) \subseteq DOMAIN log
  BY DEF Weighty
<1>3. CASE admins # {}
  <2>1. PICK k \in admins : \A m \in admins : k >= m
    BY <1>1, <1>2, <1>3, LatestOf
  <2>2. Rank(k) = 0 /\ \A m \in Weighty(i) : m \in admins \/ Rank(m) = 1
    BY <2>1 DEF Rank
  <2>3. \A m \in admins : Rank(m) = 0
    BY DEF Rank
  <2>4. \A m \in Weighty(i) : Rank(k) < Rank(m) \/ (Rank(k) = Rank(m) /\ k >= m)
    BY <2>1, <2>2, <2>3
  <2> QED  BY <1>2, <2>1, <2>4 DEF Wins
<1>4. CASE admins = {}
  <2>1. PICK k \in Weighty(i) : \A m \in Weighty(i) : k >= m
    BY <1>1, <1>2, LatestOf
  <2>2. \A m \in Weighty(i) : Rank(m) = 1
    BY <1>4 DEF Rank
  <2> QED  BY <1>2, <2>1, <2>2 DEF Wins
<1> QED  BY <1>3, <1>4

\* A box has a verdict that decides exactly when no contributor is asked about
\* it any more: the exporter's query and the pool's, each with its own words
\* for whose ruling counts, never disagree.
THEOREM SettledHasWinner == EvaluationSpec => []SettledIffWon
<1>1. log \in Seq(Verdict) => SettledIffWon
  <2> SUFFICES ASSUME log \in Seq(Verdict), NEW i \in Pool
               PROVE  SettledBox(i) <=> \E k \in DOMAIN log : Wins(k, i)
    BY DEF SettledIffWon
  <2>1. SettledBox(i) <=> Weighty(i) # {}
    BY DEF SettledBox, Weighty
  <2>2. (\E k \in DOMAIN log : Wins(k, i)) => Weighty(i) # {}
    BY DEF Wins
  <2> QED  BY <2>1, <2>2, OneWins
<1>2. SplitsInv => SettledIffWon
  BY <1>1 DEF SplitsInv
<1> QED  BY <1>2, SplitsBegin, SplitsKeep, PTL DEF EvaluationSpec

-----------------------------------------------------------------------------
(* THE WALK THROUGH THE POOL.                                              *)

\* The inductive invariant: the page at hand is of the batch that was let go
\* only while the next one is on its way, or once a fetch has failed.
PageKnown ==
  /\ AdoptsFresh
  /\ poolFetch.at = "answered" => poolFetch.answer.fresh
  /\ page.there /\ ~page.fresh /\ ~failed => poolFetch # NotFetching

-----------------------------------------------------------------------------

\* What a step does to the walk: nothing to the batch under it, unless the
\* batch is let go, or there is none and a page is adopted.
LEMMA BatchSteps ==
  ASSUME SittingNext
  PROVE  \/ batch' = batch
         \/ batch' = Adopted(batch, page, TRUE)
         \/ PoolArrives \/ PoolFails \/ LoadNextBatch
BY DEF SittingNext, SecondAnnotator, sitting, AskPool, ServePool, Previous, NextFrame,
       AnnotationArrives, Draw, Delete, Mark, Write, ServeWrite, WriteHeard, WriteFails

\* While a page is fetched none is adopted.
LEMMA FetchingAdoptsNone == \A walked, data : Adopted(walked, data, TRUE) = walked
BY DEF Adopted

\* What is walked stays what is walked.
LEMMA WalkedStays ==
  \A walked, data, fetching : walked.there => Adopted(walked, data, fetching) = walked
BY DEF Adopted

\* A frame changes only when its batch is let go.
THEOREM FrameStays == SittingSpec => HeldStill
<1>1. ASSUME SittingNext, batch.there, batch'.there PROVE batch' = batch
  <2>1. CASE LoadNextBatch
    <3>1. batch' = NoWorklist
      BY <2>1, FetchingAdoptsNone DEF LoadNextBatch
    <3>2. ~NoWorklist.there
      BY DEF NoWorklist
    <3> QED  BY <1>1, <3>1, <3>2
  <2>2. CASE PoolArrives
    BY <1>1, <2>2, WalkedStays DEF PoolArrives
  <2>3. CASE PoolFails
    BY <1>1, <2>3, WalkedStays DEF PoolFails
  <2> QED  BY <1>1, <2>1, <2>2, <2>3, BatchSteps, FetchingAdoptsNone
<1>2. [SittingNext]_walkVars =>
        [batch.there /\ batch'.there /\ place' = place => batch' = batch]_walkVars
  BY <1>1
<1> QED  BY <1>2, PTL DEF SittingSpec, HeldStill

-----------------------------------------------------------------------------

LEMMA PageBegins == SittingInit => PageKnown
BY DEF SittingInit, ScreenInit, PageKnown, AdoptsFresh, NoWorklist, NotFetching

LEMMA PageKeeps == PageKnown /\ [SittingNext]_walkVars => PageKnown'
<1> SUFFICES ASSUME PageKnown, [SittingNext]_walkVars PROVE PageKnown'
  OBVIOUS
<1>1. CASE UNCHANGED <<page, poolFetch, batch, failed>>
  BY <1>1 DEF PageKnown, AdoptsFresh
<1>2. ASSUME poolFetch' = Asked, batch' = batch, UNCHANGED <<page, failed>> PROVE PageKnown'
  <2>1. Asked.at = "asked" /\ Asked # NotFetching
    BY DEF Asked, NotFetching
  <2> QED  BY <1>2, <2>1 DEF PageKnown, AdoptsFresh
<1>3. CASE AskPool \/ \E k \in DOMAIN writes : WriteHeard(k)
  BY <1>2, <1>3, FetchingAdoptsNone DEF AskPool, WriteHeard
<1>4. CASE ServePool
  <2>1. poolFetch'.at = "answered" /\ poolFetch'.answer.fresh /\ poolFetch' # NotFetching
    BY <1>4 DEF ServePool, NotFetching
  <2>2. UNCHANGED <<page, batch, failed>>
    BY <1>4 DEF ServePool
  <2> QED  BY <2>1, <2>2 DEF PageKnown, AdoptsFresh
<1>5. CASE PoolArrives
  <2>1. page'.fresh /\ failed' = failed
    BY <1>5 DEF PoolArrives, PageKnown
  <2>2. poolFetch'.at # "answered"
    BY <1>5 DEF PoolArrives, NotFetching
  <2>3. batch' = batch \/ batch' = page'
    BY <1>5 DEF PoolArrives, Adopted
  <2> QED  BY <2>1, <2>2, <2>3 DEF PageKnown, AdoptsFresh
<1>6. CASE PoolFails
  <2>1. failed' /\ poolFetch'.at # "answered"
    BY <1>6 DEF PoolFails, NotFetching
  <2> QED  BY <2>1 DEF PageKnown, AdoptsFresh
<1>7. CASE LoadNextBatch
  <2>1. batch' = NoWorklist /\ ~NoWorklist.there
    BY <1>7, FetchingAdoptsNone DEF LoadNextBatch, NoWorklist
  <2>2. poolFetch'.at # "answered" /\ poolFetch' # NotFetching
    BY <1>7 DEF LoadNextBatch, Asked, NotFetching
  <2> QED  BY <2>1, <2>2 DEF PageKnown, AdoptsFresh
<1> QED
  BY <1>1, <1>3, <1>4, <1>5, <1>6, <1>7
     DEF SittingNext, walkVars, SecondAnnotator, sitting, Previous, NextFrame,
         AnnotationArrives, Draw, Delete, Mark, Write, ServeWrite, WriteFails

\* A batch that was let go is walked again only after a fetch has failed.
THEOREM BatchIsFresh == SittingSpec => []AdoptsFresh
<1>1. PageKnown => AdoptsFresh
  BY DEF PageKnown
<1> QED  BY <1>1, PageBegins, PageKeeps, PTL DEF SittingSpec

-----------------------------------------------------------------------------
(* Marks and boxes.                                                        *)

\* Writes in flight, on whichever images.
WritesOn(images) ==
  [op : Kinds, image : images, class : Classes, on : BOOLEAN, watched : BOOLEAN, served : BOOLEAN]

\* The inductive invariant: no write that was sent before a mark is watched.
MarkInv == (\E images : writes \in Seq(WritesOn(images))) /\ MarkFollowsBoxes

\* What RemoveAt leaves, and where.
LEMMA Removed ==
  ASSUME NEW T, NEW s \in Seq(T), NEW k \in DOMAIN s
  PROVE  /\ RemoveAt(s, k) \in Seq(T) /\ Len(RemoveAt(s, k)) = Len(s) - 1
         /\ \A j \in 1 .. Len(s) - 1 :
              RemoveAt(s, k)[j] = s[IF j < k THEN j ELSE j + 1]
<1> DEFINE head == SubSeq(s, 1, k - 1)
<1> DEFINE tail == SubSeq(s, k + 1, Len(s))
<1>1. k \in 1 .. Len(s) /\ Len(s) \in Nat
  OBVIOUS
<1>2. head \in Seq(T) /\ Len(head) = k - 1 /\ \A j \in 1 .. k - 1 : head[j] = s[j]
  BY <1>1
<1>3. tail \in Seq(T) /\ Len(tail) = Len(s) - k
        /\ \A j \in 1 .. Len(s) - k : tail[j] = s[k + j]
  BY <1>1
<1>4. RemoveAt(s, k) = head \o tail
  BY DEF RemoveAt
<1> HIDE DEF head, tail
<1>5. /\ head \o tail \in Seq(T) /\ Len(head \o tail) = Len(s) - 1
      /\ \A j \in 1 .. Len(s) - 1 :
           (head \o tail)[j] = IF j < k THEN head[j] ELSE tail[j - (k - 1)]
  <2>1. /\ head \o tail \in Seq(T) /\ Len(head \o tail) = Len(head) + Len(tail)
        /\ \A j \in 1 .. Len(head) + Len(tail) :
             (head \o tail)[j] = IF j <= Len(head) THEN head[j] ELSE tail[j - Len(head)]
    BY <1>2, <1>3, ConcatProperties
  <2>2. Len(head) + Len(tail) = Len(s) - 1
    BY <1>1, <1>2, <1>3
  <2>3. \A j \in 1 .. Len(s) - 1 : j <= k - 1 <=> j < k
    BY <1>1
  <2> QED  BY <1>2, <2>1, <2>2, <2>3
<1>6. ASSUME NEW j \in 1 .. Len(s) - 1
      PROVE  (head \o tail)[j] = s[IF j < k THEN j ELSE j + 1]
  <2>1. CASE j < k
    BY <1>1, <1>2, <1>5, <1>6, <2>1
  <2>2. CASE ~(j < k)
    <3>1. j - (k - 1) \in 1 .. Len(s) - k /\ k + (j - (k - 1)) = j + 1
      BY <1>1, <1>6, <2>2
    <3> QED  BY <1>3, <1>5, <1>6, <2>2, <3>1
  <2> QED  BY <2>1, <2>2
<1> QED  BY <1>4, <1>5, <1>6

\* One write fewer.
LEMMA RemovalKeeps ==
  ASSUME MarkInv, NEW k \in DOMAIN writes, writes' = RemoveAt(writes, k)
  PROVE  MarkInv'
<1>1. PICK images : writes \in Seq(WritesOn(images))
  BY DEF MarkInv
<1>2. /\ writes' \in Seq(WritesOn(images)) /\ Len(writes') = Len(writes) - 1
      /\ \A j \in 1 .. Len(writes) - 1 : writes'[j] = writes[IF j < k THEN j ELSE j + 1]
  BY <1>1, Removed
<1>3. MarkFollowsBoxes'
  <2> SUFFICES ASSUME NEW i \in DOMAIN writes', NEW m \in DOMAIN writes',
                      i < m, writes'[m].op = "mark"
               PROVE  ~writes'[i].watched
    BY DEF MarkFollowsBoxes
  <2> DEFINE From(j) == IF j < k THEN j ELSE j + 1
  <2>1. i \in 1 .. Len(writes) - 1 /\ m \in 1 .. Len(writes) - 1 /\ Len(writes) \in Nat
          /\ k \in 1 .. Len(writes)
    BY <1>1, <1>2
  <2>2. From(i) \in DOMAIN writes /\ From(m) \in DOMAIN writes /\ From(i) < From(m)
    BY <1>1, <2>1
  <2>3. writes'[i] = writes[From(i)] /\ writes'[m] = writes[From(m)]
    BY <1>2, <2>1
  <2> HIDE DEF From
  <2> QED  BY <2>2, <2>3 DEF MarkInv, MarkFollowsBoxes
<1> QED  BY <1>2, <1>3 DEF MarkInv

\* One write more: a mark is sent only when none is watched.
LEMMA WriteKeeps ==
  ASSUME MarkInv, NEW op \in Kinds, NEW c \in Classes, NEW on \in BOOLEAN,
         Write(op, c, on), op = "mark" => ~Busy
  PROVE  MarkInv'
<1> DEFINE sent == [op |-> op, image |-> Frame, class |-> c, on |-> on,
                    watched |-> TRUE, served |-> FALSE]
<1> DEFINE Now(w) == IF w.op = op THEN [w EXCEPT !.watched = FALSE] ELSE w
<1> DEFINE before == [k \in DOMAIN writes |-> Now(writes[k])]
<1>1. PICK images : writes \in Seq(WritesOn(images))
  BY DEF MarkInv
<1> DEFINE wider == images \cup {Frame}
<1>2. writes' = Append(before, sent)
  BY DEF Write
<1>3. sent \in WritesOn(wider) /\ sent.op = op
  BY DEF WritesOn
<1>4. \A k \in DOMAIN writes : writes[k] \in WritesOn(wider)
  <2>1. \A k \in DOMAIN writes : writes[k] \in WritesOn(images)
    BY <1>1
  <2> QED  BY <2>1 DEF WritesOn
<1>5. ASSUME NEW k \in DOMAIN writes
      PROVE  /\ before[k] \in WritesOn(wider) /\ before[k].op = writes[k].op
             /\ before[k].watched => writes[k].watched
  BY <1>4, <1>5 DEF WritesOn
<1>6. Len(writes) \in Nat /\ DOMAIN writes = 1 .. Len(writes) /\ DOMAIN before = 1 .. Len(writes)
  BY <1>1
<1> HIDE DEF before, sent, wider
<1>7. before \in Seq(WritesOn(wider)) /\ Len(before) = Len(writes)
  <2>1. before \in [1 .. Len(writes) -> WritesOn(wider)]
    BY <1>5, <1>6 DEF before
  <2> QED  BY <1>6, <2>1
<1>8. /\ writes' \in Seq(WritesOn(wider)) /\ DOMAIN writes' = 1 .. Len(writes) + 1
      /\ writes'[Len(writes) + 1] = sent /\ \A k \in DOMAIN writes : writes'[k] = before[k]
  BY <1>2, <1>3, <1>6, <1>7
<1>9. MarkFollowsBoxes'
  <2> SUFFICES ASSUME NEW k \in DOMAIN writes', NEW m \in DOMAIN writes',
                      k < m, writes'[m].op = "mark"
               PROVE  ~writes'[k].watched
    BY DEF MarkFollowsBoxes
  <2>1. k \in DOMAIN writes
    BY <1>6, <1>8
  <2>2. CASE m \in DOMAIN writes
    BY <1>5, <1>8, <2>1, <2>2 DEF MarkInv, MarkFollowsBoxes
  <2>3. CASE m = Len(writes) + 1
    <3>1. ~writes[k].watched
      BY <1>3, <1>8, <2>1, <2>3 DEF Busy
    <3> QED  BY <1>5, <1>8, <2>1, <3>1
  <2> QED  BY <1>6, <1>8, <2>2, <2>3
<1> QED  BY <1>8, <1>9 DEF MarkInv

\* A frame is marked as examined over no box that is still on its way to or
\* from it, but a draw that a later draw has hidden from `busy`.
THEOREM MarksFollowBoxes == SittingSpec => []MarkFollowsBoxes
<1>1. SittingInit => MarkInv
  <2>1. SittingInit => writes = <<>>
    BY DEF SittingInit, ScreenInit
  <2>2. writes = <<>> => writes \in Seq(WritesOn({}))
    OBVIOUS
  <2> QED  BY <2>1, <2>2 DEF MarkInv, MarkFollowsBoxes
<1>2. MarkInv /\ [SittingNext]_walkVars => MarkInv'
  <2> SUFFICES ASSUME MarkInv, [SittingNext]_walkVars PROVE MarkInv'
    OBVIOUS
  <2>1. CASE writes' = writes
    BY <2>1 DEF MarkInv, MarkFollowsBoxes
  <2>2. ASSUME NEW c \in Classes, Draw(c) \/ Delete(c) \/ Mark(c) PROVE MarkInv'
    <3>1. CASE Draw(c)
      BY <3>1, WriteKeeps DEF Draw, Kinds
    <3>2. CASE Delete(c)
      BY <3>2, WriteKeeps DEF Delete, Kinds
    <3>3. CASE Mark(c)
      <4>1. (c \notin loaded.marked) \in BOOLEAN
        OBVIOUS
      <4> QED  BY <3>3, <4>1, WriteKeeps DEF Mark, Kinds
    <3> QED  BY <2>2, <3>1, <3>2, <3>3
  <2>3. ASSUME NEW k \in DOMAIN writes, ServeWrite(k) PROVE MarkInv'
    <3>1. PICK images : writes \in Seq(WritesOn(images))
      BY DEF MarkInv
    <3>2. writes' = [writes EXCEPT ![k].served = TRUE]
      BY <2>3 DEF ServeWrite
    <3>3. writes[k] \in WritesOn(images)
      BY <3>1
    <3>4. [writes[k] EXCEPT !.served = TRUE] \in WritesOn(images)
            /\ [writes[k] EXCEPT !.served = TRUE].op = writes[k].op
            /\ [writes[k] EXCEPT !.served = TRUE].watched = writes[k].watched
      BY <3>3 DEF WritesOn
    <3>5. writes' = [writes EXCEPT ![k] = [writes[k] EXCEPT !.served = TRUE]]
      BY <3>2
    <3>6. writes' \in Seq(WritesOn(images))
      BY <3>1, <3>4, <3>5
    <3>7. DOMAIN writes' = DOMAIN writes /\ \A j \in DOMAIN writes :
            writes'[j].op = writes[j].op /\ writes'[j].watched = writes[j].watched
      BY <3>4, <3>5
    <3> QED  BY <3>6, <3>7 DEF MarkInv, MarkFollowsBoxes
  <2>4. ASSUME NEW k \in DOMAIN writes, WriteHeard(k) \/ WriteFails(k) PROVE MarkInv'
    BY <2>4, RemovalKeeps DEF WriteHeard, WriteFails
  <2> QED
    BY <2>1, <2>2, <2>3, <2>4
       DEF SittingNext, walkVars, sitting, SecondAnnotator, AskPool, ServePool, PoolArrives,
           PoolFails, Previous, NextFrame, LoadNextBatch, AnnotationArrives
<1>3. MarkInv => MarkFollowsBoxes
  BY DEF MarkInv
<1> QED  BY <1>1, <1>2, <1>3, PTL DEF SittingSpec
=============================================================================
