------------------------------ MODULE Evaluation ------------------------------
(***************************************************************************)
(* What a scorer and a training script are given: the snapshot job reads   *)
(* the dataset in four batches with nothing held between them, the worker  *)
(* copies every image under the job's prefix, writes the manifest and      *)
(* reports it, and may die anywhere and start over under the same prefix.  *)
(* Annotators, contributors and the detector go on writing meanwhile.      *)
(*                                                                         *)
(* Each image has one prediction, so a verdict names an image.  A label is *)
(* told apart only by its class, so labels are counted.  The scorer's      *)
(* eval-source makes the reads of the snapshot's second half, adds the     *)
(* predictions, and writes nothing.                                        *)
(***************************************************************************)
EXTENDS GroundTruth, SequencesExt

CONSTANTS
  Jobs,          (* snapshot jobs                                           *)
  MaxRuns,       (* bound: the runs of all the jobs                         *)
  MaxEdits       (* bound: what everybody else writes                       *)

VARIABLES
  log,        (* the table verdicts, in the order of their ids              *)
  trusted,    (* users.trusted of the one contributor                       *)
  build,      (* the worker's run, or Idle                                  *)
  artifacts,  (* the bucket under snapshots/: objects and manifests, by job *)
  catalogue,  (* the table snapshots                                        *)
  runs,       (* how many runs there have been                              *)
  edits,      (* and how many writes of everybody else                      *)
  examined    (* history: <<image, classes, labels>>, each marked in full   *)
              (* at some instant since this run began to read               *)

evaluation == <<ground, log, trusted, build, artifacts, catalogue, runs, edits, examined>>
work == <<build, artifacts, catalogue, runs>>

Sources == {"admin", "user", "anon"}
NoManifest == [images |-> {}, written |-> FALSE]
Idle == [at |-> "idle"]
At(step) == build.at = step
Goto(step) == build' = [build EXCEPT !.at = step]

-----------------------------------------------------------------------------
(* The verdict that decides.                                               *)

\* Mistake: the latest of all that count, an administrator's or not.
RankIgnored(k) == 0

Rank(k) == IF log[k].source = "admin" THEN 0 ELSE 1

\* The rows of verdicts that count for an image.
Weighty(i) ==
  {k \in DOMAIN log :
     /\ log[k].image = i
     /\ log[k].source = "admin" \/ (log[k].source = "user" /\ trusted)}

\* WINNING_VERDICT: by rank, and within a rank the latest.
Wins(k, i) ==
  /\ k \in Weighty(i)
  /\ \A m \in Weighty(i) : Rank(k) < Rank(m) \/ (Rank(k) = Rank(m) /\ k >= m)

\* The label of an image's box: 1 when it is accepted, else none.
LabelOf(i) == IF \E k \in DOMAIN log : Wins(k, i) /\ log[k].accepts THEN 1 ELSE 0

\* CONTRIBUTOR_UNRULED_BOX of contribute.ts, negated.
SettledBox(i) ==
  \/ \E k \in DOMAIN log : log[k].image = i /\ log[k].source = "admin"
  \/ \E k \in DOMAIN log : log[k].image = i /\ log[k].source = "user" /\ trusted

\* splitFor, and the train half's WHERE.
SplitFor(why) == IF why = "random" THEN "eval" ELSE "train"

-----------------------------------------------------------------------------
(* Everybody else.                                                         *)

\* What the annotators have vouched for: a frame, marked for all of a roster,
\* with the boxes it had at the time.
TruthOn(i, classes) == [c \in classes |-> truth[<<i, c>>]]
Vouched ==
  {<<p[1], p[2], TruthOn(p[1], p[2])>> : p \in
     {q \in Pool \X ((SUBSET Classes) \ {{}}) : \A c \in q[2] : <<q[1], c>> \in marks}}
Reading == build # Idle /\ build.at \in {"train", "roster", "marks", "truth"}

Edits == edits < MaxEdits /\ edits' = edits + 1

Annotates ==
  /\ Edits
  /\ \E i \in Pool, c \in Classes :
       \/ DrawBox(i, c) \/ DeleteBox(i, c)
       \/ \E exhaustive \in BOOLEAN : SetExhaustive(i, c, exhaustive)
  /\ examined' = IF Reading THEN examined \cup Vouched' ELSE examined
  /\ UNCHANGED <<log, trusted, work>>

Reworks ==
  /\ Edits
  /\ \/ \E c \in Classes : SetActive(c)
     \/ \E i \in Pool, why \in {"random", "manual"} : StampReason(i, why)
  /\ UNCHANGED <<log, trusted, work, examined>>

\* Predictions come with a stamp, so an image ruled on has one.
Rules ==
  /\ Edits
  /\ \E i \in Pool, source \in Sources, accepts \in BOOLEAN :
       /\ reason[i] # "none"
       /\ log' = Append(log, [image |-> i, source |-> source, accepts |-> accepts])
  /\ UNCHANGED <<ground, trusted, work, examined>>

Promoted ==
  /\ Edits
  /\ ~trusted /\ trusted' = TRUE
  /\ UNCHANGED <<ground, log, work, examined>>

-----------------------------------------------------------------------------
(* snapshotSource, batch by batch.                                         *)

Start(j) ==
  /\ build = Idle /\ runs < MaxRuns /\ runs' = runs + 1
  /\ examined' = Vouched
  /\ build' = [at |-> "train", job |-> j, train |-> {}, roster |-> {}, frozen |-> {},
               scored |-> {}, eval |-> {}, copied |-> {}]
  /\ UNCHANGED <<ground, log, trusted, artifacts, catalogue, edits>>

\* The images of the train half and their labels: one batch, one transaction.
ReadTrain ==
  /\ At("train")
  /\ build' = [build EXCEPT !.at = "roster", !.train =
       {[image |-> i, split |-> "train", labels |-> LabelOf(i)] :
          i \in {k \in Pool : reason[k] # "random" /\ LabelOf(k) = 1}}]
  /\ UNCHANGED <<ground, log, trusted, artifacts, catalogue, runs, edits, examined>>

ReadRoster ==
  /\ At("roster")
  /\ build' = [build EXCEPT !.at = "marks", !.roster = active, !.frozen = Frozen]
  /\ UNCHANGED <<ground, log, trusted, artifacts, catalogue, runs, edits, examined>>

ReadMarks ==
  /\ At("marks")
  /\ build' = [build EXCEPT !.at = "truth",
                            !.scored = Covered(build.frozen, build.roster, marks)]
  /\ UNCHANGED <<ground, log, trusted, artifacts, catalogue, runs, edits, examined>>

\* What identifies an image never changes, so the one batch that matters of
\* the two that run side by side is the boxes'.
ReadTruth ==
  /\ At("truth")
  /\ build' = [build EXCEPT !.at = "copy", !.eval =
       {[image |-> i, split |-> "eval", labels |-> TruthOn(i, build.roster)] :
          i \in build.scored}]
  /\ UNCHANGED <<ground, log, trusted, artifacts, catalogue, runs, edits, examined>>

-----------------------------------------------------------------------------
(* Builder.Build, and the report.                                          *)

Source == build.train \cup build.eval
ImagesOf(entries) == {e.image : e \in entries}

\* A split that disagrees with the worker's own rule would fail the build.
Agrees(entry) == entry.split = SplitFor(reason[entry.image])

CopyOne ==
  /\ At("copy")
  /\ \E i \in ImagesOf(Source) \ build.copied :
       /\ artifacts' = [artifacts EXCEPT ![build.job].objects = @ \cup {i}]
       /\ build' = [build EXCEPT !.copied = @ \cup {i}]
  /\ UNCHANGED <<ground, log, trusted, catalogue, runs, edits, examined>>

\* Mistake: the manifest goes up while the copies are still under way.
CopiesDoneEarly == TRUE

CopiesDone == build.copied = ImagesOf(Source)

PutManifest ==
  /\ At("copy") /\ CopiesDone
  /\ artifacts' = [artifacts EXCEPT ![build.job].manifest =
                     [images |-> Source, written |-> TRUE]]
  /\ Goto("report")
  /\ UNCHANGED <<ground, log, trusted, catalogue, runs, edits, examined>>

ReportSnapshot ==
  /\ At("report")
  /\ catalogue' = Append(catalogue, [job |-> build.job,
                                     images |-> Cardinality(Source)])
  /\ build' = Idle /\ examined' = {}
  /\ UNCHANGED <<ground, log, trusted, artifacts, runs, edits>>

\* The process dies, a copy fails, or the lease is gone: a later run starts
\* over, and what the bucket holds stays.
BuildDies ==
  /\ build # Idle
  /\ build' = Idle /\ examined' = {}
  /\ UNCHANGED <<ground, log, trusted, artifacts, catalogue, runs, edits>>

-----------------------------------------------------------------------------

\* The contributor may have been promoted for rulings elsewhere.
BuildInit ==
  /\ log = <<>> /\ trusted \in BOOLEAN
  /\ build = Idle /\ runs = 0 /\ edits = 0
  /\ artifacts = [j \in Jobs |-> [objects |-> {}, manifest |-> NoManifest]]
  /\ catalogue = <<>> /\ examined = {}

EvaluationInit == GroundInit /\ BuildInit

Builds ==
  \/ \E j \in Jobs : Start(j)
  \/ ReadTrain \/ ReadRoster \/ ReadMarks \/ ReadTruth
  \/ CopyOne \/ PutManifest \/ ReportSnapshot \/ BuildDies

EvaluationNext == Annotates \/ Reworks \/ Rules \/ Promoted \/ Builds

EvaluationSpec == EvaluationInit /\ [][EvaluationNext]_evaluation

-----------------------------------------------------------------------------
(* Properties.                                                             *)

Entries ==
  [image : Pool, split : {"train"}, labels : {0, 1}]
    \cup {[image |-> i, split |-> "eval", labels |-> ls] :
            i \in Pool, ls \in UNION {[cs -> 0 .. MaxBoxes] : cs \in SUBSET Classes}}

Building ==
  [at : {"train", "roster", "marks", "truth", "copy", "report"}, job : Jobs,
   train : SUBSET Entries, roster : SUBSET Classes, frozen : SUBSET Pool,
   scored : SUBSET Pool, eval : SUBSET Entries, copied : SUBSET Pool]

\* Type correctness.
EvaluationTypeOK ==
  /\ GroundTypeOK
  /\ \A k \in DOMAIN log :
       log[k] \in [image : Pool, source : Sources, accepts : BOOLEAN]
  /\ trusted \in BOOLEAN /\ runs \in Nat /\ edits \in Nat
  /\ build = Idle \/ build \in Building
  /\ \A j \in Jobs : artifacts[j].objects \subseteq Pool
                       /\ artifacts[j].manifest.images \subseteq Entries
  /\ \A k \in DOMAIN catalogue : catalogue[k] \in [job : Jobs, images : Nat]

\* An image is exported in one split only, and in the split its stamp says,
\* though the two halves are read at different times and the detector stamps
\* images between them: nothing evaluated on was trained on, and the worker's
\* second opinion never fails a build.
SplitsHold ==
  \A e, f \in IF build = Idle THEN {} ELSE Source :
    Agrees(e) /\ (e.image = f.image => e = f)

\* A frame is scored only if at some instant it was marked as examined for
\* each class of the roster it is scored against, whatever was activated,
\* retired, marked or retracted between the reads; an empty roster, which
\* every frame satisfies, scores none.
ScoredWasExamined ==
  \A e \in IF build = Idle THEN {} ELSE build.eval :
    \E x \in examined : x[1] = e.image /\ x[2] = build.roster

\* jobs.ts: an eval image's labels are empty "only because `scoredImageIds`
\* already excludes every image that was not examined for every active
\* class": at some instant it was marked in full with no box on it.
NegativesAreVouched ==
  \A e \in IF build = Idle THEN {} ELSE build.eval :
    (\A c \in build.roster : e.labels[c] = 0)
      => <<e.image, build.roster, e.labels>> \in examined

\* A manifest in the bucket names only objects that are there, and a snapshot
\* that is listed has one: through runs that die half-copied and start over
\* with other images under the same prefix.
ManifestIsWhole ==
  /\ \A j \in Jobs : ImagesOf(artifacts[j].manifest.images) \subseteq artifacts[j].objects
  /\ \A k \in DOMAIN catalogue : artifacts[catalogue[k].job].manifest.written

\* A box has a deciding verdict exactly when it has left the contributors'
\* pool: the two queries, written apart, agree on whose rulings count.
SettledIffWon == \A i \in Pool : SettledBox(i) <=> \E k \in DOMAIN log : Wins(k, i)

\* Once an administrator has ruled, no contributor, visitor or promotion
\* changes the label: only an administrator's later ruling does.
AdminLabelStands ==
  [][\A i \in Pool :
       (\E k \in DOMAIN log : log[k].image = i /\ log[k].source = "admin")
         /\ LabelOf(i)' # LabelOf(i)
       => Last(log').source = "admin" /\ Last(log').image = i]_evaluation
=============================================================================
