------------------------------ MODULE MCDataset ------------------------------
(* Small instances of what makes and uses the frames and their labels, side *)
(* by side: the box's disk and its jobs, the cutting and the sampling of    *)
(* frames, the grid they are shown in, a ground-truth sitting, the building *)
(* of a snapshot, and the scoring of a run against one.  `part` says which  *)
(* one runs; the others stay as they began.                                 *)
EXTENDS SourceStore, Sampling, PromptVersions, GroundTruthWalk, Evaluation, Scoring,
        FrameGrid

VARIABLE part

walk_vars == sitting
build_vars == <<log, trusted, build, artifacts, catalogue, runs, edits, examined>>
dataset_vars ==
  <<part, store, sampling, roster_vars, scoring, ground, walk_vars, build_vars, frame_grid>>

DatasetInit ==
  /\ part \in {"disk", "sampling", "classes", "sitting", "snapshot", "scoring", "grid"}
  /\ StoreInit /\ PromptInit /\ ScreenInit /\ BuildInit /\ GridInit
  /\ IF part = "snapshot" THEN GroundInit ELSE Prepared /\ ~trusted
  /\ IF part = "sampling" THEN SamplingInit ELSE sampling = [kind |-> "cut", duration |-> 1]
  /\ IF part = "scoring" THEN ScoringInit
       ELSE scoring = [detections |-> <<>>, truth |-> <<>>]

DatasetNext ==
  /\ UNCHANGED part
  /\ \/ /\ part = "disk" /\ StoreNext
        /\ UNCHANGED <<sampling, roster_vars, scoring, ground, walk_vars, build_vars, frame_grid>>
     \/ /\ part = "sampling" /\ SamplingNext
        /\ UNCHANGED <<store, roster_vars, scoring, ground, walk_vars, build_vars, frame_grid>>
     \/ /\ part = "classes" /\ PromptNext
        /\ UNCHANGED <<store, sampling, scoring, ground, walk_vars, build_vars, frame_grid>>
     \/ /\ part = "sitting" /\ SittingNext
        /\ UNCHANGED <<store, sampling, roster_vars, scoring, build_vars, frame_grid>>
     \/ /\ part = "snapshot" /\ EvaluationNext
        /\ UNCHANGED <<store, sampling, roster_vars, scoring, walk_vars, frame_grid>>
     \/ /\ part = "scoring" /\ ScoringNext
        /\ UNCHANGED <<store, sampling, roster_vars, ground, walk_vars, build_vars, frame_grid>>
     \/ /\ part = "grid" /\ GridNext
        /\ UNCHANGED <<store, sampling, roster_vars, scoring, ground, walk_vars, build_vars>>

DatasetSpec == DatasetInit /\ [][DatasetNext]_dataset_vars

\* Type correctness of each.
DatasetTypeOK ==
  StoreTypeOK /\ PromptTypeOK /\ SittingTypeOK /\ EvaluationTypeOK /\ GridTypeOK
=============================================================================
