----------------------------- MODULE GroundTruth -----------------------------
(***************************************************************************)
(* The frozen evaluation pool and what administrators know of it: the      *)
(* tables ground_truth and ground_truth_exhaustive, with the columns of    *)
(* classes and images they are read against.  The screen that fills them   *)
(* is GroundTruthWalk's, the readers that score and export them are        *)
(* Evaluation's.                                                           *)
(*                                                                         *)
(* An image stands for its place in the worklist: the handler orders by    *)
(* id * 2654435761 modulo the prime 2147483647, which gives no two ids     *)
(* below the prime the same place.  Boxes of one class on one image are    *)
(* told apart by nothing that is read, so they are counted.                *)
(***************************************************************************)
EXTENDS Integers, FiniteSetsExt

CONSTANTS
  Pool,          (* the images, by their place in the worklist              *)
  Classes,
  MaxBoxes       (* bound: the boxes of one class drawn on one image        *)

ASSUME GroundTruthAssumption ==
  /\ IsFiniteSet(Pool) /\ Pool \subseteq Nat \ {0}
  /\ IsFiniteSet(Classes) /\ MaxBoxes \in Nat

VARIABLES
  reason,     (* images.selection_reason, "none" for NULL                   *)
  active,     (* the classes that are not retired                           *)
  truth,      (* ground_truth: how many boxes, by image and class           *)
  marks       (* ground_truth_exhaustive                                    *)

ground == <<reason, active, truth, marks>>

Pairs == Pool \X Classes

-----------------------------------------------------------------------------
(* Writers.                                                                *)

DrawBox(i, c) ==
  /\ truth[<<i, c>>] < MaxBoxes
  /\ truth' = [truth EXCEPT ![<<i, c>>] = @ + 1]
  /\ UNCHANGED <<reason, active, marks>>

\* Mistake: a box that is gone is deleted again.
DeleteBoxAgain(i, c) ==
  /\ truth' = [truth EXCEPT ![<<i, c>>] = @ - 1]
  /\ UNCHANGED <<reason, active, marks>>

\* A box that somebody else deleted first is a 404.
DeleteBox(i, c) ==
  /\ truth[<<i, c>>] > 0
  /\ truth' = [truth EXCEPT ![<<i, c>>] = @ - 1]
  /\ UNCHANGED <<reason, active, marks>>

\* An upsert, or a DELETE that may find nothing.
SetExhaustive(i, c, exhaustive) ==
  /\ marks' = IF exhaustive THEN marks \cup {<<i, c>>} ELSE marks \ {<<i, c>>}
  /\ UNCHANGED <<reason, active, truth>>

\* updateClass, as the pool sees it: a class joins the roster or leaves it.
SetActive(c) ==
  /\ active' = IF c \in active THEN active \ {c} ELSE active \cup {c}
  /\ UNCHANGED <<reason, truth, marks>>

\* Mistake: every report stamps anew.
StampAnew(i, why) ==
  /\ reason' = [reason EXCEPT ![i] = why]
  /\ UNCHANGED <<active, truth, marks>>

\* reportPredictions, as the pool sees it: the first stamp is the last.
StampReason(i, why) ==
  /\ reason[i] = "none"
  /\ reason' = [reason EXCEPT ![i] = why]
  /\ UNCHANGED <<active, truth, marks>>

-----------------------------------------------------------------------------
(* Readers.                                                                *)

Frozen == {i \in Pool : reason[i] = "random"}

\* UNMARKED_PREDICATE.
Unmarked(i) == i \in Frozen /\ \E c \in active : <<i, c>> \notin marks

\* The first `size` images of a set, in the order of the worklist.
FirstOf(images, size) ==
  {i \in images : Cardinality({j \in images : j < i}) < size}

\* listGroundTruthPool?unmarked=true&limit=size
WorklistPage(size) == FirstOf({i \in Pool : Unmarked(i)}, size)

\* Mistake: with no class at all, every image is examined for each of them.
CoveredVacuously(images, classes, pairs) ==
  {i \in images : \A c \in classes : <<i, c>> \in pairs}

\* What resolveScoredEvalPool scores: the images examined for every class of
\* the roster, and none when the roster is empty.
Covered(images, classes, pairs) ==
  {i \in images : classes # {} /\ \A c \in classes : <<i, c>> \in pairs}

\* Nothing annotated yet, whatever the detector has stamped and whichever
\* classes are active: stamps and activations alone lead there.
GroundInit ==
  /\ reason \in [Pool -> {"none", "random", "manual"}]
  /\ active \in SUBSET Classes /\ marks = {}
  /\ truth = [p \in Pairs |-> 0]

\* Type correctness.
GroundTypeOK ==
  /\ reason \in [Pool -> {"none", "random", "manual"}]
  /\ active \subseteq Classes
  /\ truth \in [Pairs -> Nat]
  /\ marks \subseteq Pairs
=============================================================================
