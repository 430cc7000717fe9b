---------------------------- MODULE LabellingPool ----------------------------
(***************************************************************************)
(* The boxes waiting for a ruling: the tables predictions, verdicts,       *)
(* images and users as the detector's reports, the three verdict endpoints *)
(* and a promotion by hand write them, and the two pools read from them.   *)
(* Every handler here ends in one D1 batch, and what it reads before is    *)
(* never unmade, so each is one step.                                      *)
(*                                                                         *)
(* An image stands for its shuffle_key: a random 53-bit number, taken to   *)
(* be distinct.  What a verdict says and where a box lies are left out: no *)
(* query of a pool reads them.                                             *)
(***************************************************************************)
EXTENDS Integers, FiniteSets

CONSTANTS
  Images,        (* the frames in storage, by their shuffle_key             *)
  PublicSample,  (* those flagged for the anonymous page                    *)
  Boxes,         (* bound: what the detector may find, <<image, number>>    *)
  Users,         (* contributors: source 'user'                             *)
  Admin,         (* the administrators: source 'admin'                      *)
  Visitor        (* anonymous sessions: source 'anon'                       *)

ASSUME PoolAssumption ==
  /\ IsFiniteSet(Images) /\ Images \subseteq Nat \ {0}
  /\ PublicSample \subseteq Images
  /\ IsFiniteSet(Boxes) /\ Boxes \subseteq Images \X Nat
  /\ Admin \notin Users /\ Visitor \notin Users /\ Admin # Visitor

VARIABLES
  boxes,      (* predictions                                                *)
  verdicts,   (* <<box, who ruled on it>>; a second ruling adds nothing     *)
  unruled,    (* images.unruled_admin                                       *)
  selection,  (* images.selection_reason, "none" for NULL                   *)
  trusted     (* users.trusted                                              *)

pool == <<boxes, verdicts, unruled, selection, trusted>>

Rulers == Users \cup {Admin, Visitor}
Reasons == {"random", "manual", "diverse"}

On(image, bs) == {b \in bs : b[1] = image}

-----------------------------------------------------------------------------
(* Who counts.                                                             *)

AdminRuled(b) == <<b, Admin>> \in verdicts

\* UNRULED_BOX: whoever else has ruled, a box waits for an administrator.
WaitsForAdmin(image) == {b \in On(image, boxes) : ~AdminRuled(b)}

\* CONTRIBUTOR_UNRULED_BOX, negated.
Settled(b) == AdminRuled(b) \/ \E u \in trusted : <<b, u>> \in verdicts

\* CONTRIBUTOR_TRAIN_SPLIT.
InTrain(image) == selection[image] # "random"

ContributorPool ==
  {i \in Images : InTrain(i) /\ \E b \in On(i, boxes) : ~Settled(b)}

-----------------------------------------------------------------------------
(* Writers.                                                                *)

Insert(who, ruled) == verdicts' = verdicts \cup (ruled \X {who})

\* Mistake: the stamp of a later pass over an earlier one's.
ReportRestamping(sampled, found, reason) ==
  /\ boxes' = boxes \cup found
  /\ unruled' = [i \in Images |-> unruled[i] + Cardinality(On(i, found))]
  /\ selection' = [i \in Images |-> IF i \in sampled THEN reason ELSE selection[i]]
  /\ UNCHANGED <<verdicts, trusted>>

\* reportPredictions: new boxes on frames of the sample, the counter, and the
\* stamp on frames that have none.  A job that runs twice reports twice.
Report(sampled, found, reason) ==
  /\ boxes' = boxes \cup found
  /\ unruled' = [i \in Images |-> unruled[i] + Cardinality(On(i, found))]
  /\ selection' = [i \in Images |-> IF i \in sampled /\ selection[i] = "none"
                                      THEN reason ELSE selection[i]]
  /\ UNCHANGED <<verdicts, trusted>>

ReportSome ==
  \E sampled \in SUBSET Images, reason \in Reasons :
    \E found \in SUBSET {b \in Boxes \ boxes : b[1] \in sampled} :
      sampled # {} /\ Report(sampled, found, reason)

\* Mistake: one off the counter for each verdict, a re-ruling's included.
AdminSubmitsUnguarded(image, ruled) ==
  /\ ruled # {} /\ ruled \subseteq On(image, boxes)
  /\ unruled' = [unruled EXCEPT ![image] = @ - Cardinality(ruled)]
  /\ Insert(Admin, ruled)
  /\ UNCHANGED <<boxes, selection, trusted>>

\* The decrements come first in the batch: each sees the verdicts before it.
AdminSubmits(image, ruled) ==
  /\ ruled # {} /\ ruled \subseteq On(image, boxes)
  /\ unruled' = [unruled EXCEPT
                   ![image] = @ - Cardinality({b \in ruled : ~AdminRuled(b)})]
  /\ Insert(Admin, ruled)
  /\ UNCHANGED <<boxes, selection, trusted>>

UserSubmits(u, image, ruled) ==
  /\ ruled # {} /\ ruled \subseteq On(image, boxes)
  /\ Insert(u, ruled)
  /\ UNCHANGED <<boxes, unruled, selection, trusted>>

VisitorSubmits(image, ruled) ==
  /\ image \in PublicSample
  /\ ruled # {} /\ ruled \subseteq On(image, boxes)
  /\ Insert(Visitor, ruled)
  /\ UNCHANGED <<boxes, unruled, selection, trusted>>

\* By hand in the production database: there is no endpoint.
Promote(u) ==
  /\ u \notin trusted
  /\ trusted' = trusted \cup {u}
  /\ UNCHANGED <<boxes, verdicts, unruled, selection>>

Submits(who, image, ruled) ==
  \/ who = Admin /\ AdminSubmits(image, ruled)
  \/ who = Visitor /\ VisitorSubmits(image, ruled)
  \/ who \in Users /\ UserSubmits(who, image, ruled)

-----------------------------------------------------------------------------

PoolInit ==
  /\ boxes = {} /\ verdicts = {}
  /\ unruled = [i \in Images |-> 0]
  /\ selection = [i \in Images |-> "none"]
  /\ trusted = {}

PoolNext ==
  \/ ReportSome
  \/ \E who \in Rulers, image \in Images :
       \E ruled \in SUBSET On(image, boxes) : Submits(who, image, ruled)
  \/ \E u \in Users : Promote(u)

PoolSpec == PoolInit /\ [][PoolNext]_pool

-----------------------------------------------------------------------------
(* Properties.                                                             *)

\* Type correctness.
PoolTypeOK ==
  /\ boxes \subseteq Boxes
  /\ verdicts \subseteq boxes \X Rulers
  /\ unruled \in [Images -> Nat]
  /\ selection \in [Images -> Reasons \cup {"none"}]
  /\ trusted \subseteq Users

\* The denormalised counter is what it stands for, the number of a frame's
\* boxes without an admin verdict, through re-run reports and re-rulings: a
\* drift would hide frames from the admin's pool or hold them in it for good.
CounterExact == \A i \in Images : unruled[i] = Cardinality(WaitsForAdmin(i))

\* A frame leaves the contributors' pool only because somebody whose ruling
\* counts ruled on it, or somebody's rulings came to count: neither an
\* untrusted account, a visitor nor a later pass can empty the pool.
LeavesByWeight ==
  [][\A i \in ContributorPool \ ContributorPool' :
       \/ \E b \in On(i, boxes), who \in {Admin} \cup trusted :
            <<b, who>> \in verdicts' \ verdicts
       \/ \E b \in On(i, boxes), who \in trusted' \ trusted : <<b, who>> \in verdicts]_pool
=============================================================================
