------------------------- MODULE LabellingPoolProofs -------------------------
(***************************************************************************)
(* Theorems about LabellingPool and the two screens that walk through it,  *)
(* AdminWalk and ContributeWalk, for any images, users and boxes that may  *)
(* be found.                                                               *)
(***************************************************************************)
EXTENDS AdminWalk, ContributeWalk, FiniteSetTheorems, SequenceTheorems,
        WellFoundedInduction, TLAPS

\* A frame with a box has been stamped: both are written by one report.
Stamped == \A b \in boxes : selection[b[1]] # "none"

\* The inductive invariant.  The counter's type follows from its exactness,
\* and its exactness from the types, so neither is inductive alone.
PoolInv == PoolTypeOK /\ CounterExact /\ Stamped

-----------------------------------------------------------------------------
(* Finite sets of boxes.                                                   *)

\* Any set of boxes is finite.
LEMMA BoxesFinite ==
  ASSUME NEW S \in SUBSET Boxes
  PROVE  IsFiniteSet(S)
BY PoolAssumption, FS_Subset

\* Disjoint additions add up.
LEMMA CardinalityAdds ==
  ASSUME NEW S \in SUBSET Boxes, NEW T \in SUBSET Boxes, S \cap T = {}
  PROVE  Cardinality(S \cup T) = Cardinality(S) + Cardinality(T)
<1>1. IsFiniteSet(S) /\ IsFiniteSet(T)
  BY BoxesFinite
<1>2. Cardinality(S \cap T) = 0
  BY FS_EmptySet
<1>3. Cardinality(S) \in Nat /\ Cardinality(T) \in Nat
  BY <1>1, FS_CardinalityType
<1>4. Cardinality(S \cup T) = Cardinality(S) + Cardinality(T) - Cardinality(S \cap T)
  BY <1>1, FS_Union
<1> QED  BY <1>2, <1>3, <1>4

\* Taking a part away takes its number away.
LEMMA CardinalityTakesAway ==
  ASSUME NEW S \in SUBSET Boxes, NEW T \in SUBSET S
  PROVE  Cardinality(S \ T) = Cardinality(S) - Cardinality(T)
<1>1. IsFiniteSet(S)
  BY BoxesFinite
<1>2. S \cap T = T
  OBVIOUS
<1> QED  BY <1>1, <1>2, FS_Difference

-----------------------------------------------------------------------------
(* Steps.                                                                  *)

\* A report adds to a frame's counter as many boxes as it adds to the frame.
LEMMA ReportKeeps ==
  ASSUME PoolInv, ReportSome
  PROVE  PoolInv'
<1>1. PICK sampled \in SUBSET Images, reason \in Reasons :
        \E found \in SUBSET {b \in Boxes \ boxes : b[1] \in sampled} :
          Report(sampled, found, reason)
  BY DEF ReportSome
<1>2. PICK found \in SUBSET {b \in Boxes \ boxes : b[1] \in sampled} :
        Report(sampled, found, reason)
  BY <1>1
<1> USE <1>2
<1>3. /\ boxes \subseteq Boxes /\ found \subseteq Boxes
      /\ verdicts \subseteq boxes \X Rulers
      /\ unruled \in [Images -> Nat]
  BY DEF PoolInv, PoolTypeOK
<1>4. \A i \in Images : WaitsForAdmin(i)' = WaitsForAdmin(i) \cup On(i, found)
  BY <1>3 DEF Report, WaitsForAdmin, On, AdminRuled
<1>5. \A i \in Images : /\ Cardinality(WaitsForAdmin(i)') = unruled[i] + Cardinality(On(i, found))
                        /\ Cardinality(On(i, found)) \in Nat
  <2> TAKE i \in Images
  <2>1. WaitsForAdmin(i) \in SUBSET Boxes /\ On(i, found) \in SUBSET Boxes
    BY <1>3 DEF WaitsForAdmin, On
  <2>2. WaitsForAdmin(i) \cap On(i, found) = {}
    BY DEF WaitsForAdmin, On
  <2>3. Cardinality(On(i, found)) \in Nat
    BY <2>1, BoxesFinite, FS_CardinalityType
  <2>4. Cardinality(WaitsForAdmin(i)) = unruled[i]
    BY DEF PoolInv, CounterExact
  <2> QED  BY <1>4, <2>1, <2>2, <2>3, <2>4, CardinalityAdds
<1>6. CounterExact'
  BY <1>5 DEF Report, CounterExact
<1>7. PoolTypeOK'
  <2>1. unruled' \in [Images -> Nat]
    BY <1>3, <1>5 DEF Report
  <2>2. selection' \in [Images -> Reasons \cup {"none"}]
    BY DEF Report, PoolInv, PoolTypeOK
  <2>3. boxes' \subseteq Boxes /\ verdicts' \subseteq boxes' \X Rulers /\ trusted' \subseteq Users
    BY <1>3 DEF Report, PoolInv, PoolTypeOK
  <2> QED  BY <2>1, <2>2, <2>3 DEF PoolTypeOK
<1>8. Stamped'
  <2> SUFFICES ASSUME NEW b \in boxes' PROVE selection'[b[1]] # "none"
    BY DEF Stamped
  <2>1. b \in Boxes /\ b[1] \in Images
    BY <1>3, PoolAssumption DEF Report
  <2>2. CASE b \in boxes
    BY <2>1, <2>2 DEF Report, PoolInv, Stamped, Reasons
  <2>3. CASE b \in found
    BY <2>1, <2>3 DEF Report, Reasons
  <2> QED  BY <2>2, <2>3 DEF Report
<1> QED  BY <1>6, <1>7, <1>8 DEF PoolInv

\* An administrator's rulings take off the counter the boxes they are the
\* first on.
LEMMA AdminKeeps ==
  ASSUME PoolInv, NEW image \in Images, NEW ruled, AdminSubmits(image, ruled)
  PROVE  PoolInv'
<1> DEFINE first == {b \in ruled : ~AdminRuled(b)}
<1>1. /\ boxes \subseteq Boxes /\ verdicts \subseteq boxes \X Rulers
      /\ unruled \in [Images -> Nat] /\ ruled \subseteq On(image, boxes)
  BY DEF PoolInv, PoolTypeOK, AdminSubmits
<1>2. WaitsForAdmin(image)' = WaitsForAdmin(image) \ first
  BY <1>1 DEF AdminSubmits, Insert, WaitsForAdmin, On, AdminRuled
<1>3. \A i \in Images \ {image} : WaitsForAdmin(i)' = WaitsForAdmin(i)
  BY <1>1 DEF AdminSubmits, Insert, WaitsForAdmin, On, AdminRuled
<1>4. first \in SUBSET WaitsForAdmin(image) /\ WaitsForAdmin(image) \in SUBSET Boxes
  BY <1>1 DEF WaitsForAdmin, On
<1>5. Cardinality(WaitsForAdmin(image)') = unruled[image] - Cardinality(first)
  BY <1>2, <1>4, CardinalityTakesAway DEF PoolInv, CounterExact
<1>6. Cardinality(WaitsForAdmin(image)') \in Nat
  BY <1>2, <1>4, BoxesFinite, FS_CardinalityType
<1>7. unruled' = [unruled EXCEPT ![image] = Cardinality(WaitsForAdmin(image)')]
  BY <1>5 DEF AdminSubmits
<1> HIDE DEF first
<1>8. CounterExact'
  BY <1>1, <1>3, <1>7 DEF CounterExact, PoolInv
<1>9. verdicts' \subseteq boxes' \X Rulers
  BY <1>1 DEF AdminSubmits, Insert, On, Rulers
<1>10. PoolTypeOK'
  BY <1>1, <1>6, <1>7, <1>9 DEF AdminSubmits, PoolInv, PoolTypeOK
<1>11. Stamped'
  BY DEF AdminSubmits, PoolInv, Stamped
<1> QED  BY <1>8, <1>10, <1>11 DEF PoolInv

\* Nobody else's rulings touch what an administrator waits for.
LEMMA OthersKeep ==
  ASSUME PoolInv, NEW image \in Images, NEW ruled, NEW who \in Rulers \ {Admin},
         ruled \subseteq On(image, boxes), Insert(who, ruled),
         UNCHANGED <<boxes, unruled, selection, trusted>>
  PROVE  PoolInv'
<1>1. \A i \in Images : WaitsForAdmin(i)' = WaitsForAdmin(i)
  BY DEF Insert, WaitsForAdmin, On, AdminRuled
<1>2. CounterExact'
  BY <1>1 DEF PoolInv, CounterExact
<1>3. verdicts' \subseteq boxes' \X Rulers
  BY DEF PoolInv, PoolTypeOK, Insert, On
<1>4. PoolTypeOK' /\ Stamped'
  BY <1>3 DEF PoolInv, PoolTypeOK, Stamped
<1> QED  BY <1>2, <1>4 DEF PoolInv

\* The invariant is inductive.
LEMMA PoolStep ==
  ASSUME PoolInv, [PoolNext]_pool
  PROVE  PoolInv'
<1>1. CASE ReportSome
  BY <1>1, ReportKeeps
<1>2. ASSUME NEW who \in Rulers, NEW image \in Images,
             NEW ruled \in SUBSET On(image, boxes), Submits(who, image, ruled)
      PROVE  PoolInv'
  <2>1. CASE who = Admin /\ AdminSubmits(image, ruled)
    BY <2>1, AdminKeeps
  <2>2. CASE who = Visitor /\ VisitorSubmits(image, ruled)
    BY <2>2, OthersKeep, PoolAssumption DEF VisitorSubmits, Rulers
  <2>3. CASE who \in Users /\ UserSubmits(who, image, ruled)
    BY <2>3, OthersKeep, PoolAssumption DEF UserSubmits, Rulers
  <2> QED  BY <1>2, <2>1, <2>2, <2>3 DEF Submits
<1>3. ASSUME NEW u \in Users, Promote(u)
      PROVE  PoolInv'
  BY <1>3 DEF Promote, PoolInv, PoolTypeOK, CounterExact, Stamped, WaitsForAdmin, On, AdminRuled
<1>4. CASE UNCHANGED pool
  BY <1>4 DEF pool, PoolInv, PoolTypeOK, CounterExact, Stamped, WaitsForAdmin, On, AdminRuled
<1> QED  BY <1>1, <1>2, <1>3, <1>4 DEF PoolNext

\* It holds of every reachable state.
THEOREM PoolInvariant == PoolSpec => []PoolInv
<1>1. PoolInit => PoolInv
  <2> SUFFICES ASSUME PoolInit PROVE PoolInv
    OBVIOUS
  <2>1. \A i \in Images : WaitsForAdmin(i) = {}
    BY DEF PoolInit, WaitsForAdmin, On
  <2>2. CounterExact
    BY <2>1, FS_EmptySet DEF PoolInit, CounterExact
  <2>3. PoolTypeOK /\ Stamped
    BY DEF PoolInit, PoolTypeOK, Stamped
  <2> QED  BY <2>2, <2>3 DEF PoolInv
<1>2. PoolInv /\ [PoolNext]_pool => PoolInv'
  BY PoolStep
<1> QED  BY <1>1, <1>2, PTL DEF PoolSpec

\* The tables keep their types; the counter never falls below zero.
THEOREM PoolTypeCorrect == PoolSpec => []PoolTypeOK
BY PoolInvariant, PTL DEF PoolInv

\* unruled_admin never drifts from the count it stands for.
THEOREM CounterStaysExact == PoolSpec => []CounterExact
BY PoolInvariant, PTL DEF PoolInv

-----------------------------------------------------------------------------
(* Leaving the contributors' pool.                                         *)

\* One step that takes a frame out of the pool is a ruling that counts or a
\* promotion that makes one count.
LEMMA LeavingStep ==
  ASSUME PoolInv, [PoolNext]_pool, NEW i \in ContributorPool \ ContributorPool'
  PROVE  \/ \E b \in On(i, boxes), who \in {Admin} \cup trusted :
              <<b, who>> \in verdicts' \ verdicts
         \/ \E b \in On(i, boxes), who \in trusted' \ trusted : <<b, who>> \in verdicts
<1>1. /\ i \in Images /\ i \notin ContributorPool'
      /\ InTrain(i)
  BY DEF ContributorPool
<1>2. PICK b \in On(i, boxes) : ~Settled(b)
  BY DEF ContributorPool
<1>3. b[1] = i /\ b \in boxes /\ selection[i] # "none"
  BY DEF On, PoolInv, Stamped
<1>4. /\ boxes \subseteq boxes' /\ verdicts \subseteq verdicts'
      /\ trusted \subseteq trusted' /\ selection'[i] = selection[i]
  <2>1. CASE ReportSome
    BY <2>1, <1>1, <1>3 DEF ReportSome, Report
  <2>2. ASSUME NEW who \in Rulers, NEW image \in Images,
               NEW ruled \in SUBSET On(image, boxes), Submits(who, image, ruled)
        PROVE  /\ boxes \subseteq boxes' /\ verdicts \subseteq verdicts'
               /\ trusted \subseteq trusted' /\ selection'[i] = selection[i]
    BY <2>2 DEF Submits, AdminSubmits, VisitorSubmits, UserSubmits, Insert
  <2>3. CASE (\E u \in Users : Promote(u)) \/ UNCHANGED pool
    BY <2>3 DEF Promote, pool
  <2> QED  BY <2>1, <2>2, <2>3 DEF PoolNext
<1>5. Settled(b)'
  BY <1>1, <1>3, <1>4 DEF ContributorPool, InTrain, On
<1>6. PICK who \in {Admin} \cup trusted' : <<b, who>> \in verdicts'
  BY <1>5 DEF Settled, AdminRuled
<1>7. CASE who \in {Admin} \cup trusted
  BY <1>2, <1>6, <1>7 DEF Settled, AdminRuled
<1>8. CASE who \in trusted' \ trusted
  <2>1. verdicts' = verdicts
    <3>1. CASE \E u \in Users : Promote(u)
      BY <3>1 DEF Promote
    <3>2. CASE ReportSome
      BY <3>2 DEF ReportSome, Report
    <3>3. ASSUME NEW w \in Rulers, NEW image \in Images,
                 NEW ruled \in SUBSET On(image, boxes), Submits(w, image, ruled)
          PROVE  trusted' = trusted
      BY <3>3 DEF Submits, AdminSubmits, VisitorSubmits, UserSubmits
    <3> QED  BY <1>8, <3>1, <3>2, <3>3 DEF PoolNext, pool
  <2> QED  BY <1>6, <1>8, <2>1
<1> QED  BY <1>6, <1>7, <1>8

\* Only rulings that count take frames out of the contributors' pool.
THEOREM PoolLeavesByWeight == PoolSpec => LeavesByWeight
<1>1. PoolInv /\ [PoolNext]_pool =>
        [\A i \in ContributorPool \ ContributorPool' :
           \/ \E b \in On(i, boxes), who \in {Admin} \cup trusted :
                <<b, who>> \in verdicts' \ verdicts
           \/ \E b \in On(i, boxes), who \in trusted' \ trusted : <<b, who>> \in verdicts]_pool
  BY LeavingStep
<1> QED  BY <1>1, PoolInvariant, PTL DEF PoolSpec, LeavesByWeight

-----------------------------------------------------------------------------
(* The administrator's walk.                                               *)

Ruled(bs) == \A b \in bs : AdminRuled(b)

\* A batch has every frame that waited when it was read, or says that there
\* are more.
Counted(batch) ==
  \/ \A b \in batch.owed : b[1] \in batch.frames
  \/ Cardinality(batch.frames) < batch.remaining

\* What was owed on a frame of the batch came with it or was ruled on between
\* the two reads.
HeldOK ==
  /\ Counted(held)
  /\ \A b \in held.boxes : b[1] \in held.frames
  /\ \A b \in held.owed : b[1] \in held.frames => b \in held.boxes \/ AdminRuled(b)

AskingOK == asking.stage = "boxes" => Counted(asking.batch) /\ asking.batch.owed \subseteq boxes

\* The card is of what is left of the batch; none, when nothing is left.
CardOK ==
  IF alert THEN desk = NoDesk
  ELSE /\ desk.boxes \subseteq held.boxes \ finished
       /\ desk.boxes = {} => desk = NoDesk /\ held.boxes \subseteq finished
       /\ desk.boxes # {} => desk.image \in Images

\* What this mount heard accepted it does not show again, for while the alert
\* is not up, what it heard of the batch is filtered out.
HeardOK == ~alert => heardHere \cap held.boxes \subseteq finished

PostedOK == \A p \in posted : p.served => Ruled(p.ruled)

DeskInv ==
  /\ PoolInv /\ DeskTypeOK
  /\ HeldOK /\ AskingOK /\ CardOK /\ HeardOK /\ PostedOK
  /\ Ruled(finished) /\ Ruled(heardEver)

\* A set of naturals that is not empty has a least one, which is its Min.
LEMMA LeastIs ==
  ASSUME NEW T \in SUBSET Nat, T # {}
  PROVE  Min(T) \in T /\ \A y \in T : Min(T) <= y
<1>1. \E x \in T : \A y \in T : ~ (<<y, x>> \in OpToRel(<,Nat))
  BY NatLessThanWellFounded, WFMin, Zenon
<1>2. PICK x \in T : \A y \in T : ~ (<<y, x>> \in OpToRel(<,Nat))
  BY <1>1
<1>3. \A y \in T : ~ (y < x)
  BY <1>2 DEF OpToRel
<1>4. \A y \in T : x <= y
  BY <1>3
<1> QED BY <1>4 DEF Min

\* The card that a batch puts on the screen.
LEMMA PlacedIs ==
  ASSUME DeskTypeOK, NEW batch \in DeskBatches, NEW done \in SUBSET Boxes,
         \A b \in batch.boxes : b[1] \in batch.frames
  PROVE  /\ Placed(batch, done) \in [image : {0} \cup Images, boxes : SUBSET Boxes, staged : SUBSET Boxes]
         /\ Placed(batch, done).staged \subseteq Placed(batch, done).boxes
         /\ Placed(batch, done).boxes \subseteq batch.boxes \ done
         /\ Placed(batch, done).boxes = {} =>
              Placed(batch, done) = NoDesk /\ batch.boxes \subseteq done
         /\ Placed(batch, done).boxes # {} => Placed(batch, done).image \in Images
<1> DEFINE remaining == RemainingFrames(batch, done)
           first == Min(remaining)
           left == On(first, batch.boxes \ done)
           staged == IF first = desk.image THEN desk.staged \cap left ELSE {}
<1>1. /\ batch.frames \subseteq Images /\ batch.boxes \subseteq Boxes /\ Images \subseteq Nat
      /\ desk.staged \subseteq Boxes
  BY PoolAssumption DEF DeskBatches, DeskTypeOK
<1>2. CASE remaining = {}
  <2>1. Placed(batch, done) = NoDesk
    BY <1>2 DEF Placed
  <2>2. batch.boxes \subseteq done
    BY <1>2 DEF RemainingFrames, On
  <2> QED BY <2>1, <2>2 DEF NoDesk
<1>3. CASE remaining # {}
  <2>1. remaining \in SUBSET Nat /\ remaining \subseteq batch.frames
    BY <1>1 DEF RemainingFrames
  <2>2. first \in remaining
    <3> HIDE DEF remaining
    <3> QED BY <1>3, <2>1, LeastIs
  <2>3. left # {} /\ first \in Images /\ left \subseteq batch.boxes \ done
    BY <1>1, <2>1, <2>2 DEF RemainingFrames, On
  <2>4. Placed(batch, done) = [image |-> first, boxes |-> left, staged |-> staged]
    BY <1>3 DEF Placed
  <2>5. staged \subseteq left /\ staged \subseteq Boxes
    BY <1>1
  <2> HIDE DEF remaining, first, left, staged
  <2> QED BY <1>1, <2>3, <2>4, <2>5
<1> QED BY <1>2, <1>3

\* The frames of a batch are all that wait, or fewer than wait.
LEMMA FirstFramesCounted ==
  ASSUME PoolInv
  PROVE  /\ FirstFrames(DeskBatch) \subseteq Images /\ Cardinality(AdminWaiting) \in Nat
         /\ \/ \A b \in boxes : ~AdminRuled(b) => b[1] \in FirstFrames(DeskBatch)
            \/ Cardinality(FirstFrames(DeskBatch)) < Cardinality(AdminWaiting)
<1> DEFINE all == AdminWaiting
           part == FirstFrames(DeskBatch)
<1>1. part \in SUBSET all /\ all \in SUBSET Images
  BY DEF FirstFrames, AdminWaiting
<1>2. IsFiniteSet(all)
  BY <1>1, PoolAssumption, FS_Subset
<1>3. Cardinality(part) <= Cardinality(all) /\ (Cardinality(all) = Cardinality(part) => all = part)
  BY <1>1, <1>2, FS_Subset
<1>4. IsFiniteSet(part)
  BY <1>1, <1>2, FS_Subset
<1>5. Cardinality(part) \in Nat /\ Cardinality(all) \in Nat
  BY <1>2, <1>4, FS_CardinalityType
<1>6. ASSUME NEW b \in boxes, ~AdminRuled(b)
      PROVE  b[1] \in all
  <2>1. b[1] \in Images /\ b \in WaitsForAdmin(b[1])
    BY <1>6, PoolAssumption DEF PoolInv, PoolTypeOK, WaitsForAdmin, On
  <2>2. WaitsForAdmin(b[1]) \in SUBSET Boxes
    BY DEF PoolInv, PoolTypeOK, WaitsForAdmin, On
  <2>3. IsFiniteSet(WaitsForAdmin(b[1])) /\ Cardinality(WaitsForAdmin(b[1])) # 0
    BY <2>1, <2>2, BoxesFinite, FS_EmptySet
  <2>4. unruled[b[1]] \in Nat /\ unruled[b[1]] # 0
    BY <2>1, <2>3 DEF PoolInv, PoolTypeOK, CounterExact
  <2> QED BY <2>1, <2>4 DEF AdminWaiting
<1> HIDE DEF all, part
<1>7. all = part \/ Cardinality(part) < Cardinality(all)
  BY <1>3, <1>5
<1> QED BY <1>1, <1>5, <1>6, <1>7 DEF all, part

\* The tables move under the screen; what was ruled on stays so.
LEMMA TablesMove ==
  ASSUME DeskInv, PoolInv', boxes \subseteq boxes', verdicts \subseteq verdicts',
         UNCHANGED <<held, asking, alert, finished, spent, broken, desk, heardHere, heardEver>>,
         posted' \subseteq [image : Images, ruled : SUBSET Boxes, served : BOOLEAN, heard : BOOLEAN],
         PostedOK'
  PROVE  DeskInv'
<1>1. DeskTypeOK'
  BY DEF DeskInv, DeskTypeOK
<1>2. \A b : AdminRuled(b) => AdminRuled(b)'
  BY DEF AdminRuled
<1>3. HeldOK' /\ AskingOK'
  BY <1>2 DEF DeskInv, HeldOK, AskingOK, Counted
<1>4. Ruled(finished)' /\ Ruled(heardEver)'
  BY <1>2 DEF DeskInv, Ruled
<1>5. CardOK' /\ HeardOK'
  BY DEF DeskInv, CardOK, HeardOK
<1> QED BY <1>1, <1>3, <1>4, <1>5 DEF DeskInv

\* A fetch begins, moves on or is replaced.
LEMMA AskingMoves ==
  ASSUME DeskInv, UNCHANGED <<pool, held, alert, finished, desk, posted, heardHere, heardEver>>,
         spent' \subseteq Images, broken' \subseteq spent',
         asking' \in [why : {"none", "first", "next", "refresh"},
                      stage : {"none", "frames", "boxes"}, batch : DeskBatches],
         AskingOK'
  PROVE  DeskInv'
<1>1. DeskTypeOK'
  BY DEF DeskInv, DeskTypeOK
<1>2. PoolInv'
  BY DEF DeskInv, PoolInv, PoolTypeOK, CounterExact, Stamped, WaitsForAdmin, On, AdminRuled, pool
<1>3. HeldOK' /\ Ruled(finished)' /\ Ruled(heardEver)' /\ PostedOK'
  BY DEF DeskInv, HeldOK, Counted, Ruled, AdminRuled, PostedOK, pool
<1>4. CardOK' /\ HeardOK'
  BY DEF DeskInv, CardOK, HeardOK
<1> QED BY <1>1, <1>2, <1>3, <1>4 DEF DeskInv

\* A fetch is asked for, of no batch yet.
LEMMA AskIs ==
  ASSUME NEW why \in {"first", "next", "refresh"}
  PROVE  /\ Ask(why) \in [why : {"none", "first", "next", "refresh"},
                          stage : {"none", "frames", "boxes"}, batch : DeskBatches]
         /\ NotAsking \in [why : {"none", "first", "next", "refresh"},
                           stage : {"none", "frames", "boxes"}, batch : DeskBatches]
         /\ Ask(why).stage = "frames" /\ NotAsking.stage = "none"
<1>1. NoBatch \in DeskBatches
  BY DEF NoBatch, DeskBatches
<1> HIDE DEF NoBatch
<1> QED BY <1>1 DEF Ask, NotAsking

\* The frames are read.
LEMMA ReadFramesKeeps ==
  ASSUME DeskInv, ReadFrames
  PROVE  DeskInv'
<1> DEFINE batch == [frames |-> FirstFrames(DeskBatch), boxes |-> {},
                     remaining |-> Cardinality(AdminWaiting), owed |-> {b \in boxes : ~AdminRuled(b)}]
<1>1. PoolInv /\ boxes \subseteq Boxes
  BY DEF DeskInv, PoolInv, PoolTypeOK
<1>2. batch \in DeskBatches
  BY <1>1, FirstFramesCounted DEF DeskBatches
<1>3. Counted(batch) /\ batch.owed \subseteq boxes
  BY <1>1, FirstFramesCounted DEF Counted
<1>4. asking' = [asking EXCEPT !.stage = "boxes", !.batch = batch]
  BY Zenon DEF ReadFrames
<1>5. asking \in [why : {"none", "first", "next", "refresh"},
                  stage : {"none", "frames", "boxes"}, batch : DeskBatches]
  BY DEF DeskInv, DeskTypeOK
<1> HIDE DEF batch
<1>6. /\ asking' \in [why : {"none", "first", "next", "refresh"},
                      stage : {"none", "frames", "boxes"}, batch : DeskBatches]
      /\ asking'.batch = batch
  BY <1>2, <1>4, <1>5
<1>7. boxes' = boxes
  BY DEF ReadFrames, pool
<1>8. Counted(asking'.batch) /\ asking'.batch.owed \subseteq boxes'
  BY <1>3, <1>6, <1>7
<1>9. AskingOK'
  BY <1>8 DEF AskingOK, Counted
<1>10. spent' \subseteq Images /\ broken' \subseteq spent'
  BY DEF ReadFrames, DeskInv, DeskTypeOK
<1> QED BY <1>6, <1>9, <1>10, AskingMoves DEF ReadFrames

\* The boxes are read and the batch is there.
LEMMA ReadFrameBoxesKeeps ==
  ASSUME DeskInv, ReadFrameBoxes
  PROVE  DeskInv'
<1> DEFINE found == UNION {WaitsForAdmin(i) : i \in asking.batch.frames}
           batch == [asking.batch EXCEPT !.boxes = found]
           done == IF asking.why = "next" THEN {} ELSE finished
<1>1. /\ PoolInv /\ DeskTypeOK /\ boxes \subseteq Boxes /\ asking.batch \in DeskBatches
      /\ Counted(asking.batch) /\ asking.batch.owed \subseteq boxes
      /\ asking.why \in {"none", "first", "next", "refresh"}
  BY DEF DeskInv, PoolInv, PoolTypeOK, DeskTypeOK, AskingOK, ReadFrameBoxes
<1>2. /\ found \subseteq boxes
      /\ \A b \in found : ~AdminRuled(b) /\ b[1] \in asking.batch.frames
      /\ \A b \in boxes : b[1] \in asking.batch.frames => b \in found \/ AdminRuled(b)
  BY DEF WaitsForAdmin, On
<1>3. asking.stage = "boxes" /\ Arrives(batch) /\ UNCHANGED <<pool, posted, heardHere, heardEver>>
  BY Zenon DEF ReadFrameBoxes
<1> HIDE DEF found
<1>4. /\ batch \in DeskBatches /\ batch.boxes = found /\ batch.frames = asking.batch.frames
      /\ batch.owed = asking.batch.owed /\ batch.remaining = asking.batch.remaining
  BY <1>1, <1>2 DEF DeskBatches
<1> HIDE DEF batch
<1>5. /\ held' = batch /\ asking' = NotAsking /\ ~alert' /\ alert' \in BOOLEAN /\ desk' = Placed(batch, done)
      /\ finished' = done
  BY <1>3, Zenon DEF Arrives
<1>6. done \in SUBSET Boxes /\ done \subseteq finished /\ Ruled(done)
  BY DEF DeskInv, DeskTypeOK, Ruled
<1>7. /\ Placed(batch, done) \in [image : {0} \cup Images, boxes : SUBSET Boxes, staged : SUBSET Boxes]
      /\ Placed(batch, done).staged \subseteq Placed(batch, done).boxes
      /\ Placed(batch, done).boxes \subseteq batch.boxes \ done
      /\ Placed(batch, done).boxes = {} => Placed(batch, done) = NoDesk /\ batch.boxes \subseteq done
      /\ Placed(batch, done).boxes # {} => Placed(batch, done).image \in Images
  BY <1>1, <1>2, <1>4, <1>6, PlacedIs
<1> HIDE DEF done
<1>8. spent' \subseteq Images /\ broken' \subseteq spent'
  BY <1>3 DEF Arrives, DeskInv, DeskTypeOK
<1>9. NotAsking \in [why : {"none", "first", "next", "refresh"},
                     stage : {"none", "frames", "boxes"}, batch : DeskBatches]
      /\ NotAsking.stage = "none"
  BY AskIs
<1>10. DeskTypeOK'
  BY <1>3, <1>4, <1>5, <1>6, <1>7, <1>8, <1>9 DEF DeskInv, DeskTypeOK
<1>11. HeldOK'
  <2>1. Counted(batch)
    BY <1>1, <1>4 DEF Counted
  <2>2. \A b \in batch.owed : b[1] \in batch.frames => b \in batch.boxes \/ AdminRuled(b)
    BY <1>1, <1>2, <1>4
  <2> QED BY <1>2, <1>3, <1>4, <1>5, <2>1, <2>2 DEF HeldOK, Counted, AdminRuled, pool
<1>12. CardOK' /\ AskingOK'
  BY <1>5, <1>7, <1>9 DEF CardOK, AskingOK
<1>13. HeardOK'
  <2>1. heardHere \cap found = {}
    BY <1>2 DEF DeskInv, DeskTypeOK, Ruled
  <2> QED BY <1>3, <1>4, <1>5, <2>1 DEF HeardOK
<1>14. PoolInv'
  BY <1>1, <1>3 DEF PoolInv, PoolTypeOK, CounterExact, Stamped, WaitsForAdmin, On, AdminRuled, pool
<1>15. PostedOK' /\ Ruled(heardEver)' /\ Ruled(finished)'
  BY <1>3, <1>5, <1>6 DEF DeskInv, PostedOK, Ruled, AdminRuled, pool
<1> QED BY <1>10, <1>11, <1>12, <1>13, <1>14, <1>15 DEF DeskInv

\* A fetch fails: there is an alert instead of the card.
LEMMA AskFailsKeeps ==
  ASSUME DeskInv, AskFails
  PROVE  DeskInv'
<1>1. /\ asking' = NotAsking /\ alert' = TRUE /\ desk' = NoDesk
      /\ finished' \in {{}, finished} /\ spent' \in {{}, spent}
      /\ UNCHANGED <<pool, held, posted, heardHere, heardEver>>
  BY DEF AskFails
<1>2. broken' \subseteq spent'
  BY DEF AskFails, DeskInv, DeskTypeOK
<1>3. NoDesk \in [image : {0} \cup Images, boxes : SUBSET Boxes, staged : SUBSET Boxes]
      /\ NoDesk.staged \subseteq NoDesk.boxes
  BY DEF NoDesk
<1>4. NotAsking \in [why : {"none", "first", "next", "refresh"},
                     stage : {"none", "frames", "boxes"}, batch : DeskBatches]
      /\ NotAsking.stage = "none"
  BY AskIs
<1>5. DeskTypeOK'
  BY <1>1, <1>2, <1>3, <1>4 DEF DeskInv, DeskTypeOK
<1>6. PoolInv'
  BY <1>1 DEF DeskInv, PoolInv, PoolTypeOK, CounterExact, Stamped, WaitsForAdmin, On, AdminRuled, pool
<1>7. HeldOK' /\ Ruled(heardEver)' /\ Ruled(finished)' /\ PostedOK'
  BY <1>1 DEF DeskInv, HeldOK, Counted, Ruled, AdminRuled, PostedOK, pool
<1>8. AskingOK' /\ CardOK' /\ HeardOK'
  BY <1>1, <1>4 DEF AskingOK, CardOK, HeardOK
<1> QED BY <1>5, <1>6, <1>7, <1>8 DEF DeskInv

\* A fetch is asked for.
LEMMA AskingKeeps ==
  ASSUME DeskInv, AskFirst \/ NextBatch \/ ImageFails
  PROVE  DeskInv'
<1>1. asking' = asking \/ \E why \in {"first", "next", "refresh"} : asking' = Ask(why)
  BY DEF AskFirst, NextBatch, ImageFails
<1>2. UNCHANGED <<pool, held, alert, finished, desk, posted, heardHere, heardEver>>
  BY DEF AskFirst, NextBatch, ImageFails
<1>3. boxes' = boxes
  BY <1>2 DEF pool
<1>4. asking' \in [why : {"none", "first", "next", "refresh"},
                   stage : {"none", "frames", "boxes"}, batch : DeskBatches]
  BY <1>1, AskIs DEF DeskInv, DeskTypeOK
<1>5. AskingOK'
  <2>1. CASE asking' = asking
    BY <1>3, <2>1 DEF DeskInv, AskingOK, Counted
  <2>2. ASSUME NEW why \in {"first", "next", "refresh"}, asking' = Ask(why)
        PROVE  AskingOK'
    BY <2>2, AskIs DEF AskingOK
  <2> QED BY <1>1, <2>1, <2>2
<1>6. CASE AskFirst \/ NextBatch
  <2>1. spent' \subseteq Images /\ broken' \subseteq spent'
    BY <1>6 DEF AskFirst, NextBatch, DeskInv, DeskTypeOK
  <2> QED BY <1>2, <1>4, <1>5, <2>1, AskingMoves
<1>7. CASE ImageFails
  <2>1. desk.image \in Images
    BY <1>7 DEF ImageFails, DeskInv, CardOK
  <2>2. spent' \subseteq Images /\ broken' \subseteq spent'
    BY <1>7, <2>1 DEF ImageFails, DeskInv, DeskTypeOK
  <2> QED BY <1>2, <1>4, <1>5, <2>2, AskingMoves
<1> QED BY <1>6, <1>7

\* Staging, sending and a call that is lost change the card's staging and the
\* calls that nobody served or that are gone.
LEMMA ScreenMoves ==
  ASSUME DeskInv, UNCHANGED <<pool, held, asking, alert, finished, spent, broken, heardHere, heardEver>>,
         NEW staged \in SUBSET desk.boxes, desk' = [desk EXCEPT !.staged = staged],
         staged = desk.staged \/ desk.boxes # {},
         posted' \subseteq [image : Images, ruled : SUBSET Boxes, served : BOOLEAN, heard : BOOLEAN],
         \A p \in posted' : p.served => p \in posted
  PROVE  DeskInv'
<1>1. desk \in [image : {0} \cup Images, boxes : SUBSET Boxes, staged : SUBSET Boxes]
  BY DEF DeskInv, DeskTypeOK
<1>2. /\ desk' \in [image : {0} \cup Images, boxes : SUBSET Boxes, staged : SUBSET Boxes]
      /\ desk'.image = desk.image /\ desk'.boxes = desk.boxes /\ desk'.staged = staged
      /\ staged = desk.staged => desk' = desk
  BY <1>1
<1>3. DeskTypeOK'
  BY <1>2 DEF DeskInv, DeskTypeOK
<1>4. PoolInv'
  BY DEF DeskInv, PoolInv, PoolTypeOK, CounterExact, Stamped, WaitsForAdmin, On, AdminRuled, pool
<1>5. HeldOK' /\ AskingOK' /\ HeardOK' /\ Ruled(heardEver)' /\ Ruled(finished)' /\ PostedOK'
  BY DEF DeskInv, HeldOK, AskingOK, Counted, HeardOK, Ruled, AdminRuled, PostedOK, pool
<1>6. CardOK'
  <2>1. CASE staged = desk.staged
    BY <1>2, <2>1 DEF DeskInv, CardOK
  <2>2. CASE desk.boxes # {}
    <3>1. ~alert
      BY <2>2 DEF DeskInv, CardOK, NoDesk
    <3> QED BY <1>2, <2>2, <3>1 DEF DeskInv, CardOK
  <2> QED BY <2>1, <2>2
<1> QED BY <1>3, <1>4, <1>5, <1>6 DEF DeskInv

\* Staging, sending and losing a call keep the invariant.
LEMMA ScreenKeeps ==
  ASSUME DeskInv,
         \/ RejectWholeFrame \/ SubmitRulings
         \/ \E b \in desk.boxes : StageBox(b)
         \/ \E p \in posted : PostLost(p)
  PROVE  DeskInv'
<1>1. /\ desk \in [image : {0} \cup Images, boxes : SUBSET Boxes, staged : SUBSET Boxes]
      /\ desk.staged \subseteq desk.boxes
      /\ posted \subseteq [image : Images, ruled : SUBSET Boxes, served : BOOLEAN, heard : BOOLEAN]
  BY DEF DeskInv, DeskTypeOK
<1>2. desk = [desk EXCEPT !.staged = desk.staged]
  BY <1>1
<1>3. CASE RejectWholeFrame
  <2>1. desk' = [desk EXCEPT !.staged = desk.boxes] /\ desk.boxes # {}
        /\ UNCHANGED <<pool, held, asking, alert, finished, spent, broken, posted, heardHere, heardEver>>
    BY <1>3, Zenon DEF RejectWholeFrame
  <2> QED BY <1>1, <2>1, ScreenMoves
<1>4. CASE SubmitRulings
  <2> DEFINE new == [image |-> desk.image, ruled |-> desk.staged, served |-> FALSE, heard |-> TRUE]
  <2>1. posted' = posted \cup {new} /\ desk' = desk /\ desk.staged # {}
        /\ UNCHANGED <<pool, held, asking, alert, finished, spent, broken, heardHere, heardEver>>
    BY <1>4 DEF SubmitRulings
  <2>2. desk.image \in Images
    BY <1>1, <2>1 DEF DeskInv, CardOK, NoDesk
  <2>3. new \in [image : Images, ruled : SUBSET Boxes, served : BOOLEAN, heard : BOOLEAN]
        /\ ~new.served
    BY <1>1, <2>2
  <2> HIDE DEF new
  <2> QED BY <1>1, <1>2, <2>1, <2>3, ScreenMoves
<1>5. ASSUME NEW b \in desk.boxes, StageBox(b)
      PROVE  DeskInv'
  <2> DEFINE staged == IF b \in desk.staged THEN desk.staged \ {b} ELSE desk.staged \cup {b}
  <2>1. desk' = [desk EXCEPT !.staged = staged]
        /\ UNCHANGED <<pool, held, asking, alert, finished, spent, broken, posted, heardHere, heardEver>>
    BY <1>5, Zenon DEF StageBox
  <2>2. staged \in SUBSET desk.boxes /\ desk.boxes # {}
    BY <1>1
  <2> HIDE DEF staged
  <2> QED BY <1>1, <2>1, <2>2, ScreenMoves
<1>6. ASSUME NEW p \in posted, PostLost(p)
      PROVE  DeskInv'
  <2>1. posted' = posted \ {p} /\ desk' = desk
        /\ UNCHANGED <<pool, held, asking, alert, finished, spent, broken, heardHere, heardEver>>
    BY <1>6 DEF PostLost
  <2> QED BY <1>1, <1>2, <2>1, ScreenMoves
<1> QED BY <1>3, <1>4, <1>5, <1>6

\* The answer to a submission is heard.
LEMMA PostHeardKeeps ==
  ASSUME DeskInv, NEW p \in posted, PostHeard(p)
  PROVE  DeskInv'
<1> DEFINE done == finished \cup p.ruled
<1>1. /\ posted' = posted \ {p} /\ finished' = done /\ p.served
      /\ desk' = IF alert THEN NoDesk ELSE Placed(held, done)
      /\ heardHere' = heardHere \cup p.ruled /\ heardEver' = heardEver \cup p.ruled
      /\ UNCHANGED <<pool, held, asking, alert, spent, broken>>
  BY DEF PostHeard
<1>2. /\ p.ruled \subseteq Boxes /\ Ruled(p.ruled) /\ done \in SUBSET Boxes
      /\ held \in DeskBatches /\ \A b \in held.boxes : b[1] \in held.frames
  BY <1>1 DEF DeskInv, DeskTypeOK, PostedOK, HeldOK
<1>3. /\ Placed(held, done) \in [image : {0} \cup Images, boxes : SUBSET Boxes, staged : SUBSET Boxes]
      /\ Placed(held, done).staged \subseteq Placed(held, done).boxes
      /\ Placed(held, done).boxes \subseteq held.boxes \ done
      /\ Placed(held, done).boxes = {} => Placed(held, done) = NoDesk /\ held.boxes \subseteq done
      /\ Placed(held, done).boxes # {} => Placed(held, done).image \in Images
  BY <1>2, PlacedIs DEF DeskInv
<1>4. NoDesk \in [image : {0} \cup Images, boxes : SUBSET Boxes, staged : SUBSET Boxes]
      /\ NoDesk.staged \subseteq NoDesk.boxes
  BY DEF NoDesk
<1>5. DeskTypeOK'
  <2>1. /\ desk' \in [image : {0} \cup Images, boxes : SUBSET Boxes, staged : SUBSET Boxes]
        /\ desk'.staged \subseteq desk'.boxes
    BY <1>1, <1>3, <1>4
  <2> QED BY <1>1, <1>2, <2>1 DEF DeskInv, DeskTypeOK
<1>6. PoolInv'
  BY <1>1 DEF DeskInv, PoolInv, PoolTypeOK, CounterExact, Stamped, WaitsForAdmin, On, AdminRuled, pool
<1>7. HeldOK' /\ AskingOK'
  BY <1>1 DEF DeskInv, HeldOK, AskingOK, Counted, AdminRuled, pool
<1>8. Ruled(heardEver)' /\ Ruled(finished)' /\ PostedOK'
  BY <1>1, <1>2 DEF DeskInv, Ruled, AdminRuled, PostedOK, pool
<1>9. CardOK'
  <2>1. CASE alert
    BY <1>1, <2>1 DEF CardOK
  <2>2. CASE ~alert
    BY <1>1, <1>3, <2>2 DEF CardOK
  <2> QED BY <2>1, <2>2
<1>10. HeardOK'
  BY <1>1 DEF DeskInv, HeardOK
<1> QED BY <1>5, <1>6, <1>7, <1>8, <1>9, <1>10 DEF DeskInv

\* The screen is mounted anew.
LEMMA RemountKeeps ==
  ASSUME DeskInv, Remount
  PROVE  DeskInv'
<1> DEFINE placed == Placed(held, {})
           anew == [placed EXCEPT !.staged = {}]
<1>1. /\ finished' = {} /\ spent' = {} /\ broken' = {} /\ heardHere' = {}
      /\ desk' = IF alert THEN NoDesk ELSE anew
      /\ posted' = {[p EXCEPT !.heard = FALSE] : p \in posted}
      /\ asking' = (IF asking.why = "next" THEN [asking EXCEPT !.why = "refresh"] ELSE asking)
      /\ UNCHANGED <<pool, held, alert, heardEver>>
  BY Zenon DEF Remount
<1>2. held \in DeskBatches /\ \A b \in held.boxes : b[1] \in held.frames
  BY DEF DeskInv, DeskTypeOK, HeldOK
<1>3. /\ placed \in [image : {0} \cup Images, boxes : SUBSET Boxes, staged : SUBSET Boxes]
      /\ placed.boxes \subseteq held.boxes
      /\ placed.boxes = {} => placed = NoDesk /\ held.boxes = {}
      /\ placed.boxes # {} => placed.image \in Images
  BY <1>2, PlacedIs DEF DeskInv
<1> HIDE DEF placed
<1>4. /\ anew \in [image : {0} \cup Images, boxes : SUBSET Boxes, staged : SUBSET Boxes]
      /\ anew.staged \subseteq anew.boxes /\ anew.boxes = placed.boxes /\ anew.image = placed.image
      /\ placed = NoDesk => anew = NoDesk
  BY <1>3 DEF NoDesk
<1> HIDE DEF anew
<1>5. NoDesk \in [image : {0} \cup Images, boxes : SUBSET Boxes, staged : SUBSET Boxes]
      /\ NoDesk.staged \subseteq NoDesk.boxes
  BY DEF NoDesk
<1>6. /\ asking' \in [why : {"none", "first", "next", "refresh"},
                      stage : {"none", "frames", "boxes"}, batch : DeskBatches]
      /\ asking'.stage = asking.stage /\ asking'.batch = asking.batch
  BY <1>1 DEF DeskInv, DeskTypeOK
<1>7. /\ posted' \subseteq [image : Images, ruled : SUBSET Boxes, served : BOOLEAN, heard : BOOLEAN]
      /\ \A q \in posted' : \E p \in posted : q.served = p.served /\ q.ruled = p.ruled
  <2> SUFFICES ASSUME NEW q \in posted'
               PROVE  /\ q \in [image : Images, ruled : SUBSET Boxes, served : BOOLEAN, heard : BOOLEAN]
                      /\ \E p \in posted : q.served = p.served /\ q.ruled = p.ruled
    OBVIOUS
  <2>1. PICK p \in posted : q = [p EXCEPT !.heard = FALSE]
    BY <1>1
  <2>2. p \in [image : Images, ruled : SUBSET Boxes, served : BOOLEAN, heard : BOOLEAN]
    BY DEF DeskInv, DeskTypeOK
  <2> QED BY <2>1, <2>2
<1>8. /\ desk' \in [image : {0} \cup Images, boxes : SUBSET Boxes, staged : SUBSET Boxes]
      /\ desk'.staged \subseteq desk'.boxes
  BY <1>1, <1>4, <1>5
<1>9. DeskTypeOK'
  BY <1>1, <1>6, <1>7, <1>8 DEF DeskInv, DeskTypeOK
<1>10. PoolInv'
  BY <1>1 DEF DeskInv, PoolInv, PoolTypeOK, CounterExact, Stamped, WaitsForAdmin, On, AdminRuled, pool
<1>11. HeldOK'
  BY <1>1 DEF DeskInv, HeldOK, Counted, AdminRuled, pool
<1>12. AskingOK'
  BY <1>1, <1>6 DEF DeskInv, AskingOK, Counted, pool
<1>13. Ruled(heardEver)' /\ Ruled(finished)' /\ PostedOK'
  BY <1>1, <1>7 DEF DeskInv, Ruled, AdminRuled, PostedOK, pool
<1>14. CardOK'
  <2>1. CASE alert
    BY <1>1, <2>1 DEF CardOK
  <2>2. CASE ~alert
    BY <1>1, <1>3, <1>4, <2>2 DEF CardOK
  <2> QED BY <2>1, <2>2
<1>15. HeardOK'
  BY <1>1 DEF HeardOK
<1> QED BY <1>9, <1>10, <1>11, <1>12, <1>13, <1>14, <1>15 DEF DeskInv

\* The endpoint serves a submission.
LEMMA PostServedKeeps ==
  ASSUME DeskInv, NEW p \in posted, PostServed(p)
  PROVE  DeskInv'
<1> DEFINE served == [p EXCEPT !.served = TRUE]
<1>1. /\ AdminSubmits(p.image, p.ruled) /\ posted' = (posted \ {p}) \cup {served}
      /\ UNCHANGED <<held, asking, alert, finished, spent, broken, desk, heardHere, heardEver>>
  BY Zenon DEF PostServed
<1>2. p \in [image : Images, ruled : SUBSET Boxes, served : BOOLEAN, heard : BOOLEAN]
      /\ posted \subseteq [image : Images, ruled : SUBSET Boxes, served : BOOLEAN, heard : BOOLEAN]
  BY DEF DeskInv, DeskTypeOK
<1>3. served \in [image : Images, ruled : SUBSET Boxes, served : BOOLEAN, heard : BOOLEAN]
      /\ served.ruled = p.ruled
  BY <1>2
<1> HIDE DEF served
<1>4. PoolInv'
  BY <1>1, <1>2, AdminKeeps DEF DeskInv
<1>5. boxes' = boxes /\ verdicts' = verdicts \cup (p.ruled \X {Admin})
  BY <1>1 DEF AdminSubmits, Insert
<1>6. PostedOK'
  BY <1>1, <1>3, <1>5 DEF DeskInv, PostedOK, Ruled, AdminRuled
<1> QED BY <1>1, <1>2, <1>3, <1>4, <1>5, <1>6, TablesMove

\* The detector reports and other administrators rule.
LEMMA DeskElsewhereKeeps ==
  ASSUME DeskInv, DeskElsewhere
  PROVE  DeskInv'
<1>1. UNCHANGED <<held, asking, alert, finished, spent, broken, desk, posted, heardHere, heardEver>>
  BY DEF DeskElsewhere, deskScreen
<1>2. PoolInv' /\ boxes \subseteq boxes' /\ verdicts \subseteq verdicts'
  <2>1. ASSUME NEW found \in SUBSET (Boxes \ boxes), found # {},
               Report({b[1] : b \in found}, found, "random")
        PROVE  PoolInv' /\ boxes \subseteq boxes' /\ verdicts \subseteq verdicts'
    <3> DEFINE sampled == {b[1] : b \in found}
    <3>1. sampled \in SUBSET Images /\ sampled # {}
      BY <2>1, PoolAssumption
    <3>2. found \in SUBSET {b \in Boxes \ boxes : b[1] \in sampled} /\ "random" \in Reasons
      BY DEF Reasons
    <3> HIDE DEF sampled
    <3>3. ReportSome
      BY <2>1, <3>1, <3>2 DEF ReportSome, sampled
    <3> QED BY <2>1, <3>3, ReportKeeps DEF DeskInv, Report
  <2>2. ASSUME NEW image \in Images, NEW ruled \in SUBSET boxes, AdminSubmits(image, ruled)
        PROVE  PoolInv' /\ boxes \subseteq boxes' /\ verdicts \subseteq verdicts'
    BY <2>2, AdminKeeps DEF DeskInv, AdminSubmits, Insert
  <2> QED BY <2>1, <2>2 DEF DeskElsewhere
<1>3. PostedOK'
  BY <1>1, <1>2 DEF DeskInv, PostedOK, Ruled, AdminRuled
<1> QED BY <1>1, <1>2, <1>3, TablesMove DEF DeskInv, DeskTypeOK

\* The walk's invariant.
THEOREM DeskInvariant == DeskSpec => []DeskInv
<1>1. DeskInit => DeskInv
  <2> SUFFICES ASSUME PoolInit, MountInit PROVE DeskInv
    BY DEF DeskInit
  <2>1. PoolInv
    <3>1. \A i \in Images : WaitsForAdmin(i) = {}
      BY DEF PoolInit, WaitsForAdmin, On
    <3>2. CounterExact
      BY <3>1, FS_EmptySet DEF PoolInit, CounterExact
    <3> QED BY <3>2 DEF PoolInv, PoolInit, PoolTypeOK, Stamped
  <2>2. NoBatch \in DeskBatches /\ NoBatch.boxes = {} /\ NoBatch.owed = {}
    BY DEF NoBatch, DeskBatches
  <2>3. NoDesk \in [image : {0} \cup Images, boxes : SUBSET Boxes, staged : SUBSET Boxes]
        /\ NoDesk.staged = {} /\ NoDesk.boxes = {}
    BY DEF NoDesk
  <2>4. DeskTypeOK
    BY <2>2, <2>3, AskIs DEF MountInit, DeskTypeOK
  <2> QED BY <2>1, <2>2, <2>3, <2>4, AskIs DEF MountInit, DeskInv, HeldOK, AskingOK, CardOK, HeardOK,
          PostedOK, Counted, Ruled
<1>2. DeskInv /\ [DeskNext]_deskVars => DeskInv'
  <2> SUFFICES ASSUME DeskInv, [DeskNext]_deskVars PROVE DeskInv'
    OBVIOUS
  <2>1. CASE UNCHANGED deskVars
    <3>1. PoolInv'
      BY <2>1 DEF DeskInv, PoolInv, PoolTypeOK, CounterExact, Stamped, WaitsForAdmin, On, AdminRuled,
         deskVars, pool
    <3>2. PostedOK'
      BY <2>1 DEF DeskInv, PostedOK, Ruled, AdminRuled, deskVars, deskScreen, pool
    <3> QED BY <2>1, <3>1, <3>2, TablesMove DEF DeskInv, DeskTypeOK, deskVars, deskScreen, pool
  <2>2. CASE DeskElsewhere \/ ReadFrames \/ ReadFrameBoxes \/ AskFails \/ Remount
    BY <2>2, DeskElsewhereKeeps, ReadFramesKeeps, ReadFrameBoxesKeeps, AskFailsKeeps, RemountKeeps
  <2>3. CASE AskFirst \/ NextBatch \/ ImageFails
    BY <2>3, AskingKeeps
  <2>4. CASE \/ RejectWholeFrame \/ SubmitRulings
             \/ \E b \in desk.boxes : StageBox(b)
             \/ \E p \in posted : PostLost(p)
    BY <2>4, ScreenKeeps
  <2>5. ASSUME NEW p \in posted, PostServed(p) \/ PostHeard(p)
        PROVE  DeskInv'
    BY <2>5, PostServedKeeps, PostHeardKeeps
  <2> QED BY <2>1, <2>2, <2>3, <2>4, <2>5 DEF DeskNext
<1> QED BY <1>1, <1>2, PTL DEF DeskSpec

\* The batch, the fetch and the posts of the administrator's screen keep their
\* types, beside those of the pool.
THEOREM DeskTypeCorrect == DeskSpec => [](PoolTypeOK /\ DeskTypeOK)
<1>1. DeskInv => PoolTypeOK /\ DeskTypeOK
  BY DEF DeskInv, PoolInv
<1> QED BY <1>1, DeskInvariant, PTL

\* No mount of the screen shows a box that it heard accepted.
THEOREM AskedOnlyOnce == DeskSpec => []AskedOnce
<1>1. DeskInv => AskedOnce
  BY DEF DeskInv, CardOK, HeardOK, AskedOnce, NoDesk
<1> QED BY <1>1, DeskInvariant, PTL

\* "Nothing left to verify" is said only of batches that are ruled on whole.
THEOREM NothingLeftStands == DeskSpec => []NothingLeftIsTrue
<1>1. DeskInv => NothingLeftIsTrue
  <2> SUFFICES ASSUME DeskInv, NothingLeft, NEW b \in held.owed PROVE AdminRuled(b)
    BY DEF NothingLeftIsTrue
  <2>1. held.boxes \subseteq finished /\ held \in DeskBatches
    BY DEF DeskInv, CardOK, NothingLeft, DeskTypeOK, NoDesk
  <2>2. RemainingFrames(held, finished) = {}
    BY <2>1 DEF RemainingFrames, On
  <2>3. Cardinality(RemainingFrames(held, finished)) = 0
    BY <2>2, FS_EmptySet
  <2>4. IsFiniteSet(held.frames)
    BY <2>1, PoolAssumption, FS_Subset DEF DeskBatches
  <2>5. Cardinality(held.frames) \in Nat /\ held.remaining \in Nat \cup {-1}
    BY <2>1, <2>4, FS_CardinalityType DEF DeskBatches
  <2>6. held.remaining <= Cardinality(held.frames)
    BY <2>3, <2>5 DEF NothingLeft, StillWaiting
  <2>7. b[1] \in held.frames
    BY <2>5, <2>6 DEF DeskInv, HeldOK, Counted
  <2>8. b \in finished \/ AdminRuled(b)
    BY <2>1, <2>7 DEF DeskInv, HeldOK
  <2> QED BY <2>8 DEF DeskInv, Ruled
<1> QED BY <1>1, DeskInvariant, PTL

-----------------------------------------------------------------------------
(* The contributor's walk.                                                 *)

\* A frame that has been stamped for training, which no later stamp undoes.
Train(i) == selection[i] \notin {"none", "random"}

TrainPages(ps) == \A n \in DOMAIN ps : \A i \in ps[n].images : Train(i)

\* Whatever the contributor's screen holds, asks for or sends is of frames for
\* training.
WalkOfTrain ==
  /\ TrainPages(pages) /\ TrainPages(fetch.got) /\ \A i \in fetch.found : Train(i)
  /\ card.image # 0 => Train(card.image)
  /\ card.image = 0 => card.boxes = {}
  /\ \A s \in sent : Train(s.image)

WalkInv == PoolInv /\ TypeOK /\ WalkOfTrain /\ EvalNeverRuled

Fetches == [kind : {"none", "next", "all"}, stage : {"none", "page", "wrap", "boxes"},
            cursor : {0} \cup Images, found : SUBSET Images, got : Seq(Page)]
Cards == [image : {0} \cup Images, boxes : SUBSET Boxes, staged : SUBSET Boxes]

\* Frames that are not none have a greatest, which is their Max: one with as
\* few above it as any has none.
LEMMA GreatestIs ==
  ASSUME NEW T \in SUBSET Images, T # {}
  PROVE  Max(T) \in T /\ \A i \in T : i <= Max(T)
<1> DEFINE Above(i) == {j \in T : j > i}
           numbers == {Cardinality(Above(i)) : i \in T}
<1>1. T \in SUBSET Nat /\ IsFiniteSet(T)
  BY PoolAssumption, FS_Subset
<1>2. \A i \in T : Above(i) \in SUBSET T /\ IsFiniteSet(Above(i)) /\ Cardinality(Above(i)) \in Nat
  BY <1>1, FS_Subset, FS_CardinalityType
<1>3. numbers \in SUBSET Nat /\ numbers # {}
  BY <1>2
<1>4. PICK i \in T : \A j \in T : Cardinality(Above(i)) <= Cardinality(Above(j))
  <2>1. Min(numbers) \in numbers /\ \A y \in numbers : Min(numbers) <= y
    <3> HIDE DEF numbers
    <3> QED BY <1>3, LeastIs
  <2> QED BY <2>1
<1>5. ASSUME NEW j \in T, j > i
      PROVE  FALSE
  <2>0. i \in Nat /\ j \in Nat /\ \A k \in T : k \in Nat
    BY <1>1
  <2>1. Above(j) \in SUBSET Above(i) /\ j \in Above(i) /\ j \notin Above(j)
    <3>1. \A k \in T : k > j => k > i
      BY <1>5, <2>0
    <3>2. ~(j > j)
      BY <2>0
    <3> QED BY <1>5, <3>1, <3>2
  <2>2. Cardinality(Above(j)) <= Cardinality(Above(i))
        /\ (Cardinality(Above(i)) = Cardinality(Above(j)) => Above(i) = Above(j))
    <3> HIDE DEF Above
    <3> QED BY <1>2, <2>1, FS_Subset
  <2> HIDE DEF Above
  <2> QED BY <1>2, <1>4, <2>1, <2>2
<1>6. \A j \in T : i >= j
  BY <1>1, <1>5
<1>7. Max(T) \in T /\ \A j \in T : Max(T) >= j
  BY <1>6, Zenon DEF Max
<1> QED BY <1>1, <1>7

\* What is mounted is a frame of a page that is held.
LEMMA MountedIs ==
  ASSUME WalkInv, NEW ps \in Seq(Page), TrainPages(ps), NEW ix
  PROVE  /\ Mounted(ps, ix) \in Cards
         /\ Mounted(ps, ix).staged \subseteq Mounted(ps, ix).boxes
         /\ Mounted(ps, ix).image # 0 => Train(Mounted(ps, ix).image)
         /\ Mounted(ps, ix).image = 0 => Mounted(ps, ix).boxes = {}
<1> DEFINE at == CHOOSE at \in Place(ps, ix) : TRUE
<1>0. card \in Cards /\ card.staged \subseteq card.boxes
  BY DEF WalkInv, TypeOK, Cards
<1>1. CASE Place(ps, ix) = {}
  <2>1. Mounted(ps, ix) = NoCard
    BY <1>1 DEF Mounted
  <2> QED BY <2>1 DEF NoCard, Cards
<1>2. CASE Place(ps, ix) # {}
  <2>1. at \in Walk(ps)
    BY <1>2 DEF Place
  <2> HIDE DEF at
  <2>2. PICK n \in DOMAIN ps : at \in {n} \X Unseen(ps, n)
    BY <2>1 DEF Walk
  <2>3. at[1] = n /\ at[2] \in ps[n].images
    BY <2>2 DEF Unseen
  <2>4. ps[n] \in Page
    BY <2>2
  <2>5. at[2] \in Images /\ Train(at[2]) /\ at[2] # 0
    BY <2>2, <2>3, <2>4, PoolAssumption DEF Page, TrainPages
  <2>6. On(at[2], ps[n].boxes) \in SUBSET Boxes
    BY <2>4 DEF Page, On
  <2>7. Mounted(ps, ix) = IF at[2] = card.image THEN card ELSE Fresh(ps, at)
    BY <1>2 DEF Mounted, at
  <2>8. CASE at[2] = card.image
    BY <1>0, <2>5, <2>7, <2>8
  <2>9. CASE at[2] # card.image
    <3>1. Mounted(ps, ix) = [image |-> at[2], boxes |-> On(at[2], ps[n].boxes), staged |-> {}]
      BY <2>3, <2>7, <2>9 DEF Fresh
    <3> QED BY <2>5, <2>6, <3>1 DEF Cards
  <2> QED BY <2>8, <2>9
<1> QED BY <1>1, <1>2

\* The parts of the invariant after a step that leaves the tables alone.
LEMMA ScreenSteps ==
  ASSUME WalkInv, UNCHANGED pool,
         pages' \in Seq(Page), index' \in Nat \ {0}, fetch' \in Fetches,
         card' \in Cards, card'.staged \subseteq card'.boxes,
         sent' \subseteq [image : Images, ruled : SUBSET Boxes, served : BOOLEAN],
         Cardinality(sent') <= 1, refreshed' \subseteq Images, owed' \subseteq Boxes,
         TrainPages(pages'), TrainPages(fetch'.got), \A i \in fetch'.found : Train(i),
         card'.image # 0 => Train(card'.image), card'.image = 0 => card'.boxes = {},
         \A s \in sent' : Train(s.image)
  PROVE  WalkInv'
<1>1. PoolInv'
  BY DEF WalkInv, PoolInv, PoolTypeOK, CounterExact, Stamped, WaitsForAdmin, On, AdminRuled, pool
<1>2. TypeOK'
  BY <1>1 DEF PoolInv, TypeOK, Fetches, Cards
<1>3. selection' = selection /\ EvalNeverRuled'
  BY DEF WalkInv, EvalNeverRuled, InTrain, pool
<1>4. WalkOfTrain'
  BY <1>3 DEF WalkOfTrain, TrainPages, Train
<1> QED BY <1>1, <1>2, <1>3, <1>4 DEF WalkInv

\* The parts of the invariant.
LEMMA WalkParts ==
  ASSUME WalkInv
  PROVE  /\ pages \in Seq(Page) /\ index \in Nat \ {0} /\ fetch \in Fetches
         /\ card \in Cards /\ card.staged \subseteq card.boxes
         /\ sent \subseteq [image : Images, ruled : SUBSET Boxes, served : BOOLEAN]
         /\ Cardinality(sent) <= 1 /\ refreshed \subseteq Images /\ owed \subseteq Boxes
         /\ TrainPages(pages) /\ TrainPages(fetch.got) /\ \A i \in fetch.found : Train(i)
         /\ (card.image # 0 => Train(card.image)) /\ (card.image = 0 => card.boxes = {})
         /\ \A s \in sent : Train(s.image)
         /\ boxes \subseteq Boxes
BY DEF WalkInv, TypeOK, Fetches, Cards, WalkOfTrain, PoolInv, PoolTypeOK

\* A fetch that begins has found nothing.
LEMMA FetchOfIs ==
  ASSUME NEW kind \in {"next", "all"}, NEW cursor \in {0} \cup Images,
         NEW got \in Seq(Page), TrainPages(got)
  PROVE  /\ FetchOf(kind, cursor, got) \in Fetches /\ NoPage \in Fetches
         /\ TrainPages(FetchOf(kind, cursor, got).got) /\ TrainPages(NoPage.got)
         /\ FetchOf(kind, cursor, got).found = {} /\ NoPage.found = {}
<1>1. <<>> \in Seq(Page) /\ DOMAIN <<>> = {}
  BY EmptySeq
<1> QED BY <1>1 DEF FetchOf, NoPage, Fetches, TrainPages

\* A page put at the end of others.
LEMMA PageAppended ==
  ASSUME NEW ps \in Seq(Page), TrainPages(ps), NEW page \in Page, \A i \in page.images : Train(i)
  PROVE  Append(ps, page) \in Seq(Page) /\ TrainPages(Append(ps, page))
<1>1. /\ Append(ps, page) \in Seq(Page) /\ Len(ps) \in Nat /\ DOMAIN ps = 1 .. Len(ps)
      /\ DOMAIN Append(ps, page) = 1 .. Len(ps) + 1
      /\ \A n \in 1 .. Len(ps) : Append(ps, page)[n] = ps[n]
      /\ Append(ps, page)[Len(ps) + 1] = page
  BY AppendProperties, LenProperties
<1>2. \A n \in 1 .. Len(ps) + 1 : n \in 1 .. Len(ps) \/ n = Len(ps) + 1
  BY <1>1
<1> QED BY <1>1, <1>2 DEF TrainPages

\* A page is answered, of frames for training.
LEMMA FetchedKeeps ==
  ASSUME WalkInv, NEW ids \in SUBSET Images, \A i \in ids : Train(i), NEW bs \in SUBSET Boxes,
         Fetched(ids, bs), UNCHANGED <<pool, sent, refreshed, owed>>
  PROVE  WalkInv'
<1> DEFINE wrapped == {i \in ids : fetch.cursor # 0 /\ i <= fetch.cursor}
           last == IF ids = {} THEN 0 ELSE Max(IF wrapped = {} THEN ids ELSE wrapped)
           page == [images |-> ids, wrapped |-> wrapped, boxes |-> {b \in bs : b[1] \in ids},
                    next |-> last]
           got == Append(fetch.got, page)
<1>1. last \in {0} \cup Images
  <2>1. CASE ids = {}
    BY <2>1
  <2>2. CASE ids # {} /\ wrapped = {}
    BY <2>2, GreatestIs
  <2>3. CASE ids # {} /\ wrapped # {}
    <3>1. wrapped \in SUBSET Images
      OBVIOUS
    <3>2. Max(wrapped) \in wrapped
      <4> HIDE DEF wrapped
      <4> QED BY <2>3, <3>1, GreatestIs
    <3> QED BY <2>3, <3>1, <3>2
  <2> QED BY <2>1, <2>2, <2>3
<1> HIDE DEF last
<1>2. page \in Page /\ page.images = ids /\ page.next = last
  BY <1>1 DEF Page
<1>3. \/ fetch' = NoPage /\ Show(Append(pages, page), index)
      \/ fetch' = FetchOf("all", page.next, got) /\ UNCHANGED <<pages, index, card>>
      \/ fetch' = NoPage /\ Show(got, index)
  BY DEF Fetched, last
<1> HIDE DEF page
<1>4. /\ Append(pages, page) \in Seq(Page) /\ TrainPages(Append(pages, page))
      /\ got \in Seq(Page) /\ TrainPages(got)
  BY <1>2, WalkParts, PageAppended DEF Fetches
<1> HIDE DEF got
<1>5. ASSUME NEW ps \in Seq(Page), TrainPages(ps), fetch' = NoPage, Show(ps, index)
      PROVE  WalkInv'
  <2>1. pages' = ps /\ index' = index /\ card' = Mounted(ps, index)
    BY <1>5 DEF Show
  <2>2. NoPage \in Fetches /\ TrainPages(NoPage.got) /\ NoPage.found = {}
    BY <1>4, FetchOfIs
  <2> QED BY <1>5, <2>1, <2>2, WalkParts, MountedIs, ScreenSteps
<1>6. CASE fetch' = FetchOf("all", page.next, got) /\ UNCHANGED <<pages, index, card>>
  <2>1. /\ fetch' \in Fetches /\ TrainPages(fetch'.got) /\ fetch'.found = {}
    BY <1>1, <1>2, <1>4, <1>6, FetchOfIs
  <2> QED BY <1>6, <2>1, WalkParts, ScreenSteps
<1> QED BY <1>3, <1>4, <1>5, <1>6

\* The pool is of frames for training: a frame with a box has been stamped.
LEMMA PoolIsTrain ==
  ASSUME WalkInv
  PROVE  ContributorPool \subseteq Images /\ \A i \in ContributorPool : Train(i)
BY DEF WalkInv, PoolInv, Stamped, ContributorPool, InTrain, On, Train

\* The endpoint reads.
LEMMA FetchingKeeps ==
  ASSUME WalkInv, Fetching
  PROVE  WalkInv'
<1>1. ASSUME NEW ids \in SUBSET Images, \A i \in ids : Train(i), NEW stage \in {"wrap", "boxes"},
             fetch' = [fetch EXCEPT !.stage = stage, !.found = ids],
             UNCHANGED <<pages, index, card, pool, sent, refreshed, owed>>
      PROVE  WalkInv'
  <2>1. fetch \in Fetches
    BY WalkParts
  <2>2. fetch' \in Fetches /\ fetch'.got = fetch.got /\ fetch'.found = ids
    BY <1>1, <2>1 DEF Fetches
  <2> QED BY <1>1, <2>2, WalkParts, ScreenSteps
<1>2. CASE ReadPage
  <2> DEFINE ids == Lowest({i \in ContributorPool : i > fetch.cursor}, BatchSize)
  <2>1. ids \in SUBSET Images /\ \A i \in ids : Train(i)
    BY PoolIsTrain DEF Lowest
  <2>2. \/ fetch' = [fetch EXCEPT !.stage = "wrap", !.found = ids] /\ UNCHANGED <<pages, index, card>>
        \/ Fetched({}, {})
        \/ fetch' = [fetch EXCEPT !.stage = "boxes", !.found = ids] /\ UNCHANGED <<pages, index, card>>
    BY <1>2, Zenon DEF ReadPage
  <2>3. UNCHANGED <<pool, sent, refreshed, owed>>
    BY <1>2 DEF ReadPage
  <2> HIDE DEF ids
  <2> QED BY <1>1, <2>1, <2>2, <2>3, FetchedKeeps
<1>3. CASE ReadWrap
  <2> DEFINE ids == fetch.found \cup Lowest(WrapPool, BatchSize - Cardinality(fetch.found))
  <2>1. ids \in SUBSET Images /\ \A i \in ids : Train(i)
    <3>1. fetch.found \subseteq Images /\ \A i \in fetch.found : Train(i)
      BY WalkParts DEF Fetches
    <3> QED BY <3>1, PoolIsTrain DEF Lowest, WrapPool
  <2>2. \/ Fetched({}, {})
        \/ fetch' = [fetch EXCEPT !.stage = "boxes", !.found = ids] /\ UNCHANGED <<pages, index, card>>
    BY <1>3, Zenon DEF ReadWrap
  <2>3. UNCHANGED <<pool, sent, refreshed, owed>>
    BY <1>3 DEF ReadWrap
  <2> HIDE DEF ids
  <2> QED BY <1>1, <2>1, <2>2, <2>3, FetchedKeeps
<1>4. CASE ReadBoxes
  <2>1. fetch.found \in SUBSET Images /\ \A i \in fetch.found : Train(i)
    BY WalkParts DEF Fetches
  <2>2. {b \in boxes : ~Settled(b)} \in SUBSET Boxes
    BY WalkParts
  <2>3. Fetched(fetch.found, {b \in boxes : ~Settled(b)}) /\ UNCHANGED <<pool, sent, refreshed, owed>>
    BY <1>4 DEF ReadBoxes
  <2> QED BY <2>1, <2>2, <2>3, FetchedKeeps
<1> QED BY <1>2, <1>3, <1>4 DEF Fetching

\* A set of at most one submission.
LEMMA AtMostOne ==
  ASSUME NEW s
  PROVE  Cardinality({}) <= 1 /\ Cardinality({s}) <= 1
<1>1. Cardinality({}) = 0
  BY FS_EmptySet
<1>2. Cardinality({s}) = 1
  BY FS_Singleton
<1> QED BY <1>1, <1>2

\* A fetch is asked for.
LEMMA AsksKeep ==
  ASSUME WalkInv, Open \/ FetchMore \/ ImageError \/ StartOver
  PROVE  WalkInv'
<1>0. <<>> \in Seq(Page) /\ TrainPages(<<>>)
  BY EmptySeq DEF TrainPages
<1>1. CASE Open \/ ImageError
  <2>1. fetch' = FetchOf("all", 0, <<>>) /\ UNCHANGED <<pool, pages, index, card, sent>>
    BY <1>1 DEF Open, ImageError
  <2>2. owed' \subseteq Boxes
    BY <1>1, WalkParts DEF Open, ImageError, Waiting
  <2>3. refreshed' \subseteq Images
    <3>1. card.image # 0 => card.image \in Images
      BY WalkParts DEF Cards
    <3> QED BY <1>1, <3>1, WalkParts DEF Open, ImageError
  <2>4. fetch' \in Fetches /\ TrainPages(fetch'.got) /\ fetch'.found = {}
    BY <1>0, <2>1, FetchOfIs
  <2> QED BY <2>1, <2>2, <2>3, <2>4, WalkParts, ScreenSteps
<1>2. CASE FetchMore
  <2>1. /\ fetch' = FetchOf("next", pages[Len(pages)].next, <<>>) /\ pages # <<>>
        /\ UNCHANGED <<pool, pages, index, card, sent, refreshed, owed>>
    BY <1>2 DEF FetchMore
  <2>2. pages[Len(pages)] \in Page
    <3>1. Len(pages) \in 1 .. Len(pages)
      BY <2>1, WalkParts, EmptySeq, LenProperties
    <3> QED BY <3>1, WalkParts, ElementOfSeq
  <2>3. fetch' \in Fetches /\ TrainPages(fetch'.got) /\ fetch'.found = {}
    <3>1. pages[Len(pages)].next \in {0} \cup Images
      BY <2>2 DEF Page
    <3> QED BY <1>0, <2>1, <3>1, FetchOfIs
  <2> QED BY <2>1, <2>3, WalkParts, ScreenSteps
<1>3. CASE StartOver
  <2>1. /\ fetch' = FetchOf("all", 0, <<>>) /\ Show(<<>>, 1) /\ refreshed' = {} /\ owed' = Waiting
        /\ UNCHANGED <<pool, sent>>
    BY <1>3 DEF StartOver
  <2>2. pages' = <<>> /\ index' = 1 /\ card' = Mounted(<<>>, 1)
    BY <2>1 DEF Show
  <2>3. /\ card' \in Cards /\ card'.staged \subseteq card'.boxes
        /\ card'.image # 0 => Train(card'.image)
        /\ card'.image = 0 => card'.boxes = {}
    BY <1>0, <2>2, MountedIs
  <2>4. fetch' \in Fetches /\ TrainPages(fetch'.got) /\ fetch'.found = {}
    BY <1>0, <2>1, FetchOfIs
  <2>5. owed' \subseteq Boxes /\ pages' \in Seq(Page) /\ TrainPages(pages')
    BY <1>0, <2>1, <2>2, WalkParts DEF Waiting
  <2> QED BY <2>1, <2>2, <2>3, <2>4, <2>5, WalkParts, ScreenSteps
<1> QED BY <1>1, <1>2, <1>3

\* The box that is ruled on next is one of those left.
LEMMA LowermostIs ==
  ASSUME NEW S \in SUBSET Boxes, S # {}
  PROVE  Lowermost(S) \in S
<1> DEFINE numbers == {b[2] : b \in S}
<1>1. \A b \in S : b[2] \in Nat
  BY PoolAssumption
<1>2. Min(numbers) \in numbers /\ \A x \in numbers : Min(numbers) <= x
  <2>1. numbers \in SUBSET Nat /\ numbers # {}
    BY <1>1
  <2> HIDE DEF numbers
  <2> QED BY <2>1, LeastIs
<1>3. PICK b \in S : Min(numbers) = b[2]
  BY <1>2
<1>4. \A d \in S : b[2] <= d[2]
  BY <1>2, <1>3
<1> QED BY <1>4 DEF Lowermost

\* The contributor rules, takes back, and hears of what was sent.
LEMMA RulingKeeps ==
  ASSUME WalkInv,
         \/ Rule \/ \E b \in card.staged : Unstage(b)
         \/ \E s \in sent : Advance(s) \/ SubmitFails(s)
  PROVE  WalkInv'
<1>1. card \in Cards /\ card.staged \subseteq card.boxes /\ card.boxes \subseteq Boxes
  BY WalkParts DEF Cards
<1>2. ASSUME NEW staged \in SUBSET card.boxes, card' = [card EXCEPT !.staged = staged]
      PROVE  /\ card' \in Cards /\ card'.staged \subseteq card'.boxes
             /\ card'.image = card.image /\ card'.boxes = card.boxes
  BY <1>1, <1>2 DEF Cards
<1>3. CASE Rule
  <2> DEFINE left == card.boxes \ card.staged
             staged == card.staged \cup {Lowermost(left)}
             new == [image |-> card.image, ruled |-> card.boxes, served |-> FALSE]
  <2>1. /\ left # {} /\ card' = [card EXCEPT !.staged = staged] /\ sent' \in {{}, {new}}
        /\ UNCHANGED <<pool, pages, fetch, index, refreshed, owed>>
    BY <1>3, Zenon DEF Rule
  <2>2. left \in SUBSET Boxes
    BY <1>1
  <2>3. Lowermost(left) \in left
    <3> HIDE DEF left
    <3> QED BY <2>1, <2>2, LowermostIs
  <2>4. staged \in SUBSET card.boxes
    BY <1>1, <2>3
  <2>5. card.image \in Images /\ Train(card.image)
    BY <2>1, WalkParts DEF Cards
  <2>6. new \in [image : Images, ruled : SUBSET Boxes, served : BOOLEAN] /\ new.image = card.image
    BY <1>1, <2>5
  <2>7. Cardinality(sent') <= 1
    <3> HIDE DEF new
    <3> QED BY <2>1, AtMostOne
  <2>8. /\ sent' \subseteq [image : Images, ruled : SUBSET Boxes, served : BOOLEAN]
        /\ \A s \in sent' : Train(s.image)
    <3> HIDE DEF new
    <3> QED BY <2>1, <2>5, <2>6
  <2> HIDE DEF staged, left, new
  <2> QED BY <1>2, <2>1, <2>4, <2>7, <2>8, WalkParts, ScreenSteps
<1>4. ASSUME NEW b \in card.staged, Unstage(b)
      PROVE  WalkInv'
  <2> DEFINE staged == card.staged \ {b}
  <2>1. /\ card' = [card EXCEPT !.staged = staged]
        /\ UNCHANGED <<pool, pages, fetch, index, sent, refreshed, owed>>
    BY <1>4, Zenon DEF Unstage
  <2>2. staged \in SUBSET card.boxes
    BY <1>1
  <2> HIDE DEF staged
  <2> QED BY <1>2, <2>1, <2>2, WalkParts, ScreenSteps
<1>5. ASSUME NEW s \in sent, Advance(s)
      PROVE  WalkInv'
  <2>1. /\ pages' = pages /\ index' = index + 1 /\ card' = Mounted(pages, index + 1)
        /\ sent' = {} /\ UNCHANGED <<pool, fetch, refreshed, owed>>
    BY <1>5 DEF Advance, Show
  <2>2. /\ card' \in Cards /\ card'.staged \subseteq card'.boxes
        /\ card'.image # 0 => Train(card'.image)
        /\ card'.image = 0 => card'.boxes = {}
    BY <2>1, WalkParts, MountedIs
  <2>3. index' \in Nat \ {0}
    BY <2>1, WalkParts
  <2> QED BY <2>1, <2>2, <2>3, WalkParts, AtMostOne, ScreenSteps
<1>6. ASSUME NEW s \in sent, SubmitFails(s)
      PROVE  WalkInv'
  <2>1. sent' = {} /\ UNCHANGED <<pool, pages, fetch, index, card, refreshed, owed>>
    BY <1>6 DEF SubmitFails
  <2> QED BY <2>1, WalkParts, AtMostOne, ScreenSteps
<1> QED BY <1>3, <1>4, <1>5, <1>6

\* The parts of the invariant after a step of the tables.
LEMMA TableSteps ==
  ASSUME WalkInv, PoolInv', UNCHANGED <<pages, fetch, index, card, refreshed>>,
         owed' \subseteq owed,
         \A i \in Images : Train(i) => Train(i)',
         sent' \subseteq [image : Images, ruled : SUBSET Boxes, served : BOOLEAN],
         Cardinality(sent') <= 1, \A s \in sent' : Train(s.image),
         \A b \in boxes' : <<b, Me>> \in verdicts' =>
           (b \in boxes /\ <<b, Me>> \in verdicts) \/ Train(b[1])
  PROVE  WalkInv'
<1>1. TypeOK'
  BY WalkParts DEF WalkInv, TypeOK, PoolInv
<1>2. TrainPages(pages)' /\ TrainPages(fetch.got)'
  <2>1. ASSUME NEW ps \in Seq(Page), TrainPages(ps), NEW n \in DOMAIN ps, NEW i \in ps[n].images
        PROVE  Train(i)'
    <3>1. ps[n] \in Page
      OBVIOUS
    <3> QED BY <2>1, <3>1 DEF TrainPages, Page
  <2> QED BY <2>1, WalkParts DEF TrainPages, Fetches
<1>3. WalkOfTrain'
  <2>1. \A i \in fetch.found : Train(i)'
    BY WalkParts DEF Fetches
  <2>2. card.image # 0 => Train(card.image)'
    BY WalkParts DEF Cards
  <2> QED BY <1>2, <2>1, <2>2, WalkParts DEF WalkOfTrain
<1>4. EvalNeverRuled'
  <2> SUFFICES ASSUME NEW b \in boxes', <<b, Me>> \in verdicts' PROVE InTrain(b[1])'
    BY DEF EvalNeverRuled
  <2>1. b[1] \in Images
    BY PoolAssumption DEF PoolInv, PoolTypeOK
  <2>2. Train(b[1])
    BY DEF WalkInv, EvalNeverRuled, InTrain, PoolInv, Stamped, Train
  <2> QED BY <2>1, <2>2 DEF Train, InTrain
<1> QED BY <1>1, <1>3, <1>4 DEF WalkInv

\* The contributor's submission is served.
LEMMA ServeKeeps ==
  ASSUME WalkInv, NEW s \in sent, Serve(s)
  PROVE  WalkInv'
<1> DEFINE served == [s EXCEPT !.served = TRUE]
<1>1. /\ UserSubmits(Me, s.image, s.ruled) /\ sent' = {served} /\ owed' = owed \ s.ruled
      /\ UNCHANGED <<pages, fetch, index, card, refreshed>>
  BY Zenon DEF Serve
<1>2. s \in [image : Images, ruled : SUBSET Boxes, served : BOOLEAN] /\ Train(s.image)
  BY WalkParts
<1>3. served \in [image : Images, ruled : SUBSET Boxes, served : BOOLEAN] /\ served.image = s.image
  BY <1>2
<1> HIDE DEF served
<1>4. PoolInv'
  BY <1>1, <1>2, OthersKeep, PoolAssumption, WalkAssumption DEF UserSubmits, Rulers, WalkInv
<1>5. boxes' = boxes /\ verdicts' = verdicts \cup (s.ruled \X {Me}) /\ selection' = selection
      /\ \A b \in s.ruled : b[1] = s.image
  BY <1>1 DEF UserSubmits, Insert, On
<1>6. \A b \in boxes' : <<b, Me>> \in verdicts' =>
        (b \in boxes /\ <<b, Me>> \in verdicts) \/ Train(b[1])
  BY <1>2, <1>5
<1>7. \A i \in Images : Train(i) => Train(i)'
  BY <1>5 DEF Train
<1> QED BY <1>1, <1>2, <1>3, <1>4, <1>6, <1>7, AtMostOne, TableSteps

\* Others rule, the detector reports, accounts are promoted.
LEMMA ElsewhereKeeps ==
  ASSUME WalkInv, Elsewhere
  PROVE  WalkInv'
<1>1. UNCHANGED <<pages, fetch, index, card, sent, refreshed, owed>>
  BY DEF Elsewhere, screen
<1>2. \/ ReportSome
      \/ \E who \in Others, image \in Images :
           \E ruled \in SUBSET On(image, boxes) : Submits(who, image, ruled)
      \/ \E u \in Users : Promote(u)
  BY DEF Elsewhere
<1>3. Others \subseteq Rulers /\ Me \notin Others /\ Me \in Users /\ Me # Admin /\ Me # Visitor
  BY WalkAssumption, PoolAssumption
<1>4. PoolInv'
  BY <1>2, <1>3, PoolStep DEF WalkInv, PoolNext
<1>5. /\ \A i \in Images : Train(i) => Train(i)'
      /\ \A b \in boxes' : <<b, Me>> \in verdicts' => b \in boxes /\ <<b, Me>> \in verdicts
  <2>0. verdicts \subseteq boxes \X Rulers
    BY DEF WalkInv, PoolInv, PoolTypeOK
  <2>1. CASE ReportSome
    BY <2>0, <2>1 DEF ReportSome, Report, Train
  <2>2. ASSUME NEW who \in Others, NEW image \in Images,
               NEW ruled \in SUBSET On(image, boxes), Submits(who, image, ruled)
        PROVE  /\ selection' = selection /\ boxes' = boxes
               /\ \A b \in boxes : <<b, Me>> \in verdicts' => <<b, Me>> \in verdicts
    BY <1>3, <2>2 DEF Submits, AdminSubmits, VisitorSubmits, UserSubmits, Insert
  <2>3. ASSUME NEW u \in Users, Promote(u)
        PROVE  UNCHANGED <<boxes, verdicts, selection>>
    BY <2>3 DEF Promote
  <2> QED BY <1>2, <2>1, <2>2, <2>3 DEF Train
<1> QED BY <1>1, <1>4, <1>5, WalkParts, TableSteps

\* The walk's invariant holds of every reachable state.
THEOREM WalkInvariant == Spec => []WalkInv
<1>1. Init => WalkInv
  <2> SUFFICES ASSUME Init PROVE WalkInv
    OBVIOUS
  <2>1. PoolInv
    <3>1. \A i \in Images : WaitsForAdmin(i) = {}
      BY DEF Init, PoolInit, WaitsForAdmin, On
    <3>2. CounterExact
      BY <3>1, FS_EmptySet DEF Init, PoolInit, CounterExact
    <3> QED BY <3>2 DEF PoolInv, Init, PoolInit, PoolTypeOK, Stamped
  <2>2. <<>> \in Seq(Page) /\ TrainPages(<<>>)
    BY EmptySeq DEF TrainPages
  <2>3. NoPage \in Fetches /\ TrainPages(NoPage.got) /\ NoPage.found = {}
    BY <2>2, FetchOfIs
  <2>4. NoCard \in Cards /\ NoCard.staged = {} /\ NoCard.boxes = {} /\ NoCard.image = 0
    BY DEF NoCard, Cards
  <2>5. TypeOK
    <3>1. sent = {} /\ Cardinality(sent) <= 1
      BY FS_EmptySet DEF Init
    <3>2. pages \in Seq(Page) /\ index \in Nat \ {0}
      BY <2>2 DEF Init
    <3>3. fetch \in Fetches /\ card \in Cards /\ card.staged \subseteq card.boxes
      BY <2>3, <2>4 DEF Init
    <3>4. refreshed \subseteq Images /\ owed \subseteq Boxes
      BY DEF Init
    <3> QED BY <2>1, <3>1, <3>2, <3>3, <3>4 DEF TypeOK, PoolInv, Fetches, Cards
  <2>6. WalkOfTrain /\ EvalNeverRuled
    BY <2>2, <2>3, <2>4 DEF Init, PoolInit, WalkOfTrain, EvalNeverRuled
  <2> QED BY <2>1, <2>5, <2>6 DEF WalkInv
<1>2. WalkInv /\ [Next]_vars => WalkInv'
  <2> SUFFICES ASSUME WalkInv, [Next]_vars PROVE WalkInv'
    OBVIOUS
  <2>1. CASE UNCHANGED vars
    BY <2>1, WalkParts, ScreenSteps DEF vars, screen
  <2>2. CASE Elsewhere
    BY <2>2, ElsewhereKeeps
  <2>3. CASE Fetching
    BY <2>3, FetchingKeeps
  <2>4. CASE Open \/ FetchMore \/ ImageError \/ StartOver
    BY <2>4, AsksKeep
  <2>5. CASE \/ Rule \/ \E b \in card.staged : Unstage(b)
             \/ \E s \in sent : Advance(s) \/ SubmitFails(s)
    BY <2>5, RulingKeeps
  <2>6. ASSUME NEW s \in sent, Serve(s)
        PROVE  WalkInv'
    BY <2>6, ServeKeeps
  <2> QED BY <2>2, <2>1, <2>3, <2>4, <2>5, <2>6 DEF Next
<1> QED BY <1>1, <1>2, PTL DEF Spec

\* The walk keeps its types.
THEOREM WalkTypeCorrect == Spec => []TypeOK
BY WalkInvariant, PTL DEF WalkInv

\* No contributor rules on a frame of the evaluation split.
THEOREM EvalStaysUnruled == Spec => []EvalNeverRuled
BY WalkInvariant, PTL DEF WalkInv

-----------------------------------------------------------------------------
(* Nothing is missed.  Each place of the walk has a number, no number is left *)
(* out, and a page that comes later has later numbers; a page takes the       *)
(* lowest keys above the cursor, so that what it leaves is above all it took. *)

\* Pairs of finitely many firsts and seconds are finitely many.
LEMMA PairsFinite ==
  ASSUME NEW D, NEW R, IsFiniteSet(D), IsFiniteSet(R),
         NEW W, \A p \in W : p = <<p[1], p[2]>> /\ p[1] \in D /\ p[2] \in R
  PROVE  IsFiniteSet(W)
<1>1. IsFiniteSet(D \X R)
  BY FS_Product
<1>2. W \subseteq D \X R
  OBVIOUS
<1> QED BY <1>1, <1>2, FS_Subset

\* A place of the walk is a page and a frame that it is the first to show.
LEMMA WalkIs ==
  ASSUME NEW ps \in Seq(Page)
  PROVE  /\ IsFiniteSet(Walk(ps))
         /\ \A p \in Walk(ps) : /\ p = <<p[1], p[2]>> /\ p[1] \in DOMAIN ps /\ p[1] \in Nat
                                /\ p[2] \in ps[p[1]].images /\ p[2] \in Images /\ p[2] \in Nat \ {0}
                                /\ p[2] \in Unseen(ps, p[1])
                                /\ \A m \in 1 .. p[1] : Unseen(ps, m) # {}
         /\ \A p, q \in Walk(ps) : p[2] = q[2] => p = q
<1>1. DOMAIN ps = 1 .. Len(ps) /\ Len(ps) \in Nat
  BY LenProperties
<1>2. ASSUME NEW p \in Walk(ps)
      PROVE  /\ p = <<p[1], p[2]>> /\ p[1] \in DOMAIN ps /\ p[1] \in Nat
             /\ p[2] \in ps[p[1]].images /\ p[2] \in Images /\ p[2] \in Nat \ {0}
             /\ p[2] \in Unseen(ps, p[1])
             /\ \A m \in 1 .. p[1] : Unseen(ps, m) # {}
  <2>1. PICK n \in DOMAIN ps : p \in {n} \X Unseen(ps, n) /\ \A m \in 1 .. n : Unseen(ps, m) # {}
    BY DEF Walk
  <2>2. p = <<p[1], p[2]>> /\ p[1] = n /\ p[2] \in Unseen(ps, n)
    BY <2>1
  <2>3. ps[n] \in Page /\ n \in Nat
    BY <1>1
  <2>4. p[2] \in ps[n].images
    BY <2>2 DEF Unseen
  <2>5. p[2] \in Images
    BY <2>3, <2>4 DEF Page
  <2> QED BY <2>1, <2>2, <2>3, <2>4, <2>5, PoolAssumption
<1>3. IsFiniteSet(Walk(ps))
  <2>1. \A p \in Walk(ps) : p = <<p[1], p[2]>> /\ p[1] \in 1 .. Len(ps) /\ p[2] \in Images
    BY <1>1, <1>2
  <2>2. IsFiniteSet(1 .. Len(ps)) /\ IsFiniteSet(Images)
    BY <1>1, PoolAssumption, FS_Interval
  <2> QED BY <2>1, <2>2, PairsFinite
<1>6. ASSUME NEW p \in Walk(ps), NEW q \in Walk(ps), p[2] = q[2]
      PROVE  p = q
  <2>1. ASSUME NEW r \in Walk(ps), NEW s \in Walk(ps), r[2] = s[2], r[1] < s[1]
        PROVE  FALSE
    <3>1. r[1] \in 1 .. s[1] - 1
      BY <1>1, <1>2, <2>1
    <3>2. r[2] \in ps[r[1]].images /\ s[2] \notin ps[r[1]].images
      BY <1>2, <3>1 DEF Unseen
    <3> QED BY <2>1, <3>2
  <2>2. p[1] = q[1]
    BY <1>2, <1>6, <2>1
  <2> QED BY <1>2, <1>6, <2>2
<1> QED BY <1>2, <1>3, <1>6

\* The order of the walk is strict, total and transitive.
LEMMA AheadOrders ==
  ASSUME NEW ps \in Seq(Page), NEW p \in Walk(ps), NEW q \in Walk(ps)
  PROVE  /\ p \notin Ahead(ps, p)
         /\ p = q \/ p \in Ahead(ps, q) \/ q \in Ahead(ps, p)
         /\ p \in Ahead(ps, q) => Ahead(ps, p) \subseteq Ahead(ps, q)
<1>1. \A r \in Walk(ps) : r = <<r[1], r[2]>> /\ r[1] \in Nat /\ r[2] \in Nat
  BY WalkIs
<1>2. p \notin Ahead(ps, p)
  BY <1>1 DEF Ahead, Precedes
<1>3. p = q \/ p \in Ahead(ps, q) \/ q \in Ahead(ps, p)
  <2>1. CASE p[1] # q[1]
    BY <1>1, <2>1 DEF Ahead
  <2>2. CASE p[1] = q[1]
    <3>1. p[2] = q[2] \/ Precedes(ps[q[1]].wrapped, p[2], q[2])
                      \/ Precedes(ps[q[1]].wrapped, q[2], p[2])
      BY <1>1 DEF Precedes
    <3> QED BY <1>1, <2>2, <3>1 DEF Ahead
  <2> QED BY <2>1, <2>2
<1>4. ASSUME p \in Ahead(ps, q), NEW r \in Ahead(ps, p)
      PROVE  r \in Ahead(ps, q)
  <2>1. /\ r \in Walk(ps)
        /\ \/ r[1] < p[1]
           \/ r[1] = p[1] /\ Precedes(ps[p[1]].wrapped, r[2], p[2])
    BY <1>4 DEF Ahead
  <2>2. \/ p[1] < q[1]
        \/ p[1] = q[1] /\ Precedes(ps[q[1]].wrapped, p[2], q[2])
    BY <1>4 DEF Ahead
  <2>3. \/ r[1] < q[1]
        \/ /\ r[1] = q[1] /\ Precedes(ps[q[1]].wrapped, r[2], p[2])
           /\ Precedes(ps[q[1]].wrapped, p[2], q[2])
    BY <1>1, <2>1, <2>2
  <2>4. \/ r[1] < q[1]
        \/ r[1] = q[1] /\ Precedes(ps[q[1]].wrapped, r[2], q[2])
    BY <1>1, <2>1, <2>3 DEF Precedes
  <2> QED BY <2>1, <2>4 DEF Ahead
<1> QED BY <1>2, <1>3, <1>4

\* So each place has a number of its own.
LEMMA Ranks ==
  ASSUME NEW ps \in Seq(Page), NEW p \in Walk(ps)
  PROVE  /\ IsFiniteSet(Ahead(ps, p)) /\ Cardinality(Ahead(ps, p)) \in Nat
         /\ Cardinality(Walk(ps)) \in Nat /\ Cardinality(Ahead(ps, p)) < Cardinality(Walk(ps))
         /\ \A q \in Walk(ps) :
              /\ p \in Ahead(ps, q) => Cardinality(Ahead(ps, p)) < Cardinality(Ahead(ps, q))
              /\ Cardinality(Ahead(ps, p)) = Cardinality(Ahead(ps, q)) => p = q
<1>1. ASSUME NEW A \in SUBSET Walk(ps), NEW B \in SUBSET A, NEW x \in A, x \notin B
      PROVE  /\ IsFiniteSet(B) /\ Cardinality(B) \in Nat /\ Cardinality(A) \in Nat
             /\ Cardinality(B) < Cardinality(A)
  <2>1. IsFiniteSet(A) /\ IsFiniteSet(B)
    BY WalkIs, FS_Subset
  <2>2. Cardinality(B) \in Nat /\ Cardinality(A) \in Nat
    BY <2>1, FS_CardinalityType
  <2>3. Cardinality(B) <= Cardinality(A) /\ (Cardinality(A) = Cardinality(B) => A = B)
    BY <2>1, FS_Subset
  <2> QED BY <1>1, <2>1, <2>2, <2>3
<1>2. \A r \in Walk(ps) : Ahead(ps, r) \in SUBSET Walk(ps)
  BY DEF Ahead
<1>3. ASSUME NEW r \in Walk(ps), NEW q \in Walk(ps), r \in Ahead(ps, q)
      PROVE  Cardinality(Ahead(ps, r)) < Cardinality(Ahead(ps, q))
  <2>1. Ahead(ps, r) \in SUBSET Ahead(ps, q) /\ r \notin Ahead(ps, r)
    BY <1>3, AheadOrders
  <2> QED BY <1>1, <1>2, <1>3, <2>1
<1>4. \A r \in Walk(ps) : IsFiniteSet(Ahead(ps, r)) /\ Cardinality(Ahead(ps, r)) \in Nat
  BY <1>2, WalkIs, FS_Subset, FS_CardinalityType
<1>5. Cardinality(Walk(ps)) \in Nat /\ Cardinality(Ahead(ps, p)) < Cardinality(Walk(ps))
  <2>1. p \notin Ahead(ps, p) /\ Ahead(ps, p) \in SUBSET Walk(ps)
    BY <1>2, AheadOrders
  <2> QED BY <1>1, <2>1
<1>6. ASSUME NEW q \in Walk(ps), Cardinality(Ahead(ps, p)) = Cardinality(Ahead(ps, q))
      PROVE  p = q
  <2>1. p = q \/ p \in Ahead(ps, q) \/ q \in Ahead(ps, p)
    BY AheadOrders
  <2> QED BY <1>3, <1>4, <1>6, <2>1
<1> QED BY <1>3, <1>4, <1>5, <1>6

\* And no number is left out.
LEMMA NoGap ==
  ASSUME NEW ps \in Seq(Page), NEW p \in Walk(ps), NEW k \in Nat,
         Cardinality(Ahead(ps, p)) >= k
  PROVE  \E q \in Walk(ps) : Cardinality(Ahead(ps, q)) = k
<1> DEFINE Rank(q) == Cardinality(Ahead(ps, q))
           late == {q \in Walk(ps) : Rank(q) >= k}
           ranks == {Rank(q) : q \in late}
<1>1. \A q \in Walk(ps) : Rank(q) \in Nat
  BY Ranks
<1>2. ranks \in SUBSET Nat /\ ranks # {}
  BY <1>1
<1>3. Min(ranks) \in ranks /\ \A y \in ranks : Min(ranks) <= y
  <2> HIDE DEF ranks
  <2> QED BY <1>2, LeastIs
<1>4. PICK first \in late : Min(ranks) = Rank(first)
  BY <1>3
<1>5. first \in Walk(ps) /\ Rank(first) >= k /\ \A q \in late : Rank(first) <= Rank(q)
  BY <1>3, <1>4
<1>6. CASE Ahead(ps, first) = {}
  <2>1. Rank(first) = 0
    BY <1>6, FS_EmptySet
  <2> QED BY <1>5, <2>1
<1>7. CASE Ahead(ps, first) # {}
  <2> DEFINE before == Ahead(ps, first)
             gaps == {Rank(first) - Rank(q) : q \in before}
  <2>1. before \in SUBSET Walk(ps) /\ \A q \in before : Rank(q) < Rank(first)
    <3>1. before \in SUBSET Walk(ps)
      BY DEF Ahead
    <3> QED BY <1>5, <3>1, Ranks
  <2>2. gaps \in SUBSET Nat /\ gaps # {}
    BY <1>1, <1>5, <1>7, <2>1
  <2>3. Min(gaps) \in gaps /\ \A y \in gaps : Min(gaps) <= y
    <3> HIDE DEF gaps
    <3> QED BY <2>2, LeastIs
  <2>4. PICK last \in before : Min(gaps) = Rank(first) - Rank(last)
    BY <2>3
  <2>5. last \in Walk(ps) /\ \A q \in before : Rank(q) <= Rank(last)
    <3>1. \A q \in before : Rank(first) - Rank(last) <= Rank(first) - Rank(q)
      BY <2>3, <2>4
    <3> QED BY <1>1, <1>5, <2>1, <2>4, <3>1
  <2>6. before \subseteq Ahead(ps, last) \cup {last}
    <3> SUFFICES ASSUME NEW q \in before, q # last PROVE q \in Ahead(ps, last)
      OBVIOUS
    <3>1. q \in Walk(ps) /\ ~(Rank(last) < Rank(q))
      BY <1>1, <2>1, <2>5
    <3>2. last \notin Ahead(ps, q)
      BY <2>5, <3>1, Ranks
    <3> QED BY <2>5, <3>1, <3>2, AheadOrders
  <2>7. Ahead(ps, last) \subseteq before /\ last \notin Ahead(ps, last)
    BY <1>5, <2>4, <2>5, AheadOrders
  <2>8. before = Ahead(ps, last) \cup {last}
    BY <2>4, <2>6, <2>7
  <2>9. Rank(first) = Rank(last) + 1
    BY <2>5, <2>7, <2>8, Ranks, FS_AddElement
  <2>10. last \notin late
    BY <1>1, <1>5, <2>1, <2>4
  <2>11. Rank(last) < k
    BY <1>1, <2>5, <2>10
  <2> QED BY <1>1, <1>5, <2>5, <2>9, <2>11
<1> QED BY <1>6, <1>7

\* What a read that takes the lowest keys leaves is above all it takes, and the
\* read is then a full page.
LEMMA LowestIs ==
  ASSUME NEW S \in SUBSET Images, NEW n \in Nat \ {0}
  PROVE  /\ Lowest(S, n) \subseteq S /\ Cardinality(Lowest(S, n)) \in Nat
         /\ S # {} => Lowest(S, n) # {}
         /\ \A i \in S \ Lowest(S, n) : /\ Cardinality(Lowest(S, n)) >= n
                                        /\ \A j \in Lowest(S, n) : j < i
<1> DEFINE ids == Lowest(S, n)
           Below(i) == {j \in S : j < i}
<1>1. S \in SUBSET Nat /\ IsFiniteSet(S)
  BY PoolAssumption, FS_Subset
<1>2. ids \in SUBSET S /\ \A i \in S : i \in ids <=> Cardinality(Below(i)) < n
  BY DEF Lowest
<1>3. \A i \in S : Below(i) \in SUBSET S
  OBVIOUS
<1>4. ASSUME NEW A \in SUBSET S, NEW B \in SUBSET A
      PROVE  Cardinality(A) \in Nat /\ Cardinality(B) \in Nat /\ Cardinality(B) <= Cardinality(A)
  <2>1. IsFiniteSet(A) /\ IsFiniteSet(B)
    BY <1>1, FS_Subset
  <2> QED BY <2>1, FS_Subset, FS_CardinalityType
<1>5. ASSUME S # {}
      PROVE  ids # {}
  <2>1. PICK m \in S : \A j \in S : m <= j
    BY <1>1, <1>5, LeastIs
  <2>2. \A j \in S : ~(j < m)
    <3>1. \A j \in S : j \in Nat /\ m \in Nat
      BY <1>1
    <3> QED BY <2>1, <3>1
  <2>3. Below(m) = {}
    BY <2>2
  <2>4. Cardinality(Below(m)) = 0
    BY <2>3, FS_EmptySet
  <2> QED BY <1>2, <2>1, <2>4
<1>6. ASSUME NEW i \in S \ ids
      PROVE  Cardinality(ids) >= n /\ \A j \in ids : j < i
  <2> DEFINE left == S \ ids
  <2>0. \A j \in S : j \in Nat
    BY <1>1
  <2>1. PICK m \in left : \A k \in left : m <= k
    <3>1. left \in SUBSET Nat /\ left # {}
      BY <1>1, <1>6
    <3> HIDE DEF left
    <3> QED BY <3>1, LeastIs
  <2>2. m \in S /\ m \notin ids
    BY <2>1
  <2>3. Below(m) \in SUBSET ids
    <3>1. \A k \in left : ~(k < m)
      BY <2>0, <2>1, <2>2
    <3> QED BY <3>1
  <2>4. Cardinality(ids) >= n
    <3> HIDE DEF Below, ids, left
    <3>1. /\ Cardinality(Below(m)) <= Cardinality(ids)
          /\ Cardinality(ids) \in Nat /\ Cardinality(Below(m)) \in Nat
      BY <1>2, <1>4, <2>3
    <3>2. ~(Cardinality(Below(m)) < n)
      BY <1>2, <2>2
    <3> QED BY <3>1, <3>2
  <2>5. ASSUME NEW j \in ids, ~(j < i)
        PROVE  FALSE
    <3>1. j \in S /\ i \in S /\ i <= j
      BY <1>2, <2>0, <2>5
    <3>2. \A k \in S : k < i => k < j
      BY <2>0, <3>1
    <3>3. Below(i) \in SUBSET Below(j) /\ Below(j) \in SUBSET S
      BY <3>2
    <3> HIDE DEF Below, ids, left
    <3>4. /\ Cardinality(Below(i)) <= Cardinality(Below(j))
          /\ Cardinality(Below(i)) \in Nat /\ Cardinality(Below(j)) \in Nat
      BY <1>4, <3>3
    <3>5. Cardinality(Below(j)) < n /\ ~(Cardinality(Below(i)) < n)
      BY <1>2, <1>6, <2>5, <3>1
    <3> QED BY <3>4, <3>5
  <2> QED BY <2>4, <2>5
<1>7. Cardinality(ids) \in Nat
  BY <1>2, <1>4
<1> QED BY <1>2, <1>5, <1>6, <1>7

\* The boxes the walk still owes the contributor.
Pending == {b \in owed : ~Settled(b)}

\* The frames of the pages, and the cursor of the page after the last.
SeenOn(ps) == UNION {ps[m].images : m \in DOMAIN ps}
LastNext == IF pages = <<>> THEN 0 ELSE pages[Len(pages)].next

\* The pages have not come as far as the frame of the box.
Beyond(b) ==
  /\ pages # <<>> => LastNext # 0
  /\ ~Drained(pages)
  /\ LastNext < b[1] /\ \A i \in SeenOn(pages) : i <= LastNext

\* What is owed is in the pool or settled, and each page but the last brought
\* something new.
WalkKnown ==
  /\ owed \subseteq boxes /\ \A b \in owed : Train(b[1])
  /\ \A n \in DOMAIN pages : n < Len(pages) => Unseen(pages, n) # {}

\* A fetch is of the page after the last.
FetchKnown ==
  /\ fetch.kind = "none" => fetch.stage = "none"
  /\ fetch.kind = "all" => pages = <<>>
  /\ fetch.kind = "next" => pages # <<>> /\ LastNext # 0
  /\ fetch.kind # "none" => ~Drained(pages) /\ fetch.cursor = LastNext /\ fetch.got = <<>>

\* The card is that of the walk's place, and what is sent of it is all of it.
CardKnown ==
  /\ index - 1 <= Cardinality(Walk(pages))
  /\ card.image = 0 => Place(pages, index) = {} /\ sent = {}
  /\ card.image # 0 => \E at \in Place(pages, index) :
                          card.image = at[2] /\ card.boxes = On(at[2], pages[at[1]].boxes)
  /\ \A s \in sent : /\ s.image = card.image /\ s.ruled = card.boxes
                     /\ s.served => s.ruled \cap owed = {}

\* A pending box is on each page that shows its frame, a page shows its frame
\* or has not come so far, and its frame is not behind the walk's place.
Kept(b) ==
  /\ \A n \in DOMAIN pages : b[1] \in pages[n].images => b \in pages[n].boxes
  /\ b[1] \in SeenOn(pages) \/ Beyond(b)
  /\ \A at \in Walk(pages) : at[2] = b[1] => Cardinality(Ahead(pages, at)) >= index - 1

\* Nor does a fetch in flight pass over it.
Read(b) ==
  b[1] \in SeenOn(pages) \/
    /\ fetch.stage = "wrap" => b[1] \in fetch.found
    /\ fetch.stage = "boxes" =>
         \/ b[1] \in fetch.found
         \/ fetch.found # {} /\ \A i \in fetch.found : fetch.cursor < i /\ i < b[1]

CoverInv ==
  WalkInv /\ WalkKnown /\ FetchKnown /\ CardKnown /\ \A b \in Pending : Kept(b) /\ Read(b)

\* The pages ps with one more at the end: new has the page as its n + 1st, and
\* the walk the places of ps as they were and, after them, those of the page.
Lengthens(ps, page, new, n) ==
  /\ new \in Seq(Page) /\ n \in Nat /\ Len(new) = n + 1
  /\ DOMAIN ps = 1 .. n /\ DOMAIN new = 1 .. n + 1
  /\ new[n + 1] = page /\ \A m \in 1 .. n : new[m] = ps[m]
  /\ SeenOn(new) = SeenOn(ps) \cup page.images
  /\ \A m \in 1 .. n : Unseen(new, m) = Unseen(ps, m) /\ Unseen(new, m) # {}
  /\ Unseen(new, n + 1) = page.images \ SeenOn(ps)
  /\ Walk(ps) \subseteq Walk(new)
  /\ \A at \in Walk(ps) : Ahead(new, at) = Ahead(ps, at) /\ new[at[1]] = ps[at[1]]
  /\ \A at \in Walk(new) \ Walk(ps) : at[1] = n + 1 /\ Walk(ps) \subseteq Ahead(new, at)

\* A page put at the end lengthens the walk.
LEMMA WalkLonger ==
  ASSUME NEW ps \in Seq(Page), NEW page \in Page, ~Drained(ps)
  PROVE  Lengthens(ps, page, Append(ps, page), Len(ps))
<1> DEFINE new == Append(ps, page)
           n == Len(ps)
<1>1. /\ new \in Seq(Page) /\ n \in Nat /\ DOMAIN ps = 1 .. n /\ Len(new) = n + 1
      /\ DOMAIN new = 1 .. n + 1 /\ new[n + 1] = page /\ \A m \in 1 .. n : new[m] = ps[m]
  BY AppendProperties, LenProperties
<1> HIDE DEF new, n
<1>2. SeenOn(new) = SeenOn(ps) \cup page.images
  <2>1. \A m \in 1 .. n + 1 : m \in 1 .. n \/ m = n + 1
    BY <1>1
  <2>2. \A m \in 1 .. n : m \in 1 .. n + 1
    BY <1>1
  <2>3. n + 1 \in 1 .. n + 1
    BY <1>1
  <2> QED BY <1>1, <2>1, <2>2, <2>3 DEF SeenOn
<1>3. ASSUME NEW m \in 1 .. n
      PROVE  Unseen(new, m) = Unseen(ps, m) /\ Unseen(ps, m) # {}
  <2>1. \A k \in 1 .. m - 1 : k \in 1 .. n
    BY <1>1
  <2>2. Unseen(new, m) = Unseen(ps, m)
    BY <1>1, <2>1 DEF Unseen
  <2> QED BY <1>1, <2>2 DEF Drained
<1>4. Unseen(new, n + 1) = page.images \ SeenOn(ps)
  <2>1. 1 .. (n + 1) - 1 = 1 .. n
    BY <1>1
  <2> QED BY <1>1, <2>1 DEF Unseen, SeenOn
<1>5. ASSUME NEW at \in Walk(ps)
      PROVE  at \in Walk(new) /\ at[1] \in 1 .. n
  <2>1. PICK m \in 1 .. n : at \in {m} \X Unseen(ps, m)
    BY <1>1 DEF Walk
  <2>2. m \in 1 .. n + 1 /\ \A k \in 1 .. m : k \in 1 .. n
    BY <1>1
  <2>3. at \in {m} \X Unseen(new, m) /\ \A k \in 1 .. m : Unseen(new, k) # {}
    BY <1>3, <2>1, <2>2
  <2>4. at \in Walk(new)
    BY <1>1, <2>2, <2>3 DEF Walk
  <2> QED BY <2>1, <2>4
<1>6. ASSUME NEW at \in Walk(new), at[1] \in 1 .. n
      PROVE  at \in Walk(ps)
  <2>1. PICK m \in 1 .. n + 1 : at \in {m} \X Unseen(new, m)
    BY <1>1 DEF Walk
  <2>2. m \in 1 .. n
    BY <1>6, <2>1
  <2>3. \A k \in 1 .. m : k \in 1 .. n
    BY <1>1, <2>2
  <2>4. at \in {m} \X Unseen(ps, m) /\ \A k \in 1 .. m : Unseen(ps, k) # {}
    BY <1>3, <2>1, <2>2, <2>3
  <2> QED BY <1>1, <2>2, <2>4 DEF Walk
<1>7. \A at \in Walk(new) : at[1] \in 1 .. n + 1 /\ at[1] \in Nat
  BY <1>1, WalkIs
<1>8. ASSUME NEW at \in Walk(ps)
      PROVE  Ahead(new, at) = Ahead(ps, at) /\ new[at[1]] = ps[at[1]]
  <2>1. at[1] \in 1 .. n /\ new[at[1]] = ps[at[1]]
    BY <1>1, <1>5
  <2>2. \A p \in Walk(new) : (p[1] < at[1] \/ p[1] = at[1]) => p[1] \in 1 .. n
    BY <1>1, <1>7, <2>1
  <2>3. \A p : p \in Ahead(new, at) <=> p \in Ahead(ps, at)
    BY <1>5, <1>6, <2>1, <2>2 DEF Ahead
  <2> QED BY <2>1, <2>3
<1>9. ASSUME NEW at \in Walk(new) \ Walk(ps)
      PROVE  at[1] = n + 1 /\ Walk(ps) \subseteq Ahead(new, at)
  <2>1. at[1] = n + 1
    BY <1>1, <1>6, <1>7, <1>9
  <2>2. ASSUME NEW p \in Walk(ps)
        PROVE  p \in Ahead(new, at)
    <3>1. p \in Walk(new) /\ p[1] < at[1]
      BY <1>1, <1>5, <2>1
    <3> QED BY <3>1 DEF Ahead
  <2> QED BY <2>1, <2>2
<1>10. Walk(ps) \subseteq Walk(new)
  BY <1>5
<1>11. Lengthens(ps, page, new, n)
  BY <1>1, <1>2, <1>3, <1>4, <1>8, <1>9, <1>10 DEF Lengthens
<1> QED BY <1>11 DEF new, n

\* What is mounted at a place of the walk is the frame of that place, and the
\* card that is there already if it shows that frame.
LEMMA MountedKnown ==
  ASSUME NEW ps \in Seq(Page), NEW ix \in Nat \ {0},
         card.image # 0 => \E at \in Walk(ps) :
                             card.image = at[2] /\ card.boxes = On(at[2], ps[at[1]].boxes)
  PROVE  LET c == Mounted(ps, ix) IN
         /\ c.image = 0 => Place(ps, ix) = {}
         /\ c.image # 0 => \E at \in Place(ps, ix) :
                             c.image = at[2] /\ c.boxes = On(at[2], ps[at[1]].boxes)
         /\ (card.image # 0 /\ \E at \in Place(ps, ix) : at[2] = card.image) => c = card
<1> DEFINE c == Mounted(ps, ix)
           at == CHOOSE at \in Place(ps, ix) : TRUE
<1>1. CASE Place(ps, ix) = {}
  <2>1. c = NoCard
    BY <1>1 DEF Mounted
  <2> QED BY <1>1, <2>1 DEF NoCard
<1>2. CASE Place(ps, ix) # {}
  <2>1. at \in Place(ps, ix) /\ at \in Walk(ps)
    BY <1>2 DEF Place
  <2>2. c = IF at[2] = card.image THEN card ELSE Fresh(ps, at)
    BY <1>2 DEF Mounted
  <2> HIDE DEF at, c
  <2>3. at[2] \in Nat \ {0}
    BY <2>1, WalkIs
  <2>4. /\ at[2] # card.image => c = Fresh(ps, at)
        /\ at[2] = card.image => c = card
    BY <2>2
  <2>5. CASE at[2] # card.image
    <3>1. c.image = at[2] /\ c.boxes = On(at[2], ps[at[1]].boxes)
      BY <2>4, <2>5 DEF Fresh
    <3>2. ASSUME NEW other \in Place(ps, ix), other[2] = card.image
          PROVE  FALSE
      <4>1. other \in Walk(ps) /\ Cardinality(Ahead(ps, other)) = ix - 1
            /\ Cardinality(Ahead(ps, at)) = ix - 1
        BY <2>1 DEF Place
      <4>2. other = at
        BY <2>1, <4>1, Ranks
      <4> QED BY <2>5, <3>2, <4>2
    <3> QED BY <2>1, <2>3, <3>1, <3>2 DEF c
  <2>6. CASE at[2] = card.image
    <3>1. PICK old \in Walk(ps) :
            card.image = old[2] /\ card.boxes = On(old[2], ps[old[1]].boxes)
      BY <2>3, <2>6
    <3>2. old = at
      BY <2>1, <2>6, <3>1, WalkIs
    <3> QED BY <2>1, <2>3, <2>4, <2>6, <3>1, <3>2 DEF c
  <2> QED BY <2>5, <2>6
<1> QED BY <1>1, <1>2

\* The tables only settle what is pending.
LEMMA PendingShrinks ==
  ASSUME WalkInv, WalkKnown, owed' \subseteq owed, boxes \subseteq boxes',
         verdicts \subseteq verdicts', trusted \subseteq trusted',
         \A i \in Images : Train(i) => Train(i)'
  PROVE  /\ Pending' \subseteq Pending
         /\ owed' \subseteq boxes' /\ \A b \in owed' : Train(b[1])'
<1>1. \A b : Settled(b) => Settled(b)'
  BY DEF Settled, AdminRuled
<1>2. \A b \in owed : b[1] \in Images
  BY WalkParts, PoolAssumption
<1> QED BY <1>1, <1>2 DEF Pending, WalkKnown

\* A step that leaves the pages, the fetch and the place alone.
LEMMA CoverStays ==
  ASSUME CoverInv, WalkInv', UNCHANGED <<pages, fetch, index>>, Pending' \subseteq Pending,
         owed' \subseteq boxes', \A b \in owed' : Train(b[1])', CardKnown'
  PROVE  CoverInv'
<1>1. WalkKnown'
  BY DEF CoverInv, WalkKnown
<1>2. FetchKnown'
  BY DEF CoverInv, FetchKnown, LastNext
<1>3. \A b \in Pending' : Kept(b)' /\ Read(b)'
  <2> SUFFICES ASSUME NEW b \in Pending' PROVE Kept(b)' /\ Read(b)'
    OBVIOUS
  <2>1. Kept(b) /\ Read(b)
    BY DEF CoverInv
  <2> QED BY <2>1 DEF Kept, Read, Beyond, LastNext
<1> QED BY <1>1, <1>2, <1>3 DEF CoverInv

\* The card is known still if it, its submission and its place stay, or only
\* what is staged on it changes.
LEMMA CardStays ==
  ASSUME CardKnown, UNCHANGED <<pages, index>>, owed' \subseteq owed,
         card'.image = card.image, card'.boxes = card.boxes,
         card.image = 0 => sent' = {},
         \A s \in sent' : /\ s.image = card.image /\ s.ruled = card.boxes
                          /\ s.served => s.ruled \cap owed' = {}
  PROVE  CardKnown'
<1>1. pages' = pages /\ index' = index
  OBVIOUS
<1>2. /\ index - 1 <= Cardinality(Walk(pages))
      /\ card'.image = 0 => Place(pages, index) = {} /\ sent' = {}
  BY DEF CardKnown
<1>3. card'.image # 0 => \E at \in Place(pages, index) :
                           card'.image = at[2] /\ card'.boxes = On(at[2], pages[at[1]].boxes)
  BY DEF CardKnown
<1>4. \A s \in sent' : /\ s.image = card'.image /\ s.ruled = card'.boxes
                      /\ s.served => s.ruled \cap owed' = {}
  OBVIOUS
<1> QED BY <1>1, <1>2, <1>3, <1>4 DEF CardKnown

\* A cursor is a key, or none.
LEMMA CursorIs ==
  ASSUME WalkInv
  PROVE  fetch.cursor \in Nat
<1>1. fetch.cursor \in {0} \cup Images
  BY WalkParts DEF Fetches
<1>2. {0} \cup Images \subseteq Nat
  BY PoolAssumption
<1> QED BY <1>1, <1>2, Zenon

\* A page of the frames in ids passes over nothing that is pending.
PassesOverNone(ids) ==
  \A b \in Pending : \/ b[1] \in SeenOn(pages) \/ b[1] \in ids
                     \/ ids # {} /\ \A i \in ids : fetch.cursor < i /\ i < b[1]

\* A page is answered that passes over nothing that is pending.
LEMMA FetchedCovers ==
  ASSUME CoverInv, WalkInv', NEW ids \in SUBSET Images, NEW bs \in SUBSET Boxes,
         Fetched(ids, bs), UNCHANGED <<pool, sent, refreshed, owed>>, fetch.kind # "none",
         PassesOverNone(ids), \A b \in Pending : b[1] \in ids => b \in bs
  PROVE  CoverInv'
<1> DEFINE wrapped == {i \in ids : fetch.cursor # 0 /\ i <= fetch.cursor}
           last == IF ids = {} THEN 0 ELSE Max(IF wrapped = {} THEN ids ELSE wrapped)
           page == [images |-> ids, wrapped |-> wrapped, boxes |-> {b \in bs : b[1] \in ids},
                    next |-> last]
           new == Append(pages, page)
           n == Len(pages)
<1>0. /\ pages \in Seq(Page) /\ index \in Nat \ {0} /\ Images \subseteq Nat \ {0}
      /\ ~Drained(pages) /\ fetch.cursor = LastNext /\ fetch.got = <<>> /\ fetch.kind \in {"next", "all"}
      /\ fetch.kind = "all" => pages = <<>>
  BY WalkParts, PoolAssumption DEF CoverInv, FetchKnown, Fetches
<1>0a. fetch.cursor \in Nat
  BY CursorIs DEF CoverInv
<1>1. last \in {0} \cup Images
  <2>1. wrapped \in SUBSET Images
    OBVIOUS
  <2>2. CASE ids = {}
    BY <2>2
  <2>3. CASE ids # {} /\ wrapped = {}
    BY <2>3, GreatestIs
  <2>4. CASE ids # {} /\ wrapped # {}
    <3>1. Max(wrapped) \in wrapped
      <4> HIDE DEF wrapped
      <4> QED BY <2>1, <2>4, GreatestIs
    <3> QED BY <2>1, <2>4, <3>1
  <2> QED BY <2>2, <2>3, <2>4
<1>2. (ids # {} /\ wrapped = {}) => last \in ids /\ \A i \in ids : i <= last
  BY GreatestIs
<1>3. page \in Page /\ page.images = ids /\ page.next = last
      /\ page.boxes = {b \in bs : b[1] \in ids}
  <2> HIDE DEF last
  <2> QED BY <1>1 DEF Page
<1>4. fetch' = NoPage /\ Show(new, index)
  <2>1. \/ fetch.kind = "next" /\ fetch' = NoPage /\ Show(Append(pages, page), index)
        \/ /\ fetch.kind = "all" /\ page.next # 0 /\ Len(Append(fetch.got, page)) < Len(pages)
           /\ fetch' = FetchOf("all", page.next, Append(fetch.got, page))
        \/ fetch.kind = "all" /\ fetch' = NoPage /\ Show(Append(fetch.got, page), index)
    BY <1>0, Zenon DEF Fetched
  <2> HIDE DEF page
  <2>2. ~(Len(Append(<<>>, page)) < Len(<<>>))
    BY <1>3, EmptySeq, AppendProperties
  <2> QED BY <1>0, <2>1, <2>2
<1> HIDE DEF page
<1>5. pages' = new /\ index' = index /\ card' = Mounted(new, index)
  BY <1>4 DEF Show
<1>6. /\ new \in Seq(Page) /\ n \in Nat /\ Len(new) = n + 1
      /\ DOMAIN pages = 1 .. n /\ DOMAIN new = 1 .. n + 1
      /\ new[n + 1] = page /\ \A m \in 1 .. n : new[m] = pages[m]
      /\ SeenOn(new) = SeenOn(pages) \cup ids
      /\ \A m \in 1 .. n : Unseen(new, m) # {}
      /\ Unseen(new, n + 1) = ids \ SeenOn(pages)
      /\ Walk(pages) \subseteq Walk(new)
      /\ \A at \in Walk(pages) : Ahead(new, at) = Ahead(pages, at) /\ new[at[1]] = pages[at[1]]
      /\ \A at \in Walk(new) \ Walk(pages) :
           at[1] = n + 1 /\ Walk(pages) \subseteq Ahead(new, at)
  <2>1. page \in Page /\ page.images = ids /\ pages \in Seq(Page) /\ ~Drained(pages)
    BY <1>0, <1>3
  <2>2. Lengthens(pages, page, new, n)
    BY <2>1, WalkLonger
  <2> HIDE DEF new, n
  <2> QED BY <2>1, <2>2 DEF Lengthens
<1>7. \A m \in 1 .. n + 1 : m \in 1 .. n \/ m = n + 1
  BY <1>6
<1>8. WalkKnown'
  <2>1. \A m \in 1 .. n + 1 : m < n + 1 => m \in 1 .. n
    BY <1>6
  <2>2. boxes' = boxes /\ owed' = owed /\ \A i : Train(i)' <=> Train(i)
    BY DEF pool, Train
  <2> HIDE DEF new, n
  <2> QED BY <1>5, <1>6, <2>1, <2>2 DEF CoverInv, WalkKnown
<1>9. FetchKnown'
  BY <1>4 DEF FetchKnown, NoPage
<1>10. /\ IsFiniteSet(Walk(pages)) /\ Cardinality(Walk(pages)) \in Nat
       /\ IsFiniteSet(Walk(new)) /\ Cardinality(Walk(new)) \in Nat
       /\ Cardinality(Walk(pages)) <= Cardinality(Walk(new))
  <2> HIDE DEF new
  <2> QED BY <1>0, <1>6, WalkIs, FS_CardinalityType, FS_Subset
<1>11. CardKnown'
  <2> HIDE DEF new, n
  <2>1. index - 1 <= Cardinality(Walk(new))
    BY <1>0, <1>10 DEF CoverInv, CardKnown
  <2>2. ASSUME NEW at \in Place(pages, index)
        PROVE  at \in Place(new, index) /\ new[at[1]] = pages[at[1]]
    BY <1>6 DEF Place
  <2>3. card.image # 0 => \E at \in Place(new, index) :
                            card.image = at[2] /\ card.boxes = On(at[2], new[at[1]].boxes)
    BY <2>2 DEF CoverInv, CardKnown
  <2>4. card.image # 0 => \E at \in Walk(new) :
                            card.image = at[2] /\ card.boxes = On(at[2], new[at[1]].boxes)
    BY <2>3 DEF Place
  <2>5. LET c == Mounted(new, index) IN
        /\ c.image = 0 => Place(new, index) = {}
        /\ c.image # 0 => \E at \in Place(new, index) :
                            c.image = at[2] /\ c.boxes = On(at[2], new[at[1]].boxes)
        /\ (card.image # 0 /\ \E at \in Place(new, index) : at[2] = card.image) => c = card
    BY <1>0, <1>6, <2>4, MountedKnown
  <2>6. /\ card'.image = 0 => Place(new, index) = {}
        /\ card'.image # 0 => \E at \in Place(new, index) :
                                card'.image = at[2] /\ card'.boxes = On(at[2], new[at[1]].boxes)
        /\ card.image # 0 => card' = card
    BY <1>5, <2>3, <2>5
  <2>7. /\ card.image = 0 => sent' = {}
        /\ \A s \in sent' : s.image = card.image /\ s.ruled = card.boxes
                            /\ (s.served => s.ruled \cap owed' = {})
    BY DEF CoverInv, CardKnown
  <2>8. card'.image = 0 => card.image = 0
    BY <2>6
  <2> QED BY <1>5, <2>1, <2>6, <2>7, <2>8 DEF CardKnown
<1>12. \A b \in Pending' : b \in Pending /\ b \in boxes /\ b[1] \in Images
  BY WalkParts, PoolAssumption DEF CoverInv, WalkKnown, Pending, Settled, AdminRuled, pool
<1>13. ASSUME NEW b \in Pending'
       PROVE  Kept(b)' /\ Read(b)'
  <2> HIDE DEF new, n, last, wrapped
  <2>1. /\ b \in Pending /\ Kept(b) /\ (b[1] \in ids => b \in bs) /\ b[1] \in Nat
        /\ \/ b[1] \in SeenOn(pages) \/ b[1] \in ids
           \/ ids # {} /\ \A i \in ids : fetch.cursor < i /\ i < b[1]
    BY <1>0, <1>12, <1>13 DEF CoverInv, PassesOverNone
  <2>2. ASSUME NEW m \in 1 .. n + 1, b[1] \in new[m].images
        PROVE  b \in new[m].boxes
    <3>1. CASE m \in 1 .. n
      BY <1>6, <2>1, <2>2, <3>1 DEF Kept
    <3>2. CASE m = n + 1
      BY <1>3, <1>6, <2>1, <2>2, <3>2
    <3> QED BY <1>7, <3>1, <3>2
  <2>3. b[1] \in SeenOn(new) \/ Beyond(b)'
    <3>1. CASE b[1] \in SeenOn(pages) \/ b[1] \in ids
      BY <1>6, <3>1
    <3>2. CASE /\ b[1] \notin SeenOn(pages)
               /\ ids # {} /\ \A i \in ids : fetch.cursor < i /\ i < b[1]
      <4>1. \A i \in SeenOn(pages) : i <= fetch.cursor
        BY <1>0, <2>1, <3>2 DEF Kept, Beyond
      <4>2. \A i \in ids : i \in Nat /\ ~(i <= fetch.cursor) /\ i < b[1]
        <5>1. ASSUME NEW i \in ids
              PROVE  i \in Nat /\ b[1] \in Nat /\ fetch.cursor < i /\ i < b[1]
          BY <1>0, <2>1, <3>2
        <5> QED BY <1>0a, <5>1
      <4>3. wrapped = {} /\ \A i \in ids : i \notin SeenOn(pages)
        BY <4>1, <4>2 DEF wrapped
      <4>4. last \in ids /\ \A i \in ids : i <= last
        BY <1>2, <3>2, <4>3
      <4>5. LastNext' = last
        <5>1. new # <<>>
          BY <1>6, EmptySeq
        <5> QED BY <1>3, <1>5, <1>6, <5>1 DEF LastNext
      <4>6. ~Drained(new)
        <5>1. Unseen(new, n + 1) # {}
          BY <1>6, <3>2, <4>3
        <5> QED BY <1>6, <1>7, <5>1 DEF Drained
      <4>7. \A i \in SeenOn(new) : i <= last
        <5>1. \A i \in SeenOn(pages) : i \in Nat /\ i <= fetch.cursor
          <6>1. \A m \in DOMAIN pages : pages[m] \in Page
            BY <1>0
          <6> QED BY <1>0, <4>1, <6>1 DEF SeenOn, Page
        <5>2. fetch.cursor \in Nat /\ fetch.cursor < last /\ last \in Nat
          <6>1. last \in Nat /\ fetch.cursor < last
            BY <1>0, <3>2, <4>4
          <6> QED BY <1>0a, <6>1
        <5>3. ASSUME NEW i \in SeenOn(new)
              PROVE  i <= last
          <6>1. i \in SeenOn(pages) \/ i \in ids
            BY <1>6, <5>3
          <6>2. CASE i \in ids
            BY <4>4, <6>2
          <6>3. CASE i \in SeenOn(pages)
            <7>1. i \in Nat /\ i <= fetch.cursor
              BY <5>1, <6>3
            <7> QED BY <5>2, <7>1
          <6> QED BY <6>1, <6>2, <6>3
        <5> QED BY <5>3
      <4>8. last # 0 /\ last < b[1]
        BY <1>0, <4>2, <4>4
      <4> QED BY <1>5, <4>5, <4>6, <4>7, <4>8 DEF Beyond
    <3> QED BY <2>1, <3>1, <3>2
  <2>4. ASSUME NEW at \in Walk(new), at[2] = b[1]
        PROVE  Cardinality(Ahead(new, at)) >= index - 1
    <3>1. CASE at \in Walk(pages)
      BY <1>6, <2>1, <2>4, <3>1 DEF Kept
    <3>2. CASE at \notin Walk(pages)
      <4>1. Walk(pages) \subseteq Ahead(new, at)
        BY <1>6, <3>2
      <4>2. IsFiniteSet(Ahead(new, at)) /\ Cardinality(Ahead(new, at)) \in Nat
        BY <1>6, Ranks
      <4>3. Cardinality(Walk(pages)) <= Cardinality(Ahead(new, at))
        BY <4>1, <4>2, FS_Subset
      <4>4. index - 1 <= Cardinality(Walk(pages))
        BY DEF CoverInv, CardKnown
      <4> QED BY <1>0, <1>10, <4>2, <4>3, <4>4
    <3> QED BY <3>1, <3>2
  <2>5. Kept(b)'
    BY <1>5, <1>6, <2>2, <2>3, <2>4 DEF Kept
  <2>6. Read(b)'
    BY <1>4 DEF Read, NoPage
  <2> QED BY <2>5, <2>6
<1> QED BY <1>8, <1>9, <1>11, <1>13 DEF CoverInv

\* A read of the endpoint that answers nothing yet.
LEMMA StageCovers ==
  ASSUME CoverInv, WalkInv', NEW ids \in SUBSET Images, NEW stage \in {"wrap", "boxes"},
         fetch' = [fetch EXCEPT !.stage = stage, !.found = ids], fetch.kind # "none",
         UNCHANGED <<pages, index, card, pool, sent, refreshed, owed>>,
         PassesOverNone(ids),
         stage = "wrap" => \A b \in Pending : b[1] \in SeenOn(pages) \/ b[1] \in ids
  PROVE  CoverInv'
<1>1. fetch \in Fetches
  BY WalkParts DEF CoverInv
<1>2. /\ fetch'.kind = fetch.kind /\ fetch'.cursor = fetch.cursor /\ fetch'.got = fetch.got
      /\ fetch'.stage = stage /\ fetch'.found = ids
  BY <1>1, Zenon DEF Fetches
<1>3. WalkKnown'
  BY DEF CoverInv, WalkKnown, Train, pool
<1>4. FetchKnown'
  BY <1>2 DEF CoverInv, FetchKnown, LastNext
<1>5. CardKnown'
  BY DEF CoverInv, CardKnown
<1>6. ASSUME NEW b \in Pending'
      PROVE  Kept(b)' /\ Read(b)'
  <2>1. b \in Pending
    BY <1>6 DEF Pending, Settled, AdminRuled, pool
  <2>2. Kept(b)'
    <3>1. Kept(b)
      BY <2>1 DEF CoverInv
    <3> QED BY <3>1 DEF Kept, Beyond, LastNext
  <2>3. Read(b)'
    <3>1. pages' = pages
      OBVIOUS
    <3>2. \/ b[1] \in SeenOn(pages) \/ b[1] \in ids
          \/ stage # "wrap" /\ ids # {} /\ \A i \in ids : fetch.cursor < i /\ i < b[1]
      BY <2>1 DEF PassesOverNone
    <3> QED BY <1>2, <3>1, <3>2 DEF Read
  <2> QED BY <2>2, <2>3
<1> QED BY <1>3, <1>4, <1>5, <1>6 DEF CoverInv

\* A pending box the pages have not come to is in the pool above the cursor.
LEMMA BeyondIsInPool ==
  ASSUME CoverInv, fetch.kind # "none", NEW b \in Pending, b[1] \notin SeenOn(pages)
  PROVE  b[1] \in {i \in ContributorPool : i > fetch.cursor}
<1>1. Beyond(b) /\ fetch.cursor = LastNext
  BY DEF CoverInv, Kept, FetchKnown
<1>2. b \in boxes /\ ~Settled(b) /\ Train(b[1])
  BY DEF CoverInv, WalkKnown, Pending
<1>3. b[1] \in Images
  BY <1>2, WalkParts, PoolAssumption DEF CoverInv
<1>4. b[1] \in ContributorPool
  BY <1>2, <1>3 DEF ContributorPool, InTrain, Train, On
<1>5. b[1] > fetch.cursor
  <2>1. fetch.cursor \in Nat /\ b[1] \in Nat
    BY <1>3, CursorIs, PoolAssumption DEF CoverInv
  <2>2. fetch.cursor < b[1]
    BY <1>1 DEF Beyond
  <2> QED BY <2>1, <2>2
<1> QED BY <1>4, <1>5

\* No read of the endpoint passes over what is pending, though each finds the
\* pool as the others have left it.
LEMMA FetchingCovers ==
  ASSUME CoverInv, WalkInv', Fetching
  PROVE  CoverInv'
<1>1. UNCHANGED <<pool, sent, refreshed, owed>> /\ fetch.kind # "none"
  <2>1. UNCHANGED <<pool, sent, refreshed, owed>> /\ fetch.stage # "none"
    BY DEF Fetching, ReadPage, ReadWrap, ReadBoxes
  <2> QED BY <2>1 DEF CoverInv, FetchKnown
<1>2. ASSUME Fetched({}, {}), \A b \in Pending : b[1] \in SeenOn(pages)
      PROVE  CoverInv'
  <2>1. PassesOverNone({})
    BY <1>2 DEF PassesOverNone
  <2> QED BY <1>1, <1>2, <2>1, FetchedCovers
<1>3. CASE ReadPage
  <2> DEFINE above == {i \in ContributorPool : i > fetch.cursor}
             ids == Lowest(above, BatchSize)
  <2>1. above \in SUBSET Images /\ \A i \in above : fetch.cursor < i
    <3>1. ContributorPool \subseteq Images
      BY DEF ContributorPool
    <3>2. fetch.cursor \in Nat /\ Images \subseteq Nat
      BY CursorIs, PoolAssumption DEF CoverInv
    <3> QED BY <3>1, <3>2
  <2>2. \A b \in Pending : b[1] \in SeenOn(pages) \/ b[1] \in above
    BY <1>1, BeyondIsInPool
  <2>3. /\ ids \subseteq above /\ Cardinality(ids) \in Nat /\ (above # {} => ids # {})
        /\ \A i \in above \ ids : Cardinality(ids) >= BatchSize /\ \A j \in ids : j < i
    <3> HIDE DEF above
    <3> QED BY <2>1, WalkAssumption, LowestIs
  <2>4. \/ /\ Cardinality(ids) < BatchSize
           /\ fetch' = [fetch EXCEPT !.stage = "wrap", !.found = ids] /\ UNCHANGED <<pages, index, card>>
        \/ ids = {} /\ Fetched({}, {})
        \/ fetch' = [fetch EXCEPT !.stage = "boxes", !.found = ids] /\ UNCHANGED <<pages, index, card>>
    BY <1>3, Zenon DEF ReadPage
  <2> HIDE DEF above, ids
  <2>5. ids \in SUBSET Images
    BY <2>1, <2>3
  <2>6. PassesOverNone(ids)
    BY <2>1, <2>2, <2>3 DEF PassesOverNone
  <2>7. CASE ids = {} /\ Fetched({}, {})
    BY <1>2, <2>2, <2>3, <2>7
  <2>8. CASE /\ Cardinality(ids) < BatchSize
             /\ fetch' = [fetch EXCEPT !.stage = "wrap", !.found = ids]
             /\ UNCHANGED <<pages, index, card>>
    <3>1. \A i \in above : i \in ids
      BY <2>3, <2>8, WalkAssumption
    <3>2. \A b \in Pending : b[1] \in SeenOn(pages) \/ b[1] \in ids
      BY <2>2, <3>1
    <3> QED BY <1>1, <2>5, <2>6, <2>8, <3>2, StageCovers
  <2>9. CASE fetch' = [fetch EXCEPT !.stage = "boxes", !.found = ids] /\ UNCHANGED <<pages, index, card>>
    BY <1>1, <2>5, <2>6, <2>9, StageCovers
  <2> QED BY <2>4, <2>7, <2>8, <2>9
<1>4. CASE ReadWrap
  <2> DEFINE ids == fetch.found \cup Lowest(WrapPool, BatchSize - Cardinality(fetch.found))
  <2>1. \A b \in Pending : b[1] \in SeenOn(pages) \/ b[1] \in fetch.found
    BY <1>4 DEF ReadWrap, CoverInv, Read
  <2>2. ids \in SUBSET Images /\ fetch.found \subseteq ids
    <3>1. fetch.found \subseteq Images
      BY WalkParts DEF CoverInv, Fetches
    <3> QED BY <3>1 DEF Lowest, WrapPool, ContributorPool
  <2>3. \/ ids = {} /\ Fetched({}, {})
        \/ fetch' = [fetch EXCEPT !.stage = "boxes", !.found = ids] /\ UNCHANGED <<pages, index, card>>
    BY <1>4, Zenon DEF ReadWrap
  <2> HIDE DEF ids
  <2>4. CASE ids = {} /\ Fetched({}, {})
    BY <1>2, <2>1, <2>2, <2>4
  <2>5. CASE fetch' = [fetch EXCEPT !.stage = "boxes", !.found = ids] /\ UNCHANGED <<pages, index, card>>
    <3>1. PassesOverNone(ids)
      BY <2>1, <2>2 DEF PassesOverNone
    <3> QED BY <1>1, <2>2, <2>5, <3>1, StageCovers
  <2> QED BY <2>3, <2>4, <2>5
<1>5. CASE ReadBoxes
  <2> DEFINE left == {b \in boxes : ~Settled(b)}
  <2>1. fetch.stage = "boxes" /\ Fetched(fetch.found, left)
    BY <1>5 DEF ReadBoxes
  <2>2. PassesOverNone(fetch.found)
    BY <2>1 DEF CoverInv, Read, PassesOverNone
  <2>3. fetch.found \in SUBSET Images /\ left \in SUBSET Boxes
    <3>1. fetch.found \in SUBSET Images
      BY WalkParts DEF CoverInv, Fetches
    <3>2. boxes \subseteq Boxes
      BY WalkParts DEF CoverInv
    <3> QED BY <3>1, <3>2
  <2>4. \A b \in Pending : b \in left
    BY DEF CoverInv, WalkKnown, Pending
  <2> HIDE DEF left
  <2> QED BY <1>1, <2>1, <2>2, <2>3, <2>4, FetchedCovers
<1> QED BY <1>3, <1>4, <1>5 DEF Fetching

\* A walk without pages has no place and shows no frame.
LEMMA NoPages ==
  /\ Walk(<<>>) = {} /\ SeenOn(<<>>) = {} /\ ~Drained(<<>>) /\ DOMAIN <<>> = {}
  /\ \A ix \in Nat : Place(<<>>, ix) = {}
  /\ Cardinality(Walk(<<>>)) = 0
<1>1. DOMAIN <<>> = {}
  BY EmptySeq
<1>2. Walk(<<>>) = {}
  BY <1>1 DEF Walk
<1>3. SeenOn(<<>>) = {} /\ ~Drained(<<>>)
  BY <1>1 DEF SeenOn, Drained
<1>4. \A ix \in Nat : Place(<<>>, ix) = {}
  BY <1>2 DEF Place
<1>5. Cardinality(Walk(<<>>)) = 0
  BY <1>2, FS_EmptySet
<1> QED BY <1>1, <1>2, <1>3, <1>4, <1>5

\* The walk is opened, or opened anew: all that waits in the pool is owed.
LEMMA OpeningCovers ==
  ASSUME WalkInv, WalkInv', UNCHANGED pool, owed' = Waiting,
         pages' = <<>>, index' = 1, card'.image = 0, sent' = {}, fetch' = FetchOf("all", 0, <<>>)
  PROVE  CoverInv'
<1>1. /\ fetch'.kind = "all" /\ fetch'.stage = "page" /\ fetch'.cursor = 0 /\ fetch'.got = <<>>
  BY DEF FetchOf
<1>2. LastNext' = 0
  BY DEF LastNext
<1>3. WalkKnown'
  <2>1. owed' \subseteq boxes' /\ \A b \in owed' : Train(b[1])
    BY PoolIsTrain DEF Waiting, pool
  <2>2. \A b \in owed' : Train(b[1])'
    BY <2>1 DEF Train, pool
  <2> QED BY <2>1, <2>2, NoPages DEF WalkKnown
<1>4. FetchKnown'
  BY <1>1, <1>2, NoPages DEF FetchKnown
<1>5. CardKnown'
  BY NoPages DEF CardKnown
<1>6. ASSUME NEW b \in Pending'
      PROVE  Kept(b)' /\ Read(b)'
  <2>1. 0 < b[1]
    <3>1. b[1] \in Images
      BY PoolIsTrain DEF Pending, Waiting
    <3>2. Images \subseteq Nat \ {0}
      BY PoolAssumption
    <3>3. \A i \in Nat \ {0} : 0 < i
      OBVIOUS
    <3> QED BY <3>1, <3>2, <3>3, Zenon
  <2>2. Kept(b)'
    BY <1>2, <2>1, NoPages DEF Kept, Beyond
  <2>3. Read(b)'
    BY <1>1 DEF Read
  <2> QED BY <2>2, <2>3
<1> QED BY <1>3, <1>4, <1>5, <1>6 DEF CoverInv

\* A fetch is asked for.
LEMMA AsksCover ==
  ASSUME CoverInv, WalkInv', Open \/ FetchMore \/ StartOver
  PROVE  CoverInv'
<1>1. CASE Open
  <2>1. /\ pages = <<>> /\ fetch' = FetchOf("all", 0, <<>>) /\ owed' = Waiting
        /\ UNCHANGED <<pool, pages, index, card, sent>>
    BY <1>1 DEF Open
  <2>2. index = 1
    <3>1. index - 1 <= 0 /\ index \in Nat \ {0}
      BY <2>1, NoPages, WalkParts DEF CoverInv, CardKnown
    <3> QED BY <3>1
  <2>3. card.image = 0 /\ sent = {}
    <3>1. Place(pages, index) = {}
      BY <2>1, <2>2, NoPages
    <3> QED BY <3>1 DEF CoverInv, CardKnown
  <2> QED BY <2>1, <2>2, <2>3, OpeningCovers DEF CoverInv
<1>2. CASE StartOver
  <2>1. /\ fetch' = FetchOf("all", 0, <<>>) /\ pages' = <<>> /\ index' = 1
        /\ card' = Mounted(<<>>, 1) /\ owed' = Waiting /\ card.image = 0
        /\ UNCHANGED <<pool, sent>>
    BY <1>2 DEF StartOver, Show, Done
  <2>2. card' = NoCard
    BY <2>1, NoPages DEF Mounted
  <2>3. card'.image = 0 /\ sent' = {}
    BY <2>1, <2>2 DEF NoCard, CoverInv, CardKnown
  <2> QED BY <2>1, <2>3, OpeningCovers DEF CoverInv
<1>3. CASE FetchMore
  <2>1. /\ pages # <<>> /\ ~Drained(pages) /\ LastNext # 0 /\ fetch' = FetchOf("next", LastNext, <<>>)
        /\ UNCHANGED <<pool, pages, index, card, sent, refreshed, owed>>
    BY <1>3 DEF FetchMore, LastNext
  <2>2. /\ fetch'.kind = "next" /\ fetch'.stage = "page" /\ fetch'.cursor = LastNext
        /\ fetch'.got = <<>>
    BY <2>1 DEF FetchOf
  <2>3. LastNext' = LastNext
    BY <2>1 DEF LastNext
  <2>4. WalkKnown' /\ CardKnown'
    BY <2>1 DEF CoverInv, WalkKnown, CardKnown, Train, pool
  <2>5. FetchKnown'
    BY <2>1, <2>2, <2>3 DEF FetchKnown
  <2>6. ASSUME NEW b \in Pending'
        PROVE  Kept(b)' /\ Read(b)'
    <3>1. b \in Pending
      BY <2>1, <2>6 DEF Pending, Settled, AdminRuled, pool
    <3>2. Kept(b)
      BY <3>1 DEF CoverInv
    <3>3. Kept(b)'
      BY <2>1, <2>3, <3>2 DEF Kept, Beyond
    <3>4. Read(b)'
      BY <2>2 DEF Read
    <3> QED BY <3>3, <3>4
  <2> QED BY <2>4, <2>5, <2>6 DEF CoverInv
<1> QED BY <1>1, <1>2, <1>3

\* The contributor rules and takes back, a submission is served or fails, others
\* rule and the detector reports: the walk stays where it is.
LEMMA StayingCovers ==
  ASSUME CoverInv, WalkInv',
         \/ Elsewhere
         \/ Rule \/ \E b \in card.staged : Unstage(b)
         \/ \E s \in sent : Serve(s) \/ SubmitFails(s)
  PROVE  CoverInv'
<1>1. ASSUME UNCHANGED <<pages, fetch, index, pool, owed>>, card'.image = card.image,
             card'.boxes = card.boxes, card.image = 0 => sent' = {},
             \A s \in sent' : /\ s.image = card.image /\ s.ruled = card.boxes
                              /\ s.served => s \in sent
      PROVE  CoverInv'
  <2>1. Pending' = Pending /\ owed' \subseteq boxes' /\ \A b \in owed' : Train(b[1])'
    BY <1>1 DEF CoverInv, WalkKnown, Pending, Settled, AdminRuled, Train, pool
  <2>2. \A s \in sent' : /\ s.image = card.image /\ s.ruled = card.boxes
                         /\ s.served => s.ruled \cap owed' = {}
    BY <1>1 DEF CoverInv, CardKnown
  <2>3. CardKnown'
    BY <1>1, <2>2, CardStays DEF CoverInv
  <2> QED BY <1>1, <2>1, <2>3, CoverStays
<1>2. ASSUME UNCHANGED <<pages, fetch, index, card>>, owed' \subseteq owed, boxes \subseteq boxes',
             verdicts \subseteq verdicts', trusted \subseteq trusted',
             \A i \in Images : Train(i) => Train(i)',
             card.image = 0 => sent' = {},
             \A s \in sent' : /\ s.image = card.image /\ s.ruled = card.boxes
                              /\ s.served => s.ruled \cap owed' = {}
      PROVE  CoverInv'
  <2>1. Pending' \subseteq Pending /\ owed' \subseteq boxes' /\ \A b \in owed' : Train(b[1])'
    BY <1>2, PendingShrinks DEF CoverInv
  <2>2. CardKnown'
    BY <1>2, CardStays DEF CoverInv
  <2> QED BY <1>2, <2>1, <2>2, CoverStays
<1>3. CASE Rule
  <2> DEFINE new == [image |-> card.image, ruled |-> card.boxes, served |-> FALSE]
  <2>1. /\ card.boxes \ card.staged # {} /\ sent' \in {{}, {new}}
        /\ UNCHANGED <<pool, pages, fetch, index, owed>>
    BY <1>3, Zenon DEF Rule
  <2>2. card'.image = card.image /\ card'.boxes = card.boxes
    <3>1. card \in Cards
      BY WalkParts DEF CoverInv
    <3> QED BY <1>3, <3>1 DEF Rule, Cards
  <2>3. card.image # 0
    BY <2>1, WalkParts DEF CoverInv
  <2>4. new.image = card.image /\ new.ruled = card.boxes /\ ~new.served
    OBVIOUS
  <2> HIDE DEF new
  <2> QED BY <1>1, <2>1, <2>2, <2>3, <2>4
<1>4. ASSUME NEW b \in card.staged, Unstage(b)
      PROVE  CoverInv'
  <2>1. UNCHANGED <<pool, pages, fetch, index, sent, owed>> /\ sent = {}
    BY <1>4 DEF Unstage
  <2>2. card'.image = card.image /\ card'.boxes = card.boxes
    <3>1. card \in Cards
      BY WalkParts DEF CoverInv
    <3> QED BY <1>4, <3>1 DEF Unstage, Cards
  <2> QED BY <1>1, <2>1, <2>2
<1>5. ASSUME NEW s \in sent, SubmitFails(s)
      PROVE  CoverInv'
  <2>1. sent' = {} /\ UNCHANGED <<pool, pages, fetch, index, card, owed>>
    BY <1>5 DEF SubmitFails
  <2> QED BY <1>1, <2>1
<1>6. ASSUME NEW s \in sent, Serve(s)
      PROVE  CoverInv'
  <2> DEFINE served == [s EXCEPT !.served = TRUE]
  <2>1. /\ UserSubmits(Me, s.image, s.ruled) /\ sent' = {served} /\ owed' = owed \ s.ruled
        /\ UNCHANGED <<pages, fetch, index, card>>
    BY <1>6, Zenon DEF Serve
  <2>2. served.image = s.image /\ served.ruled = s.ruled
    <3>1. s \in [image : Images, ruled : SUBSET Boxes, served : BOOLEAN]
      BY WalkParts DEF CoverInv
    <3> QED BY <3>1
  <2> HIDE DEF served
  <2>3. s.image = card.image /\ s.ruled = card.boxes /\ card.image # 0
    BY DEF CoverInv, CardKnown
  <2>4. /\ boxes' = boxes /\ verdicts \subseteq verdicts' /\ trusted' = trusted
        /\ selection' = selection
    BY <2>1 DEF UserSubmits, Insert
  <2>5. \A i \in Images : Train(i) => Train(i)'
    BY <2>4 DEF Train
  <2> QED BY <1>2, <2>1, <2>2, <2>3, <2>4, <2>5
<1>7. CASE Elsewhere
  <2>1. UNCHANGED <<pages, fetch, index, card, sent, owed>>
    BY <1>7 DEF Elsewhere, screen
  <2>2. /\ boxes \subseteq boxes' /\ verdicts \subseteq verdicts' /\ trusted \subseteq trusted'
        /\ \A i \in Images : Train(i) => Train(i)'
    <3>1. CASE ReportSome
      BY <3>1 DEF ReportSome, Report, Train
    <3>2. ASSUME NEW who \in Others, NEW image \in Images,
                 NEW ruled \in SUBSET On(image, boxes), Submits(who, image, ruled)
          PROVE  /\ boxes' = boxes /\ verdicts \subseteq verdicts' /\ trusted' = trusted
                 /\ selection' = selection
      BY <3>2 DEF Submits, AdminSubmits, VisitorSubmits, UserSubmits, Insert
    <3>3. ASSUME NEW u \in Users, Promote(u)
          PROVE  UNCHANGED <<boxes, verdicts, selection>> /\ trusted \subseteq trusted'
      BY <3>3 DEF Promote
    <3> QED BY <1>7, <3>1, <3>2, <3>3 DEF Elsewhere, Train
  <2>3. /\ card.image = 0 => sent = {}
        /\ \A s \in sent : /\ s.image = card.image /\ s.ruled = card.boxes
                           /\ s.served => s.ruled \cap owed = {}
    BY DEF CoverInv, CardKnown
  <2> QED BY <1>2, <2>1, <2>2, <2>3
<1> QED BY <1>3, <1>4, <1>5, <1>6, <1>7

\* The walk moves on by one place: what it leaves behind has been ruled on.
LEMMA AdvanceCovers ==
  ASSUME CoverInv, WalkInv', NEW s \in sent, Advance(s)
  PROVE  CoverInv'
<1>1. /\ pages' = pages /\ index' = index + 1 /\ card' = Mounted(pages, index + 1)
      /\ sent' = {} /\ UNCHANGED <<pool, fetch, owed>> /\ s.served
  BY DEF Advance, Show
<1>2. pages \in Seq(Page) /\ index \in Nat \ {0}
  BY WalkParts DEF CoverInv
<1>3. s.ruled = card.boxes /\ s.ruled \cap owed = {} /\ card.image # 0
  BY <1>1 DEF CoverInv, CardKnown
<1>4. PICK at \in Place(pages, index) :
        card.image = at[2] /\ card.boxes = On(at[2], pages[at[1]].boxes)
  BY <1>3 DEF CoverInv, CardKnown
<1>5. at \in Walk(pages) /\ Cardinality(Ahead(pages, at)) = index - 1
  BY <1>4 DEF Place
<1>6. WalkKnown' /\ FetchKnown'
  BY <1>1 DEF CoverInv, WalkKnown, FetchKnown, LastNext, Train, pool
<1>7. CardKnown'
  <2>1. (index + 1) - 1 <= Cardinality(Walk(pages)) /\ index + 1 \in Nat \ {0}
    <3>1. /\ Cardinality(Walk(pages)) \in Nat
          /\ Cardinality(Ahead(pages, at)) < Cardinality(Walk(pages))
      BY <1>2, <1>5, Ranks
    <3> QED BY <1>2, <1>5, <3>1
  <2>2. \E old \in Walk(pages) : card.image = old[2] /\ card.boxes = On(old[2], pages[old[1]].boxes)
    BY <1>4, <1>5
  <2>3. LET c == Mounted(pages, index + 1) IN
        /\ c.image = 0 => Place(pages, index + 1) = {}
        /\ c.image # 0 => \E new \in Place(pages, index + 1) :
                            c.image = new[2] /\ c.boxes = On(new[2], pages[new[1]].boxes)
    BY <1>2, <2>1, <2>2, MountedKnown
  <2> QED BY <1>1, <2>1, <2>3 DEF CardKnown
<1>8. ASSUME NEW b \in Pending'
      PROVE  Kept(b)' /\ Read(b)'
  <2>1. b \in Pending /\ b \in owed
    BY <1>1, <1>8 DEF Pending, Settled, AdminRuled, pool
  <2>2. Kept(b) /\ Read(b)
    BY <2>1 DEF CoverInv
  <2>3. ASSUME NEW p \in Walk(pages), p[2] = b[1]
        PROVE  Cardinality(Ahead(pages, p)) >= (index + 1) - 1
    <3>1. Cardinality(Ahead(pages, p)) >= index - 1
      BY <2>2, <2>3 DEF Kept
    <3>2. p # at
      <4>1. CASE p = at
        <5>1. at[1] \in DOMAIN pages /\ b[1] \in pages[at[1]].images
          BY <1>2, <1>5, <2>3, <4>1, WalkIs
        <5>2. b \in pages[at[1]].boxes
          BY <2>2, <5>1 DEF Kept
        <5>3. b \in card.boxes
          BY <1>4, <2>3, <4>1, <5>2 DEF On
        <5> QED BY <1>3, <2>1, <5>3
      <4> QED BY <4>1
    <3>3. Cardinality(Ahead(pages, p)) # index - 1 /\ Cardinality(Ahead(pages, p)) \in Nat
      BY <1>2, <1>5, <3>2, Ranks
    <3> QED BY <1>2, <3>1, <3>3
  <2>4. Kept(b)'
    BY <1>1, <2>2, <2>3 DEF Kept, Beyond, LastNext
  <2>5. Read(b)'
    BY <1>1, <2>2 DEF Read
  <2> QED BY <2>4, <2>5
<1> QED BY <1>6, <1>7, <1>8 DEF CoverInv

\* A walk that has come to its end owes nothing that is pending: a page would
\* show its frame, at a place that is not behind the walk's own.
LEMMA EndOwesNothing ==
  ASSUME CoverInv
  PROVE  WalkRulesAll
<1> SUFFICES ASSUME Done, NEW b \in owed, ~Settled(b) PROVE FALSE
  BY DEF WalkRulesAll
<1>1. b \in Pending /\ Kept(b)
  BY DEF Pending, CoverInv
<1>2. /\ pages \in Seq(Page) /\ index \in Nat \ {0} /\ Len(pages) \in Nat
      /\ DOMAIN pages = 1 .. Len(pages)
  BY WalkParts, LenProperties DEF CoverInv
<1>3. b[1] \in SeenOn(pages)
  BY <1>1 DEF Kept, Beyond, Done
<1> DEFINE showing == {m \in DOMAIN pages : b[1] \in pages[m].images}
<1>4. PICK m \in showing : \A k \in showing : m <= k
  <2>1. showing \in SUBSET Nat /\ showing # {}
    BY <1>2, <1>3 DEF SeenOn
  <2> HIDE DEF showing
  <2> QED BY <2>1, LeastIs
<1>5. m \in 1 .. Len(pages) /\ b[1] \in Unseen(pages, m)
  <2>1. \A k \in 1 .. m - 1 : k \in DOMAIN pages /\ ~(m <= k)
    BY <1>2
  <2> QED BY <1>2, <1>4, <2>1 DEF Unseen
<1>6. \A k \in 1 .. m : Unseen(pages, k) # {}
  <2>1. \A k \in 1 .. m : k = m \/ (k \in DOMAIN pages /\ k < Len(pages))
    BY <1>2, <1>5
  <2> QED BY <1>5, <2>1 DEF CoverInv, WalkKnown
<1>7. <<m, b[1]>> \in Walk(pages)
  BY <1>2, <1>5, <1>6 DEF Walk
<1>8. Cardinality(Ahead(pages, <<m, b[1]>>)) >= index - 1
  BY <1>1, <1>7 DEF Kept
<1>9. PICK q \in Walk(pages) : Cardinality(Ahead(pages, q)) = index - 1
  <2>1. index - 1 \in Nat
    BY <1>2
  <2> QED BY <1>2, <1>7, <1>8, <2>1, NoGap
<1>10. Place(pages, index) = {}
  BY DEF Done, CoverInv, CardKnown
<1> QED BY <1>9, <1>10 DEF Place

\* Unless an image fails to load and the pages are fetched anew, the walk comes
\* to its end only when each box that waited has been ruled on or settled,
\* however the pool shrinks and grows under the pages.
THEOREM WalkMissesNothing ==
  ASSUME ~UrlsExpire
  PROVE  Spec => []WalkRulesAll
<1>1. Init /\ WalkInv => CoverInv
  <2> SUFFICES ASSUME Init, WalkInv PROVE CoverInv
    OBVIOUS
  <2>1. pages = <<>> /\ index = 1 /\ card.image = 0 /\ sent = {} /\ owed = {} /\ fetch = NoPage
    BY DEF Init, NoCard
  <2>2. WalkKnown /\ FetchKnown /\ CardKnown
    BY <2>1, NoPages DEF WalkKnown, FetchKnown, CardKnown, NoPage
  <2> QED BY <2>1, <2>2 DEF CoverInv, Pending
<1>2. CoverInv /\ WalkInv' /\ [Next]_vars => CoverInv'
  <2> SUFFICES ASSUME CoverInv, WalkInv', [Next]_vars PROVE CoverInv'
    OBVIOUS
  <2>1. CASE UNCHANGED vars
    <3>1. UNCHANGED <<pool, pages, fetch, index, card, sent, owed>>
      BY <2>1 DEF vars, screen
    <3>2. Pending' = Pending /\ owed' \subseteq boxes' /\ \A b \in owed' : Train(b[1])'
      BY <3>1 DEF CoverInv, WalkKnown, Pending, Settled, AdminRuled, Train, pool
    <3>3. CardKnown'
      BY <3>1 DEF CoverInv, CardKnown
    <3> QED BY <3>1, <3>2, <3>3, CoverStays
  <2>2. CASE \/ Elsewhere
             \/ Rule \/ \E b \in card.staged : Unstage(b)
             \/ \E s \in sent : Serve(s) \/ SubmitFails(s)
    BY <2>2, StayingCovers
  <2>3. CASE Fetching
    BY <2>3, FetchingCovers
  <2>4. CASE Open \/ FetchMore \/ StartOver
    BY <2>4, AsksCover
  <2>5. ASSUME NEW s \in sent, Advance(s)
        PROVE  CoverInv'
    BY <2>5, AdvanceCovers
  <2>6. CASE ImageError
    BY <2>6 DEF ImageError
  <2> QED BY <2>1, <2>2, <2>3, <2>4, <2>5, <2>6 DEF Next
<1>3. CoverInv => WalkRulesAll
  BY EndOwesNothing
<1> QED BY <1>1, <1>2, <1>3, WalkInvariant, PTL DEF Spec
=============================================================================
