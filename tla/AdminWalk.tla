------------------------------ MODULE AdminWalk ------------------------------
(***************************************************************************)
(* An administrator's walk through the boxes waiting for a ruling: the     *)
(* batch endpoint, which reads the frames and then their boxes, the query  *)
(* that caches its answer, and the screen, which filters that answer by    *)
(* what it has sent since.  The screen sends no cursor, so every batch is  *)
(* the lowest of what waits and nothing wraps.  Other administrators rule  *)
(* and the detector reports meanwhile; contributors change nothing that    *)
(* this screen reads.                                                      *)
(*                                                                         *)
(* The cache outlives the screen: going to another page of /admin and back *)
(* mounts the screen anew over the batch that is there (it is dropped five *)
(* minutes later, which is not modelled).                                  *)
(***************************************************************************)
EXTENDS LabellingPool, FiniteSetsExt

CONSTANT
  DeskBatch      (* LABELLING_BATCH_SIZE                                    *)

ASSUME DeskAssumption == DeskBatch \in Nat \ {0}

VARIABLES
  held,       (* the batch in the cache, or NoBatch                         *)
  asking,     (* the fetch in flight, or NotAsking                          *)
  alert,      (* batch.isError                                              *)
  finished,   (* ruled: the boxes this mount has had accepted               *)
  spent,      (* refreshedFor                                               *)
  broken,     (* brokenFrames                                               *)
  desk,       (* the mounted VerificationCard                               *)
  posted,     (* submissions in flight                                      *)
  heardHere,  (* history: the boxes of accepted submissions, of this mount  *)
  heardEver   (* and of all                                                 *)

deskScreen == <<held, asking, alert, finished, spent, broken, desk, posted>>
deskVars == <<pool, deskScreen, heardHere, heardEver>>

\* Frames come in the order of their numbers, each with those of the boxes that
\* are on it; `owed` is history: the boxes that waited when the frames were read.
NoBatch == [frames |-> {}, boxes |-> {}, remaining |-> -1, owed |-> {}]
NotAsking == [why |-> "none", stage |-> "none", batch |-> NoBatch]
Ask(why) == [why |-> why, stage |-> "frames", batch |-> NoBatch]

NoDesk == [image |-> 0, boxes |-> {}, staged |-> {}]

-----------------------------------------------------------------------------
(* What the screen makes of the batch.                                     *)

\* remainingFrames: what is left of each frame, and no frame with nothing left.
RemainingFrames(batch, done) == {i \in batch.frames : On(i, batch.boxes \ done) # {}}

\* The card is keyed on its frame; a frame that stays keeps what is staged on
\* it, and `rulings` drops what is staged on boxes it has no more.
Placed(batch, done) ==
  LET remaining == RemainingFrames(batch, done)
      first == Min(remaining)
      left == On(first, batch.boxes \ done)
  IN IF remaining = {} THEN NoDesk
     ELSE [image |-> first, boxes |-> left,
           staged |-> IF first = desk.image THEN desk.staged \cap left ELSE {}]

StillWaiting ==
  held.remaining - (Cardinality(held.frames) - Cardinality(RemainingFrames(held, finished)))

\* "Nothing left to verify": every pre-labelled frame has been ruled on.
NothingLeft == held # NoBatch /\ ~alert /\ desk = NoDesk /\ StillWaiting <= 0

-----------------------------------------------------------------------------
(* The endpoint, one step a batch of reads, and the cache.                 *)

AdminWaiting == {i \in Images : unruled[i] > 0}

FirstFrames(n) == {i \in AdminWaiting : Cardinality({j \in AdminWaiting : j < i}) < n}

\* The frames and how many wait in all: one transaction.
ReadFrames ==
  /\ asking.stage = "frames"
  /\ asking' = [asking EXCEPT
       !.stage = "boxes",
       !.batch = [frames |-> FirstFrames(DeskBatch), boxes |-> {},
                  remaining |-> Cardinality(AdminWaiting),
                  owed |-> {b \in boxes : ~AdminRuled(b)}]]
  /\ UNCHANGED <<pool, held, alert, finished, spent, broken, desk, posted,
                 heardHere, heardEver>>

\* The answer of a fetch: nextBatch clears its sets after, and only after, the
\* batch they were about is gone.
Arrives(batch) ==
  /\ held' = batch /\ asking' = NotAsking /\ alert' = FALSE
  /\ IF asking.why = "next"
       THEN /\ finished' = {} /\ spent' = {} /\ broken' = {}
            /\ desk' = Placed(batch, {})
       ELSE /\ UNCHANGED <<finished, spent, broken>>
            /\ desk' = Placed(batch, finished)

\* Each frame with the boxes nobody ruled on since it was read, if any.
ReadFrameBoxes ==
  /\ asking.stage = "boxes"
  /\ Arrives([asking.batch EXCEPT
       !.boxes = UNION {WaitsForAdmin(i) : i \in asking.batch.frames}])
  /\ UNCHANGED <<pool, posted, heardHere, heardEver>>

\* refetchQueries does not throw: the sets are cleared all the same, behind
\* an alert that only a fetch that succeeds takes away.
AskFails ==
  /\ asking # NotAsking
  /\ asking' = NotAsking /\ alert' = TRUE /\ desk' = NoDesk
  /\ IF asking.why = "next" THEN finished' = {} /\ spent' = {} /\ broken' = {}
     ELSE UNCHANGED <<finished, spent, broken>>
  /\ UNCHANGED <<pool, held, posted, heardHere, heardEver>>

\* The first fetch, or the next time the window has the focus after a failure.
AskFirst ==
  /\ asking = NotAsking
  /\ held = NoBatch \/ alert
  /\ asking' = Ask("first")
  /\ UNCHANGED <<pool, held, alert, finished, spent, broken, desk, posted,
                 heardHere, heardEver>>

-----------------------------------------------------------------------------
(* The screen.                                                             *)

\* Mistake: the sets are cleared before the refetch.
NextBatchClearsFirst ==
  /\ held # NoBatch /\ ~alert /\ desk = NoDesk
  /\ asking' = Ask("next")
  /\ finished' = {} /\ spent' = {} /\ broken' = {}
  /\ desk' = Placed(held, {})
  /\ UNCHANGED <<pool, held, alert, posted, heardHere, heardEver>>

\* "Next batch" or "Check again"; a second click cancels the first fetch.
NextBatch ==
  /\ held # NoBatch /\ ~alert /\ desk = NoDesk
  /\ asking' = Ask("next")
  /\ UNCHANGED <<pool, held, alert, finished, spent, broken, desk, posted,
                 heardHere, heardEver>>

Idling == \A p \in posted : ~p.heard      \* not busy

\* Accept, Adjust and Reject on one box, or Reject again to take it back.
StageBox(b) ==
  /\ b \in desk.boxes /\ Idling
  /\ desk' = [desk EXCEPT !.staged = IF b \in @ THEN @ \ {b} ELSE @ \cup {b}]
  /\ UNCHANGED <<pool, held, asking, alert, finished, spent, broken, posted,
                 heardHere, heardEver>>

RejectWholeFrame ==
  /\ desk.boxes # {} /\ Idling
  /\ desk' = [desk EXCEPT !.staged = desk.boxes]
  /\ UNCHANGED <<pool, held, asking, alert, finished, spent, broken, posted,
                 heardHere, heardEver>>

SubmitRulings ==
  /\ desk.staged # {} /\ Idling
  /\ posted' = posted \cup {[image |-> desk.image, ruled |-> desk.staged,
                             served |-> FALSE, heard |-> TRUE]}
  /\ UNCHANGED <<pool, held, asking, alert, finished, spent, broken, desk,
                 heardHere, heardEver>>

PostServed(p) ==
  /\ ~p.served
  /\ AdminSubmits(p.image, p.ruled)
  /\ posted' = (posted \ {p}) \cup {[p EXCEPT !.served = TRUE]}
  /\ UNCHANGED <<held, asking, alert, finished, spent, broken, desk, heardHere, heardEver>>

\* onSuccess: the boxes are done with, and the frame if it has no others.
PostHeard(p) ==
  /\ p.served /\ p.heard
  /\ posted' = posted \ {p}
  /\ finished' = finished \cup p.ruled
  /\ desk' = IF alert THEN NoDesk ELSE Placed(held, finished \cup p.ruled)
  /\ heardHere' = heardHere \cup p.ruled /\ heardEver' = heardEver \cup p.ruled
  /\ UNCHANGED <<pool, held, asking, alert, spent, broken>>

\* Mistake: the boxes are taken for done whatever became of the call.
PostLostAdvancing(p) ==
  /\ posted' = posted \ {p}
  /\ finished' = finished \cup p.ruled
  /\ desk' = IF alert THEN NoDesk ELSE Placed(held, finished \cup p.ruled)
  /\ UNCHANGED <<pool, held, asking, alert, spent, broken, heardHere, heardEver>>

\* The call fails, served or not, or the screen it came from is gone.
PostLost(p) ==
  /\ posted' = posted \ {p}
  /\ UNCHANGED <<pool, held, asking, alert, finished, spent, broken, desk,
                 heardHere, heardEver>>

\* One re-request a frame: a second failure is a missing object.
ImageFails ==
  /\ desk # NoDesk
  /\ IF desk.image \in spent
       THEN broken' = broken \cup {desk.image} /\ UNCHANGED <<asking, spent>>
       ELSE /\ spent' = spent \cup {desk.image} /\ asking' = Ask("refresh")
            /\ UNCHANGED broken
  /\ UNCHANGED <<pool, held, alert, finished, desk, posted, heardHere, heardEver>>

\* Away to another page and back: the cache stays, and with an infinite
\* staleTime nothing is asked again; the sets and the callbacks are gone.
Remount ==
  /\ \A p \in posted : p.heard              \* bound: one orphan at a time
  /\ finished' = {} /\ spent' = {} /\ broken' = {} /\ heardHere' = {}
  /\ desk' = IF alert THEN NoDesk ELSE [Placed(held, {}) EXCEPT !.staged = {}]
  /\ posted' = {[p EXCEPT !.heard = FALSE] : p \in posted}
  /\ asking' = IF asking.why = "next" THEN [asking EXCEPT !.why = "refresh"] ELSE asking
  /\ UNCHANGED <<pool, held, alert, heardEver>>

-----------------------------------------------------------------------------
(* The specification.                                                      *)

DeskElsewhere ==
  /\ \/ \E found \in SUBSET (Boxes \ boxes) :
          found # {} /\ Report({b[1] : b \in found}, found, "random")
     \/ \E image \in Images, ruled \in SUBSET boxes : AdminSubmits(image, ruled)
  /\ UNCHANGED <<deskScreen, heardHere, heardEver>>

MountInit ==
  /\ held = NoBatch /\ asking = NotAsking /\ alert = FALSE
  /\ finished = {} /\ spent = {} /\ broken = {}
  /\ desk = NoDesk /\ posted = {}
  /\ heardHere = {} /\ heardEver = {}

DeskInit == PoolInit /\ MountInit

DeskNext ==
  \/ DeskElsewhere
  \/ AskFirst \/ ReadFrames \/ ReadFrameBoxes \/ AskFails
  \/ NextBatch \/ RejectWholeFrame \/ SubmitRulings \/ ImageFails \/ Remount
  \/ \E b \in desk.boxes : StageBox(b)
  \/ \E p \in posted : PostServed(p) \/ PostHeard(p) \/ PostLost(p)

DeskSpec == DeskInit /\ [][DeskNext]_deskVars

-----------------------------------------------------------------------------
(* Properties.                                                             *)

DeskBatches ==
  [frames : SUBSET Images, boxes : SUBSET Boxes,
   remaining : Nat \cup {-1}, owed : SUBSET Boxes]

\* Type correctness.
DeskTypeOK ==
  /\ held \in DeskBatches /\ alert \in BOOLEAN
  /\ asking \in [why : {"none", "first", "next", "refresh"},
                 stage : {"none", "frames", "boxes"}, batch : DeskBatches]
  /\ finished \subseteq Boxes /\ spent \subseteq Images /\ broken \subseteq spent
  /\ desk \in [image : {0} \cup Images, boxes : SUBSET Boxes, staged : SUBSET Boxes]
  /\ desk.staged \subseteq desk.boxes
  /\ posted \subseteq [image : Images, ruled : SUBSET Boxes, served : BOOLEAN, heard : BOOLEAN]
  /\ heardHere \subseteq heardEver /\ heardEver \subseteq Boxes

\* While the screen is mounted no box it has had a ruling accepted for comes
\* back with live buttons, whatever order refreshes, next batches, failures
\* and late answers come in: `verdicts` is append-only, and a second click
\* would be a second row.
AskedOnce == desk.boxes \cap heardHere = {}

\* When the screen says that nothing is left to verify, each box that waited
\* when its batch was read has an administrator's verdict: a submission that
\* failed, a frame others emptied in between, or a wrong count is not taken
\* for work done.
NothingLeftIsTrue == NothingLeft => \A b \in held.owed : AdminRuled(b)

\* queries.ts of the infinite staleTime: "a remount inside one sitting
\* continues where it was", so no accepted box is asked about again.
AskedOnceEver == desk.boxes \cap heardEver = {}
=============================================================================
