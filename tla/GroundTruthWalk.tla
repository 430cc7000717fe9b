--------------------------- MODULE GroundTruthWalk ---------------------------
(***************************************************************************)
(* The annotation sitting: the screen that walks the unfinished worklist   *)
(* of the frozen pool one frame at a time, the query behind it, which      *)
(* every write refetches, and the card on which boxes are drawn, deleted   *)
(* and a class is marked as examined.  A second annotator marks frames of  *)
(* the same pool, and takes marks back.                                    *)
(*                                                                         *)
(* Each of the three kinds of write has one mutation, and a mutation       *)
(* watches only its latest call: `busy` knows of no other.                 *)
(***************************************************************************)
EXTENDS GroundTruth, SequencesExt

CONSTANTS
  PageSize,      (* GROUND_TRUTH_POOL_BATCH_SIZE                            *)
  MaxInFlight    (* bound: writes in flight at once                         *)

ASSUME WorklistAssumption == PageSize \in Nat \ {0} /\ MaxInFlight \in Nat

VARIABLES
  page,       (* pool.data, or NoWorklist                                   *)
  poolFetch,  (* the fetch in flight, or NotFetching                     *)
  poolError,  (* pool.isError                                               *)
  batch,      (* the snapshot that is walked, or NoWorklist for null        *)
  place,      (* index, from 1                                              *)
  loaded,     (* annotation.data of the frame, or NotLoaded: the classes it *)
              (* shows as marked, and those it lists boxes of               *)
  writes,     (* the writes in flight, in the order they were sent          *)
  failed      (* history: a fetch failed since a batch was last let go      *)

sitting == <<page, poolFetch, poolError, batch, place, loaded, writes, failed>>
walkVars == <<ground, sitting>>

\* `fresh` is history: asked for since the last batch was let go.
NoWorklist == [images |-> <<>>, there |-> FALSE, fresh |-> FALSE]
NotFetching == [at |-> "idle", answer |-> NoWorklist]
Asked == [at |-> "asked", answer |-> NoWorklist]
NotLoaded == [marked |-> {}, drawn |-> {}, there |-> FALSE]
Kinds == {"draw", "delete", "mark"}

Shown == ~poolError /\ place \in DOMAIN batch.images
Frame == batch.images[place]

-----------------------------------------------------------------------------
(* The worklist: asked for, served, and settled one way or the other.      *)

\* Mistake: a page is adopted while the next one is being fetched.
AdoptedEarly(walked, data, fetching) ==
  IF ~walked.there /\ data.there THEN data ELSE walked

\* The effect after a render: a page is adopted if none is walked and none
\* fetched.
Adopted(walked, data, fetching) ==
  IF ~walked.there /\ data.there /\ ~fetching THEN data ELSE walked

\* On mount, and whenever the window gets the focus: staleTime is 0.
AskPool ==
  /\ poolFetch = NotFetching /\ poolFetch' = Asked
  /\ batch' = Adopted(batch, page, TRUE)
  /\ UNCHANGED <<ground, page, poolError, place, loaded, writes, failed>>

\* ORDER BY the place in the worklist.
InOrder(images) ==
  LET last == Cardinality(images)
  IN CHOOSE list \in [1..last -> images] : \A m, n \in 1..last : m < n => list[m] < list[n]

ServePool ==
  /\ poolFetch = Asked
  /\ poolFetch' = [at |-> "answered", answer |->
       [images |-> InOrder(WorklistPage(PageSize)), there |-> TRUE, fresh |-> TRUE]]
  /\ UNCHANGED <<ground, page, poolError, batch, place, loaded, writes, failed>>

PoolArrives ==
  /\ poolFetch.at = "answered" /\ poolFetch' = NotFetching
  /\ page' = poolFetch.answer /\ poolError' = FALSE
  /\ batch' = Adopted(batch, page', FALSE)
  /\ UNCHANGED <<ground, place, loaded, writes, failed>>

\* A refetch that fails leaves the page there was, and the effect takes it.
PoolFails ==
  /\ poolFetch # NotFetching /\ poolFetch' = NotFetching
  /\ poolError' = TRUE /\ failed' = TRUE
  /\ batch' = Adopted(batch, page, FALSE)
  /\ UNCHANGED <<ground, page, place, loaded, writes>>

-----------------------------------------------------------------------------
(* The walk.                                                               *)

Previous ==
  /\ Shown /\ place > 1
  /\ place' = place - 1 /\ loaded' = NotLoaded
  /\ UNCHANGED <<ground, page, poolFetch, poolError, batch, writes, failed>>

NextFrame ==
  /\ Shown /\ poolFetch = NotFetching /\ place < Len(batch.images)
  /\ place' = place + 1 /\ loaded' = NotLoaded
  /\ UNCHANGED <<ground, page, poolFetch, poolError, batch, writes, failed>>

LoadNextBatch ==
  /\ Shown /\ poolFetch = NotFetching /\ place = Len(batch.images)
  /\ place' = 1 /\ poolFetch' = Asked
  /\ page' = [page EXCEPT !.fresh = FALSE]
  /\ batch' = Adopted(NoWorklist, page', TRUE)
  /\ loaded' = NotLoaded /\ failed' = FALSE
  /\ UNCHANGED <<ground, poolError, writes>>

-----------------------------------------------------------------------------
(* The card.                                                               *)

\* The frame's annotation, first or refetched.
AnnotationArrives ==
  /\ Shown
  /\ loaded' = [marked |-> {c \in active : <<Frame, c>> \in marks},
                 drawn |-> {c \in Classes : truth[<<Frame, c>>] > 0}, there |-> TRUE]
  /\ UNCHANGED <<ground, page, poolFetch, poolError, batch, place, writes, failed>>

\* busy: the latest call of some mutation is pending.
Busy == \E k \in DOMAIN writes : writes[k].watched

Write(op, c, on) ==
  LET Overtaken(w) == IF w.op = op THEN [w EXCEPT !.watched = FALSE] ELSE w IN
  /\ Shown /\ loaded.there /\ Len(writes) < MaxInFlight
  /\ writes' = Append([k \in DOMAIN writes |-> Overtaken(writes[k])],
                      [op |-> op, image |-> Frame, class |-> c, on |-> on,
                       watched |-> TRUE, served |-> FALSE])
  /\ UNCHANGED <<ground, page, poolFetch, poolError, batch, place, loaded, failed>>

\* A drag that is large enough is posted when the pointer lifts, busy or not:
\* drawing stays armed for the next one.
Draw(c) == Write("draw", c, TRUE)

\* A box the card lists; somebody else may have deleted it since.
Delete(c) == ~Busy /\ c \in loaded.drawn /\ Write("delete", c, TRUE)

Mark(c) == ~Busy /\ Write("mark", c, c \notin loaded.marked)

ServeWrite(k) ==
  /\ ~writes[k].served
  /\ CASE writes[k].op = "draw" -> DrawBox(writes[k].image, writes[k].class)
       [] writes[k].op = "delete" -> DeleteBox(writes[k].image, writes[k].class)
       [] OTHER -> SetExhaustive(writes[k].image, writes[k].class, writes[k].on)
  /\ writes' = [writes EXCEPT ![k].served = TRUE]
  /\ UNCHANGED <<page, poolFetch, poolError, batch, place, loaded, failed>>

\* onSuccess: the worklist is asked for anew, whatever was on its way.
WriteHeard(k) ==
  /\ writes[k].served
  /\ writes' = RemoveAt(writes, k)
  /\ poolFetch' = Asked
  /\ batch' = Adopted(batch, page, TRUE)
  /\ UNCHANGED <<ground, page, poolError, place, loaded, failed>>

\* Served or not: an alert for the latest call of a kind, nothing for others.
WriteFails(k) ==
  /\ writes' = RemoveAt(writes, k)
  /\ UNCHANGED <<ground, page, poolFetch, poolError, batch, place, loaded, failed>>

-----------------------------------------------------------------------------
(* The specification.                                                      *)

SecondAnnotator ==
  /\ \E i \in Pool, c \in Classes : SetExhaustive(i, c, <<i, c>> \notin marks)
  /\ UNCHANGED sitting

\* The pool was drawn and the roster activated before the sitting.
Prepared == GroundInit /\ Frozen = Pool /\ active = Classes

ScreenInit ==
  /\ page = NoWorklist /\ poolFetch = NotFetching /\ poolError = FALSE
  /\ batch = NoWorklist /\ place = 1 /\ loaded = NotLoaded
  /\ writes = <<>> /\ failed = FALSE

SittingInit == Prepared /\ ScreenInit

SittingNext ==
  \/ SecondAnnotator
  \/ AskPool \/ ServePool \/ PoolArrives \/ PoolFails
  \/ Previous \/ NextFrame \/ LoadNextBatch \/ AnnotationArrives
  \/ \E c \in Classes : Draw(c) \/ Delete(c) \/ Mark(c)
  \/ \E k \in DOMAIN writes : ServeWrite(k) \/ WriteHeard(k) \/ WriteFails(k)

SittingSpec == SittingInit /\ [][SittingNext]_walkVars

-----------------------------------------------------------------------------
(* Properties.                                                             *)

Lists == [images : Seq(Pool), there : BOOLEAN, fresh : BOOLEAN]
Writes ==
  [op : Kinds, image : Pool, class : Classes, on : BOOLEAN,
   watched : BOOLEAN, served : BOOLEAN]

\* Type correctness.
SittingTypeOK ==
  /\ GroundTypeOK
  /\ page \in Lists /\ batch \in Lists
  /\ poolFetch \in [at : {"idle", "asked", "answered"}, answer : Lists]
  /\ poolError \in BOOLEAN /\ failed \in BOOLEAN
  /\ place \in Nat \ {0}
  /\ loaded \in [marked : SUBSET Classes, drawn : SUBSET Classes, there : BOOLEAN]
  /\ writes \in Seq(Writes)

\* The frame under the annotator's hands changes only by those hands, or when
\* a batch is let go and the next adopted: the refetch that each mark sets off
\* answers with a shorter list, and moves nothing.
HeldStill ==
  [][batch.there /\ batch'.there /\ place' = place => batch' = batch]_walkVars

\* A batch is a page asked for after the one before it was let go, unless a
\* fetch has failed since: the page just finished stays in the cache while the
\* next is fetched, and only then is it walked again.
AdoptsFresh == batch.there /\ ~batch.fresh => failed

\* A frame is not marked as examined while a box drawn or deleted on it before
\* may still be lost, unless a later box was drawn meanwhile: `busy` lets go
\* of a draw when the next one is made, and the mark overtakes it.
MarkFollowsBoxes ==
  \A k, m \in DOMAIN writes :
    k < m /\ writes[m].op = "mark" => ~writes[k].watched
=============================================================================
