------------------------------- MODULE FrameGrid -------------------------------
(***************************************************************************)
(* The admin's grid of one video's frames, filtered by the stamp a pass    *)
(* left on them, and the three buttons above it that ask for another pass: *)
(* over the frames ticked, over a random draw, over a diverse one.  What a *)
(* pass does comes in when it reports: it stamps those of its frames that  *)
(* no pass has stamped, and the grid is not told.                          *)
(***************************************************************************)
EXTENDS PagedList

CONSTANTS
  Seconds,       (* bound: the frames there may be                          *)
  SampleSize,    (* the frames the automatic pass draws                     *)
  MaxCount,      (* bound: the frames asked for in a draw                   *)
  MaxRequests    (* bound: the passes asked for in all                      *)

ASSUME GridAssumption ==
  /\ IsFiniteSet(Seconds) /\ Seconds \subseteq Nat
  /\ {"none", "random", "manual", "diverse"} \subseteq Marks
  /\ SampleSize \in Nat /\ MaxCount \in Nat /\ MaxRequests \in Nat

VARIABLES
  selected,     (* the frames ticked                                        *)
  request,      (* createPrelabel's latest call, or NoRequest               *)
  adrift,       (* the calls whose screen was closed before they were done *)
  passes,       (* the passes queued: two alike are one, and stamp as one *)
  extracted,    (* the last chunk is done                                   *)
  passed,       (* a pass of this video has been queued, whatever became of it *)
  sent          (* how many passes have been asked for                      *)

stage == <<extracted, passed>>
prelabels == <<adrift, passes, stage, sent>>
frame_grid == <<list, selected, request, prelabels>>

NoRequest == [reason |-> "none", frames |-> {}, count |-> 0, at |-> "idle"]

-----------------------------------------------------------------------------
(* The grid.                                                               *)

\* The box of a frame shown as sampled is disabled.
ToggleSelected(f) ==
  /\ PageShown.rows[f] = "none"
  /\ selected' = IF f \in selected THEN selected \ {f} ELSE selected \cup {f}
  /\ UNCHANGED <<list, request, prelabels>>

IsPending == request.at \in {"asked", "drawn"}

\* createPrelabel.mutate, for the buttons that isPending disables.
SendPrelabel(reason, frames, count) ==
  /\ open /\ ~IsPending
  /\ sent < MaxRequests /\ sent' = sent + 1
  /\ request' = [reason |-> reason, frames |-> frames, count |-> count, at |-> "asked"]
  /\ UNCHANGED <<list, selected, adrift, passes, stage>>

PrelabelSelected == selected # {} /\ SendPrelabel("manual", selected, 0)
RandomiseUnsampled(count) == SendPrelabel("random", {}, count)
DiversifyUnsampled(count) == SendPrelabel("diverse", {}, count)

\* onSuccess, for a hand-picked set.
PrelabelHeard ==
  /\ request.at \in {"queued", "refused"}
  /\ request' = NoRequest
  /\ selected' = IF request.at = "queued" /\ request.reason = "manual" THEN {} ELSE selected
  /\ UNCHANGED <<list, prelabels>>

\* No answer, served or not.
PrelabelLost ==
  /\ request # NoRequest /\ request' = NoRequest
  /\ adrift' = IF IsPending THEN adrift \cup {request} ELSE adrift
  /\ UNCHANGED <<list, selected, passes, stage, sent>>

\* A frame was flagged for the public sample: a page that is known is asked
\* for anew, whatever was on its way, and another one waits for its own call.
PublicFlagged ==
  /\ open /\ Cardinality(DOMAIN cache \cup DOMAIN asks \cup {Key}) <= MaxKeys
  /\ asks' = IF Key \in DOMAIN asks \ DOMAIN cache THEN asks ELSE With(asks, Key, Unread)
  /\ UNCHANGED <<table, screen, cache, selected, request, prelabels>>

LeaveGrid ==
  /\ CloseList /\ selected' = {} /\ request' = NoRequest
  /\ adrift' = IF IsPending THEN adrift \cup {request} ELSE adrift
  /\ UNCHANGED <<passes, stage, sent>>

-----------------------------------------------------------------------------
(* createPrelabel: the frames are read, and the job is stored later.       *)

Unsampled == {f \in DOMAIN table : table[f] = "none"}

\* The frames of a pass: those picked if none is taken, or some that are not.
DrawnFor(q) ==
  IF q.reason = "manual"
    THEN {q.frames} \cap SUBSET Unsampled
    ELSE kSubset(Min({q.count, Cardinality(Unsampled)}), Unsampled) \ {{}}

WithFrames(q, fs) == [q EXCEPT !.frames = fs, !.at = "drawn"]

\* The job and its frames, in one batch, whatever was stamped since they were read.
Queue(q) ==
  /\ passes' = passes \cup {[reason |-> q.reason, frames |-> q.frames]}
  /\ extracted' = extracted /\ passed' = TRUE

DrawFrames ==
  /\ request.at = "asked"
  /\ \/ \E fs \in DrawnFor(request) : request' = WithFrames(request, fs)
     \/ DrawnFor(request) = {} /\ request' = [request EXCEPT !.at = "refused"]
  /\ UNCHANGED <<list, selected, prelabels>>

QueuePass ==
  /\ request.at = "drawn" /\ Queue(request)
  /\ request' = [request EXCEPT !.at = "queued"]
  /\ UNCHANGED <<list, selected, adrift, sent>>

\* Either step of a call nobody waits for, or its end without another.
AdriftGoesOn(q) ==
  /\ \/ /\ q.at = "asked"
        /\ \E fs \in DrawnFor(q) : adrift' = (adrift \ {q}) \cup {WithFrames(q, fs)}
        /\ UNCHANGED <<passes, stage>>
     \/ q.at = "drawn" /\ Queue(q) /\ adrift' = adrift \ {q}
     \/ adrift' = adrift \ {q} /\ UNCHANGED <<passes, stage>>
  /\ UNCHANGED <<list, selected, request, sent>>

-----------------------------------------------------------------------------
(* The pipeline.                                                           *)

Extract(f) ==
  /\ ~extracted /\ f \notin DOMAIN table
  /\ table' = With(table, f, "none")
  /\ UNCHANGED <<screen, client, selected, request, prelabels>>

\* The automatic pass draws from every frame there is, if no pass was queued
\* before it.
LastChunk ==
  /\ ~extracted /\ extracted' = TRUE /\ passed' = TRUE
  /\ \/ passed /\ passes' = passes
     \/ /\ ~passed
        /\ \E fs \in kSubset(Min({SampleSize, Cardinality(DOMAIN table)}), DOMAIN table) :
             passes' = passes \cup {[reason |-> "random", frames |-> fs]}
  /\ UNCHANGED <<list, selected, request, adrift, sent>>

Reports(p) ==
  /\ table' = [f \in DOMAIN table |->
                 IF f \in p.frames \cap Unsampled THEN p.reason ELSE table[f]]
  /\ passes' = passes \ {p}
  /\ UNCHANGED <<screen, client, selected, request, adrift, stage, sent>>

\* It has failed as often as it may.
PassFails(p) ==
  /\ passes' = passes \ {p}
  /\ UNCHANGED <<list, selected, request, adrift, stage, sent>>

-----------------------------------------------------------------------------

GridInit ==
  /\ table = <<>> /\ ScreenClosed
  /\ selected = {} /\ request = NoRequest
  /\ adrift = {} /\ passes = {} /\ sent = 0
  /\ extracted = FALSE /\ passed = FALSE

Ticking ==
  \/ \E f \in DOMAIN PageShown.rows : ToggleSelected(f)
  \/ PrelabelSelected \/ PrelabelHeard \/ PrelabelLost \/ PublicFlagged
  \/ \E count \in 1 .. MaxCount : RandomiseUnsampled(count) \/ DiversifyUnsampled(count)

Pipeline ==
  \/ DrawFrames \/ QueuePass \/ LastChunk
  \/ \E q \in adrift : AdriftGoesOn(q)
  \/ \E f \in Seconds : Extract(f)
  \/ \E p \in passes : Reports(p) \/ PassFails(p)

GridNext ==
  \/ (OpenList \/ Fetching \/ Paging) /\ UNCHANGED <<selected, request, prelabels>>
  \/ LeaveGrid \/ Ticking \/ Pipeline

GridSpec == GridInit /\ [][GridNext]_frame_grid

-----------------------------------------------------------------------------
(* Properties.                                                             *)

Reasons == {"random", "manual", "diverse"}
RequestShapes ==
  [reason : Reasons, frames : SUBSET Seconds, count : 0 .. MaxCount,
   at : {"asked", "drawn", "queued", "refused"}]

\* Type correctness.
GridTypeOK ==
  /\ ListTypeOK /\ DOMAIN table \subseteq Seconds
  /\ selected \subseteq Seconds /\ adrift \subseteq RequestShapes
  /\ request \in RequestShapes \cup {NoRequest}
  /\ passes \subseteq [reason : Reasons, frames : SUBSET Seconds]
  /\ extracted \in BOOLEAN /\ passed \in BOOLEAN /\ sent \in Nat

\* Each frame shown is of the filter chosen, however long ago and under
\* whichever filter its page was asked for; and a stamp that is shown is the
\* stamp the frame bears, for a stamp is written once.
RowsFit ==
  \A f \in DOMAIN PageShown.rows :
    /\ PageShown.rows[f] \in filter
    /\ PageShown.rows[f] # "none" => table[f] = PageShown.rows[f]

\* VideoDetail: greying a sampled frame out "means an operator learns that from
\* the grid instead of from an error after clicking".
LearnsFromGrid ==
  [][request'.at = "asked" /\ request.at # "asked" /\ request'.reason = "manual"
     => \A f \in request'.frames \cap DOMAIN PageShown.rows :
          PageShown.rows[f] = "none"]_frame_grid
=============================================================================
