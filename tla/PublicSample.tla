----------------------------- MODULE PublicSample -----------------------------
(***************************************************************************)
(* The public sample: the frames administrators flag for visitors, and the *)
(* page of one visitor.  The page shows one frame, asks for the one after  *)
(* it while the visitor rules, promotes that one when they move on or asks *)
(* anew when it is not there yet, and posts a frame's rulings with its     *)
(* last one.  Its two caches are filled by answers that arrive when they   *)
(* like; the flags change under both.                                      *)
(*                                                                         *)
(* A frame is the second of the video it was taken at, all of one video.   *)
(* The rate limit, and the signing of an image's URL, are failed requests. *)
(***************************************************************************)
EXTENDS Integers

CONSTANTS
  Taken,         (* the frames with boxes, by their timestamp               *)
  BoxCount,      (* [Taken -> Nat]: how many                                *)
  Spacing,       (* PUBLIC_SAMPLE_MIN_SPACING_SECONDS                       *)
  Patches,       (* bound: the flag requests that may overlap               *)
  MaxFlagged,    (* bound: the flag requests ever sent                      *)
  MaxCalls       (* bound: the rulings posted                               *)

ASSUME PublicAssumption ==
  /\ Taken \subseteq Nat \ {0} /\ BoxCount \in [Taken -> Nat \ {0}]
  /\ Spacing \in Nat /\ MaxFlagged \in Nat /\ MaxCalls \in Nat

VARIABLES
  flagged,    (* images.public_sample                                       *)
  patches,    (* the flag requests that have read and not written          *)
  flags,      (* how many there have been                                   *)
  shown,      (* publicFrameKey in the cache, or None                       *)
  pull,       (* its fetch in flight: the frame to leave out, or NoPull     *)
  nexts,      (* by frame: the one prefetched to follow it                  *)
  ruled,      (* the boxes of the card decided                              *)
  latest,     (* lastDecided, or None                                       *)
  call,       (* the submission in flight, or NoCall                        *)
  calls,      (* how many there have been                                   *)
  retrying,   (* awaitingRetryResult                                        *)
  loading,    (* the image on screen may still fail                         *)
  dead,       (* frame.isError: an alert in place of the card and its Skip  *)
  overlapped, (* history: frames flagged in pairs by overlapping requests   *)
  alone,      (* history: the frames that once were the whole pool          *)
  retries,    (* history: fetches for a broken image since the last move    *)
  submitted,  (* history: the submissions of the frame since it appeared    *)
  reopened    (* history: the card was reopened with one of them answered   *)

flag_vars == <<flagged, patches, flags, overlapped, alone>>
card_vars == <<ruled, latest, submitted, reopened>>
posts == <<call, calls>>
image == <<retrying, loading, retries>>
public_vars == <<flag_vars, shown, pull, nexts, card_vars, posts, image, dead>>

None == 0
Asked == -1
Unanswered == -2
NoPull == -1
NoPatch == [frame |-> None, on |-> FALSE]
NoCall == [at |-> "none"]

BoxesOf(f) == 1 .. BoxCount[f]

-----------------------------------------------------------------------------
(* Flagging: setPublicSample reads what is near and then writes.           *)

Near(f, g) == f # g /\ f - g < Spacing /\ g - f < Spacing

\* Mistake: only the frames before it in the video count.
TooNearBehind(f) == \E g \in flagged : Near(f, g) /\ g < f

TooNear(f) == \E g \in flagged : Near(f, g)

FlagReads(p, f) ==
  /\ patches[p] = NoPatch /\ flags < MaxFlagged
  /\ flags' = flags + 1
  /\ \E on \in BOOLEAN :
       patches' = [patches EXCEPT ![p] =
         IF on /\ TooNear(f) THEN NoPatch      \* 409
           ELSE [frame |-> f, on |-> on]]
  /\ UNCHANGED <<flagged, overlapped, alone, shown, pull, nexts, card_vars, posts,
                 image, dead>>

FlagWrites(p) ==
  LET patch == patches[p]
      Overlapping == {q \in Patches \ {p} : patches[q].on}
  IN /\ patch # NoPatch
     /\ flagged' = IF patch.on THEN flagged \cup {patch.frame}
                     ELSE flagged \ {patch.frame}
     /\ overlapped' = IF patch.on
                     THEN overlapped \cup {{patch.frame, patches[q].frame} : q \in Overlapping}
                     ELSE overlapped
     /\ alone' = alone \cup {f \in Taken : flagged' = {f}}
     /\ patches' = [patches EXCEPT ![p] = NoPatch]
     /\ UNCHANGED <<flags, shown, pull, nexts, card_vars, posts, image, dead>>

-----------------------------------------------------------------------------
(* A frame arrives on the card.                                            *)

\* publicFrameHandler: any but the one to leave out, or that one when the
\* pool has no other.
Sample(exclude) ==
  IF flagged \ {exclude} # {} THEN flagged \ {exclude} ELSE flagged

\* fetchPublicFrame(currentId).
SampleForNext(f) == Sample(f)

\* SwipeCard starts afresh when the frame's id changes, and only then; the
\* frame's prefetch begins with it, when the cache has none.
Presents(f) ==
  /\ shown' = f /\ dead' = FALSE /\ loading' = TRUE
  /\ IF f = shown /\ ~dead THEN UNCHANGED card_vars
       ELSE ruled' = {} /\ latest' = None /\ submitted' = 0 /\ reopened' = FALSE
  /\ nexts' = IF nexts[f] \in {None, Unanswered} THEN [nexts EXCEPT ![f] = Asked]
                ELSE nexts

FramePullAnswered ==
  /\ pull # NoPull
  /\ \E f \in Sample(pull) : Presents(f)
  /\ pull' = NoPull
  /\ UNCHANGED <<flag_vars, posts, retrying, retries>>

\* No frame in the pool, the rate limit, the network: the card unmounts.
FramePullFails ==
  /\ pull # NoPull
  /\ pull' = NoPull /\ dead' = TRUE
  /\ ruled' = {} /\ latest' = None
  /\ UNCHANGED <<flag_vars, shown, nexts, submitted, reopened, posts, image>>

Prefetched(f) ==
  /\ nexts[f] = Asked
  /\ \E g \in SampleForNext(f) \cup {Unanswered} : nexts' = [nexts EXCEPT ![f] = g]
  /\ UNCHANGED <<flag_vars, shown, pull, card_vars, posts, image, dead>>

\* The cache drops what no screen has used for a while.
Collected(f) ==
  /\ f # shown /\ nexts[f] \notin {None, Asked}
  /\ nexts' = [nexts EXCEPT ![f] = None]
  /\ UNCHANGED <<flag_vars, shown, pull, card_vars, posts, image, dead>>

\* advance(), with the prefetched frame its closure holds: a fetch under way
\* is replaced by a new one and left running by a promotion.
Advances(next) ==
  /\ retrying' = FALSE /\ retries' = 0
  /\ IF next \in Taken THEN Presents(next) /\ UNCHANGED pull
       ELSE pull' = shown /\ UNCHANGED <<shown, loading, dead, nexts, card_vars>>

-----------------------------------------------------------------------------
(* The visitor.                                                            *)

OnCard == shown # None /\ ~dead
Posting == call # NoCall
Undecided == BoxesOf(shown) \ ruled

Skip ==
  /\ OnCard /\ ~Posting
  /\ Advances(nexts[shown])
  /\ UNCHANGED <<flag_vars, posts>>

\* ruleActive: the first box undecided, and with the last of them the call.
\* Its onSuccess will move on by what this render knows of the next frame.
RuleBox ==
  /\ OnCard /\ ~Posting /\ Undecided # {}
  /\ LET box == CHOOSE b \in Undecided : \A other \in Undecided : b <= other
     IN /\ ruled' = ruled \cup {box} /\ latest' = box
        /\ IF Undecided # {box} THEN UNCHANGED <<posts, submitted>>
             ELSE /\ calls < MaxCalls /\ calls' = calls + 1 /\ submitted' = submitted + 1
                  /\ call' = [at |-> "sent", frame |-> shown, next |-> nexts[shown]]
  /\ UNCHANGED <<flag_vars, shown, pull, nexts, image, dead, reopened>>

TakesBack(box) ==
  /\ ruled' = ruled \ {box} /\ latest' = None
  /\ reopened' = (reopened \/ (submitted > 0 /\ ~Posting))
  /\ UNCHANGED <<flag_vars, shown, pull, nexts, submitted, posts, image, dead>>

Undo == OnCard /\ ~Posting /\ latest # None /\ TakesBack(latest)

\* Mistake: a box may be reopened while the rulings are on their way.
UnstageBoxAnytime(box) == OnCard /\ box \in ruled /\ TakesBack(box)

UnstageBox(box) == OnCard /\ ~Posting /\ box \in ruled /\ TakesBack(box)

\* handleImageError: once asked anew, the second failure in a row is told and
\* not retried.
FrameImageFails ==
  /\ OnCard /\ loading /\ loading' = FALSE
  /\ IF retrying THEN retrying' = FALSE /\ UNCHANGED <<pull, retries>>
       ELSE retrying' = TRUE /\ pull' = shown /\ retries' = retries + 1
  /\ UNCHANGED <<flag_vars, shown, nexts, card_vars, posts, dead>>

-----------------------------------------------------------------------------
(* The call: submitPublicVerdicts, then its answer.                        *)

\* A frame no longer in the sample is a 404.
CallServed ==
  /\ call # NoCall /\ call.at = "sent"
  /\ LET inSample == call.frame \in flagged
     IN call' = [call EXCEPT !.at = IF inSample THEN "taken" ELSE "refused"]
  /\ UNCHANGED <<flag_vars, shown, pull, nexts, card_vars, calls, image, dead>>

CallSucceeds ==
  /\ call # NoCall /\ call.at = "taken"
  /\ call' = NoCall
  /\ Advances(call.next)
  /\ UNCHANGED <<flag_vars, calls>>

\* A refusal, or an answer or a request lost: the card stays complete.
CallFails ==
  /\ call # NoCall
  /\ call' = NoCall
  /\ UNCHANGED <<flag_vars, shown, pull, nexts, card_vars, calls, image, dead>>

-----------------------------------------------------------------------------

PublicInit ==
  /\ flagged \in {{}} \cup {{f} : f \in Taken}
  /\ alone = flagged
  /\ patches = [p \in Patches |-> NoPatch] /\ flags = 0 /\ overlapped = {}
  /\ shown = None /\ pull = None /\ nexts = [f \in Taken |-> None]
  /\ ruled = {} /\ latest = None /\ submitted = 0 /\ reopened = FALSE
  /\ call = NoCall /\ calls = 0
  /\ retrying = FALSE /\ loading = FALSE /\ dead = FALSE /\ retries = 0

PublicNext ==
  \/ \E p \in Patches : (\E f \in Taken : FlagReads(p, f)) \/ FlagWrites(p)
  \/ FramePullAnswered \/ FramePullFails
  \/ \E f \in Taken : Prefetched(f) \/ Collected(f)
  \/ Skip \/ RuleBox \/ Undo \/ FrameImageFails
  \/ OnCard /\ \E box \in BoxesOf(shown) : UnstageBox(box)
  \/ CallServed \/ CallSucceeds \/ CallFails

PublicSpec == PublicInit /\ [][PublicNext]_public_vars

-----------------------------------------------------------------------------
(* Properties.                                                             *)

\* Type correctness.
PublicTypeOK ==
  /\ flagged \subseteq Taken /\ alone \subseteq Taken
  /\ patches \in [Patches -> [frame : Taken \cup {None}, on : BOOLEAN]]
  /\ flags \in Nat /\ calls \in Nat /\ submitted \in Nat /\ retries \in Nat
  /\ shown \in Taken \cup {None} /\ pull \in Taken \cup {None, NoPull}
  /\ nexts \in [Taken -> Taken \cup {None, Asked, Unanswered}]
  /\ OnCard => ruled \subseteq BoxesOf(shown) /\ latest \in ruled \cup {None}
  /\ Posting => call.frame \in Taken /\ call.next \in Taken \cup {None, Asked, Unanswered}
  /\ retrying \in BOOLEAN /\ loading \in BOOLEAN /\ dead \in BOOLEAN /\ reopened \in BOOLEAN

\* Two frames nearer than the floor allows are in the sample together only
\* when two requests flagged them side by side: the check reads both sides of
\* a frame, and no order of flagging and unflagging gets round it.
SpacedUnlessOverlapped ==
  \A f, g \in flagged : Near(f, g) => {f, g} \in overlapped

\* A frame is prefetched to follow itself only if it once was the whole sample.
FollowsItselfOnlyIfAlone == \A f \in Taken : nexts[f] = f => f \in alone

\* One appearance of a frame is submitted twice only if the visitor reopened
\* its card once the first submission had been answered: never by a double
\* swipe, a box tapped while the call is on its way, a lost answer alone, or
\* the same frame coming back to its own card.
OnceUnlessReopened == submitted <= 1 \/ reopened

\* A sample of broken images costs one fetch more than the visitor asked for.
RetriedOnce == retries <= 1

\* What the comments on usePublicFrame and its prefetch say: a frame is never
\* swapped "out from under the visitor's cursor"; the answer that replaces it
\* is one to a request to leave it.
FrameHeld ==
  [][ruled # {} /\ FramePullAnswered /\ shown' # shown => pull = shown]_public_vars
=============================================================================
