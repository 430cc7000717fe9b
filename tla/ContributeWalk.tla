--------------------------- MODULE ContributeWalk ---------------------------
(***************************************************************************)
(* A signed-in contributor's walk through the labelling pool: the screen   *)
(* that shows one frame at a time, the query that fetches pages of frames  *)
(* ahead of it, and the batch endpoint, whose reads of the database are    *)
(* not one transaction.  Everybody else's work on the pool goes on         *)
(* meanwhile.  A fetch that fails replaces the screen by an alert, which   *)
(* ends the walk: it is not modelled.                                      *)
(***************************************************************************)
EXTENDS LabellingPool, FiniteSetsExt, Sequences

CONSTANTS
  Me,              (* the contributor who walks                             *)
  Others,          (* who else rules meanwhile                              *)
  BatchSize,       (* CONTRIBUTE_BATCH_SIZE, frames to a page               *)
  PrefetchMargin,  (* PREFETCH_MARGIN                                       *)
  UrlsExpire,      (* whether an image may fail to load                     *)
  MaxPages         (* bound: pages held at once                             *)

ASSUME WalkAssumption ==
  /\ Me \in Users /\ Others \subseteq Rulers \ {Me}
  /\ BatchSize \in Nat \ {0} /\ PrefetchMargin \in Nat
  /\ UrlsExpire \in BOOLEAN /\ MaxPages \in Nat

VARIABLES
  pages,      (* the pages the query holds                                  *)
  fetch,      (* the fetch in flight                                        *)
  index,      (* frameIndex                                                 *)
  card,       (* the mounted SwipeCard and its staging area                 *)
  sent,       (* the submission in flight: none, or one                     *)
  refreshed,  (* refreshedFor                                               *)
  owed        (* history: boxes in the pool when the walk was opened, that  *)
              (* the contributor has not ruled on since                     *)

screen == <<pages, fetch, index, card, sent, refreshed>>
vars == <<pool, screen, owed>>

\* ORDER BY shuffle_key LIMIT n
Lowest(S, n) == {i \in S : Cardinality({j \in S : j < i}) < n}

-----------------------------------------------------------------------------
(* The pages and what the screen makes of them.                            *)

\* The frames of a page with the boxes on them: in the order of their keys,
\* those that were fetched from below the cursor after all others.
Page == [images : SUBSET Images, wrapped : SUBSET Images, boxes : SUBSET Boxes,
         next : {0} \cup Images]     \* 0: next_cursor null

Precedes(wrapped, i, j) == IF i \in wrapped <=> j \in wrapped THEN i < j ELSE j \in wrapped

NoPage == [kind |-> "none", stage |-> "none", cursor |-> 0, found |-> {}, got |-> <<>>]

\* A fetch of one page after the last, or of all of them anew.  Cursor 0 is
\* no cursor: keys are positive.
FetchOf(kind, cursor, got) ==
  [kind |-> kind, stage |-> "page", cursor |-> cursor, found |-> {}, got |-> got]

\* The frames of a page that no page before it shows.
Unseen(ps, n) == ps[n].images \ UNION {ps[m].images : m \in 1 .. n - 1}

Drained(ps) == \E n \in DOMAIN ps : Unseen(ps, n) = {}

\* The walk flattens the pages up to the first that brings nothing new: a
\* place in it is a page and a frame of the page.
Walk(ps) ==
  UNION {{n} \X Unseen(ps, n) : n \in {n \in DOMAIN ps : \A m \in 1 .. n : Unseen(ps, m) # {}}}

Ahead(ps, at) ==
  {p \in Walk(ps) : \/ p[1] < at[1]
                    \/ p[1] = at[1] /\ Precedes(ps[at[1]].wrapped, p[2], at[2])}

\* The walk's place ix, if it has come so far.
Place(ps, ix) == {at \in Walk(ps) : Cardinality(Ahead(ps, at)) = ix - 1}

NoCard == [image |-> 0, boxes |-> {}, staged |-> {}]

Fresh(ps, at) ==
  [image |-> at[2], boxes |-> On(at[2], ps[at[1]].boxes), staged |-> {}]

\* SwipeCard is keyed on the frame's id: while the same frame stays on the
\* screen, so does its staging area, whatever a refetch says of the frame.
Mounted(ps, ix) ==
  IF Place(ps, ix) = {} THEN NoCard
  ELSE LET at == CHOOSE at \in Place(ps, ix) : TRUE
       IN IF at[2] = card.image THEN card ELSE Fresh(ps, at)

Show(ps, ix) ==
  /\ pages' = ps /\ index' = ix
  /\ card' = Mounted(ps, ix)

-----------------------------------------------------------------------------
(* The batch endpoint, one step a read.                                    *)

Fetched(ids, bs) ==
  LET wrapped == {i \in ids : fetch.cursor # 0 /\ i <= fetch.cursor}
      page == [images |-> ids, wrapped |-> wrapped, boxes |-> {b \in bs : b[1] \in ids},
               next |-> IF ids = {} THEN 0 ELSE Max(IF wrapped = {} THEN ids ELSE wrapped)]
      got == Append(fetch.got, page)
  IN CASE fetch.kind = "next" ->
            /\ fetch' = NoPage
            /\ Show(Append(pages, page), index)
       [] fetch.kind = "all" /\ page.next # 0 /\ Len(got) < Len(pages) ->
            /\ fetch' = FetchOf("all", page.next, got)
            /\ UNCHANGED <<pages, index, card>>
       [] OTHER ->
            /\ fetch' = NoPage
            /\ Show(got, index)

\* Mistake: a wrapped page with frames of the frozen split.
WrapPoolAll == {i \in Images : i <= fetch.cursor /\ \E b \in On(i, boxes) : ~Settled(b)}

WrapPool == {i \in ContributorPool : i <= fetch.cursor}

\* The batch's first read; an empty page is answered at once.
ReadPage ==
  LET ids == Lowest({i \in ContributorPool : i > fetch.cursor}, BatchSize) IN
  /\ fetch.stage = "page"
  /\ CASE fetch.cursor # 0 /\ Cardinality(ids) < BatchSize ->
            /\ fetch' = [fetch EXCEPT !.stage = "wrap", !.found = ids]
            /\ UNCHANGED <<pages, index, card>>
       [] ids = {} -> Fetched({}, {})
       [] OTHER ->
            /\ fetch' = [fetch EXCEPT !.stage = "boxes", !.found = ids]
            /\ UNCHANGED <<pages, index, card>>
  /\ UNCHANGED <<pool, sent, refreshed, owed>>

ReadWrap ==
  LET ids == fetch.found \cup Lowest(WrapPool, BatchSize - Cardinality(fetch.found)) IN
  /\ fetch.stage = "wrap"
  /\ IF ids = {}
       THEN Fetched({}, {})
       ELSE /\ fetch' = [fetch EXCEPT !.stage = "boxes", !.found = ids]
            /\ UNCHANGED <<pages, index, card>>
  /\ UNCHANGED <<pool, sent, refreshed, owed>>

ReadBoxes ==
  /\ fetch.stage = "boxes"
  /\ Fetched(fetch.found, {b \in boxes : ~Settled(b)})
  /\ UNCHANGED <<pool, sent, refreshed, owed>>

-----------------------------------------------------------------------------
(* The screen.                                                             *)

\* Mistake: the buffer is topped up only while a frame is on the screen.
FetchMoreOnCard ==
  /\ card.image # 0 /\ ~Drained(pages)
  /\ pages[Len(pages)].next # 0 /\ fetch.kind # "next"
  /\ Cardinality(Walk(pages)) - (index - 1) <= PrefetchMargin
  /\ Len(pages) < MaxPages
  /\ fetch' = FetchOf("next", pages[Len(pages)].next, <<>>)
  /\ UNCHANGED <<pool, pages, index, card, sent, refreshed, owed>>

\* The effect that tops the buffer up.  fetchNextPage cancels a refetch.
FetchMore ==
  /\ pages # <<>> /\ ~Drained(pages)
  /\ pages[Len(pages)].next # 0 /\ fetch.kind # "next"
  /\ Cardinality(Walk(pages)) - (index - 1) <= PrefetchMargin
  /\ Len(pages) < MaxPages
  /\ fetch' = FetchOf("next", pages[Len(pages)].next, <<>>)
  /\ UNCHANGED <<pool, pages, index, card, sent, refreshed, owed>>

Lowermost(S) == CHOOSE b \in S : \A d \in S : b[2] <= d[2]

\* The active box is ruled on; the last one sends the frame.  A card without
\* boxes is complete from the start and never sends.
Rule ==
  LET left == card.boxes \ card.staged IN
  /\ left # {} /\ sent = {}
  /\ card' = [card EXCEPT !.staged = @ \cup {Lowermost(left)}]
  /\ sent' = IF Cardinality(left) = 1
               THEN {[image |-> card.image, ruled |-> card.boxes, served |-> FALSE]}
               ELSE {}
  /\ UNCHANGED <<pool, pages, fetch, index, refreshed, owed>>

\* Undo, or a tap on a box already ruled on.
Unstage(b) ==
  /\ b \in card.staged /\ sent = {}
  /\ card' = [card EXCEPT !.staged = @ \ {b}]
  /\ UNCHANGED <<pool, pages, fetch, index, sent, refreshed, owed>>

Serve(s) ==
  /\ ~s.served
  /\ UserSubmits(Me, s.image, s.ruled)
  /\ sent' = {[s EXCEPT !.served = TRUE]}
  /\ owed' = owed \ s.ruled
  /\ UNCHANGED <<pages, fetch, index, card, refreshed>>

\* onSuccess
Advance(s) ==
  /\ s.served
  /\ sent' = {}
  /\ Show(pages, index + 1)
  /\ UNCHANGED <<pool, fetch, refreshed, owed>>

\* Mistake: the walk goes on whether or not the submission went through.
SubmitFailsAdvancing(s) ==
  /\ s \in sent
  /\ sent' = {}
  /\ Show(pages, index + 1)
  /\ UNCHANGED <<pool, fetch, refreshed, owed>>

\* The call fails, served or not: the card stays as it is, all ruled on.
SubmitFails(s) ==
  /\ s \in sent
  /\ sent' = {}
  /\ UNCHANGED <<pool, pages, fetch, index, card, refreshed, owed>>

\* The first failure to load a frame's image refetches every page.
ImageError ==
  /\ UrlsExpire
  /\ card.image # 0 /\ card.image \notin refreshed
  /\ refreshed' = refreshed \cup {card.image}
  /\ fetch' = FetchOf("all", 0, <<>>)
  /\ UNCHANGED <<pool, pages, index, card, sent, owed>>

Done == card.image = 0 /\ Drained(pages)

Waiting == {b \in boxes : b[1] \in ContributorPool /\ ~Settled(b)}

\* startOver: every page is dropped, and every seen id with it.
StartOver ==
  /\ Done
  /\ Show(<<>>, 1)
  /\ fetch' = FetchOf("all", 0, <<>>)
  /\ refreshed' = {}
  /\ owed' = Waiting
  /\ UNCHANGED <<pool, sent>>

-----------------------------------------------------------------------------
(* The specification.                                                      *)

Init ==
  /\ PoolInit
  /\ pages = <<>> /\ index = 1 /\ card = NoCard
  /\ fetch = NoPage
  /\ sent = {} /\ refreshed = {} /\ owed = {}

\* The page is opened: the query's first fetch.
Open ==
  /\ pages = <<>> /\ fetch = NoPage
  /\ fetch' = FetchOf("all", 0, <<>>)
  /\ owed' = Waiting
  /\ UNCHANGED <<pool, pages, index, card, sent, refreshed>>

Elsewhere ==
  /\ \/ ReportSome
     \/ \E who \in Others, image \in Images :
          \E ruled \in SUBSET On(image, boxes) : Submits(who, image, ruled)
     \/ \E u \in Users : Promote(u)
  /\ UNCHANGED <<screen, owed>>

Fetching == ReadPage \/ ReadWrap \/ ReadBoxes

Next ==
  \/ Elsewhere
  \/ Open \/ Fetching \/ FetchMore
  \/ Rule \/ (\E b \in card.staged : Unstage(b))
  \/ \E s \in sent : Serve(s) \/ Advance(s) \/ SubmitFails(s)
  \/ ImageError \/ StartOver

Spec == Init /\ [][Next]_vars

\* Effects run and fetches are answered; the contributor goes on ruling, does
\* not take the same rulings back for ever, and takes back one box of a frame
\* whose submission failed to send it again.  Submissions do not all fail.
Fairness ==
  /\ WF_vars(Open) /\ WF_vars(Fetching) /\ WF_vars(FetchMore)
  /\ WF_vars(Rule) /\ SF_vars(Rule /\ sent' # {})
  /\ WF_vars(card.staged = card.boxes /\ \E b \in card.staged : Unstage(b))
  /\ SF_vars(\E s \in sent : Serve(s)) /\ SF_vars(\E s \in sent : Advance(s))

FairSpec == Spec /\ Fairness

-----------------------------------------------------------------------------
(* Properties.                                                             *)

\* Type correctness.
TypeOK ==
  /\ PoolTypeOK
  /\ pages \in Seq(Page) /\ index \in Nat \ {0}
  /\ fetch \in [kind : {"none", "next", "all"}, stage : {"none", "page", "wrap", "boxes"},
                cursor : {0} \cup Images, found : SUBSET Images, got : Seq(Page)]
  /\ card \in [image : {0} \cup Images, boxes : SUBSET Boxes, staged : SUBSET Boxes]
  /\ card.staged \subseteq card.boxes
  /\ sent \subseteq [image : Images, ruled : SUBSET Boxes, served : BOOLEAN]
  /\ Cardinality(sent) <= 1
  /\ refreshed \subseteq Images /\ owed \subseteq Boxes

\* The contributor never rules on a frame of the frozen evaluation split,
\* although a page is read, wrapped, shown and submitted at different times.
EvalNeverRuled ==
  \A b \in boxes : <<b, Me>> \in verdicts => InTrain(b[1])

\* When the walk says that nothing new is left, each box that waited when it
\* was opened has been ruled on by the contributor or settled by others,
\* though pages were fetched from a pool that shrank under them.
WalkRulesAll == Done => \A b \in owed : Settled(b)

\* A frame the walk shows has something to rule on ("a frame with no proposed
\* boxes cannot occur here", ContributeVerify).
FrameHasBoxes == card.image # 0 => card.boxes # {}

\* A walk that was opened comes to its end, even in a pool its own rulings
\* do not shrink and whose pages repeat for ever, unless it meets a frame
\* with nothing to rule on, which it cannot leave.
WalkEnds == []<>(Done \/ (card.image # 0 /\ card.boxes = {}))
=============================================================================
