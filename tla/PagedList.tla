------------------------------- MODULE PagedList -------------------------------
(***************************************************************************)
(* A filtered list that a screen reads a page at a time: the table behind  *)
(* it, the handler that counts what a filter admits and returns one page   *)
(* of it from a single batch, the query client that keeps an answer for    *)
(* each page asked for, and the state of the screen.  VerdictList and      *)
(* FrameGrid are its two instances: each says how its table changes.       *)
(*                                                                         *)
(* A row is its place in the order of the table, the id of a verdict or    *)
(* the second of a frame, and is read for what the filter goes by.         *)
(***************************************************************************)
EXTENDS Integers, FiniteSetsExt

CONSTANTS
  Marks,          (* what a filter goes by                                  *)
  Filters,        (* what the screen can ask for: sets of marks             *)
  DefaultFilter,
  PageLimit,       (* PAGE_SIZE                                              *)
  NewestFirst,    (* the order: ORDER BY ... DESC                           *)
  MaxKeys         (* bound: the pages kept or asked for at once             *)

ASSUME ListAssumption ==
  /\ Filters \subseteq SUBSET Marks /\ DefaultFilter \in Filters
  /\ PageLimit \in Nat \ {0} /\ NewestFirst \in BOOLEAN /\ MaxKeys \in Nat

VARIABLES
  table,      (* the rows there are: the mark of each                       *)
  filter,     (* the filter of the screen                                   *)
  offset,     (* and where its page begins                                  *)
  open,       (* the screen is mounted                                      *)
  cache,      (* query cache: the latest answer, by <<filter, offset>>      *)
  asks        (* the fetches in flight: Unread, or the answer on its way    *)

screen == <<filter, offset, open>>
client == <<cache, asks>>
list == <<table, screen, client>>

\* A page of which nothing is known, or which nobody has served yet.
Unread == [rows |-> <<>>, total |-> -1]

With(f, k, v) == [x \in DOMAIN f \cup {k} |-> IF x = k THEN v ELSE f[x]]
Without(f, k) == [x \in DOMAIN f \ {k} |-> f[x]]

-----------------------------------------------------------------------------
(* The handler: the count and the page of one batch.                       *)

Matching(f) == {r \in DOMAIN table : table[r] \in f}
Precedes(q, r) == IF NewestFirst THEN q > r ELSE q < r
Place(f, r) == Cardinality({q \in Matching(f) : Precedes(q, r)})
PageOf(f, o) == {r \in Matching(f) : o <= Place(f, r) /\ Place(f, r) < o + PageLimit}

PageAnswer(f, o) ==
  [rows |-> [r \in PageOf(f, o) |-> table[r]], total |-> Cardinality(Matching(f))]

-----------------------------------------------------------------------------
(* The query client: staleTime is 0, and nothing is retried.               *)

\* Mistake: the filter is in the URL and not in the key.
KeyUnfiltered == <<DefaultFilter, offset>>

Key == <<filter, offset>>

PageShown == IF open /\ Key \in DOMAIN cache THEN cache[Key] ELSE Unread

\* A page that is on its way already is not asked for twice.
AskFor(k) ==
  /\ Cardinality(DOMAIN cache \cup DOMAIN asks \cup {k}) <= MaxKeys
  /\ asks' = IF k \in DOMAIN asks THEN asks ELSE With(asks, k, Unread)

Serve(k) ==
  /\ asks[k] = Unread
  /\ asks' = [asks EXCEPT ![k] = PageAnswer(k[1], k[2])]
  /\ UNCHANGED <<table, screen, cache>>

Arrive(k) ==
  /\ asks[k] # Unread
  /\ cache' = With(cache, k, asks[k]) /\ asks' = Without(asks, k)
  /\ UNCHANGED <<table, screen>>

\* What the page showed before stays.
Lost(k) ==
  /\ asks' = Without(asks, k)
  /\ UNCHANGED <<table, screen, cache>>

\* gcTime after nobody watches a page any more.
Evicted(k) ==
  /\ k \notin DOMAIN asks /\ ~(open /\ k = Key)
  /\ cache' = Without(cache, k)
  /\ UNCHANGED <<table, screen, asks>>

\* refetchOnWindowFocus
LookAgain ==
  /\ open /\ Key \notin DOMAIN asks /\ AskFor(Key)
  /\ UNCHANGED <<table, screen, cache>>

-----------------------------------------------------------------------------
(* The screen.                                                             *)

OpenList ==
  /\ ~open /\ open' = TRUE /\ AskFor(Key)
  /\ UNCHANGED <<table, filter, offset, cache>>

\* Its state goes with it; what is in flight lands in the cache.
CloseList ==
  /\ open /\ open' = FALSE
  /\ filter' = DefaultFilter /\ offset' = 0
  /\ UNCHANGED <<table, client>>

\* Mistake: the page stays where it was under the filter before.
SetFiltersInPlace(f) ==
  /\ open /\ f # filter
  /\ filter' = f /\ offset' = offset
  /\ AskFor(Key')
  /\ UNCHANGED <<table, open, cache>>

\* A filter change is a new question.
SetFilters(f) ==
  /\ open /\ <<f, 0>> # Key
  /\ filter' = f /\ offset' = 0
  /\ AskFor(Key')
  /\ UNCHANGED <<table, open, cache>>

\* The pager is there while the page at hand says there is more than one.
Turn(to) ==
  /\ PageShown # Unread /\ PageShown.total > PageLimit
  /\ filter' = filter /\ offset' = to
  /\ AskFor(Key')
  /\ UNCHANGED <<table, open, cache>>

NextPage == offset + PageLimit < PageShown.total /\ Turn(offset + PageLimit)
PreviousPage ==
  offset # 0 /\ Turn(IF offset < PageLimit THEN 0 ELSE offset - PageLimit)

-----------------------------------------------------------------------------

ScreenClosed ==
  /\ open = FALSE /\ filter = DefaultFilter /\ offset = 0
  /\ cache = <<>> /\ asks = <<>>

Fetching ==
  \/ \E k \in DOMAIN asks : Serve(k) \/ Arrive(k) \/ Lost(k)
  \/ \E k \in DOMAIN cache : Evicted(k)
  \/ LookAgain

Paging == (\E f \in Filters : SetFilters(f)) \/ NextPage \/ PreviousPage

PageKeys == Filters \X Nat
PageOK(page) ==
  /\ DOMAIN page.rows \subseteq Nat /\ \A r \in DOMAIN page.rows : page.rows[r] \in Marks
  /\ page.total \in Nat \/ page = Unread

\* Type correctness.
ListTypeOK ==
  /\ DOMAIN table \subseteq Nat /\ IsFiniteSet(DOMAIN table)
  /\ \A r \in DOMAIN table : table[r] \in Marks
  /\ filter \in Filters /\ offset \in Nat /\ open \in BOOLEAN
  /\ DOMAIN cache \subseteq PageKeys /\ DOMAIN asks \subseteq PageKeys
  /\ \A k \in DOMAIN cache : PageOK(cache[k])
  /\ \A k \in DOMAIN asks : PageOK(asks[k])

\* "x to y of total" numbers the rows below it: the page begins inside the
\* list its total counts, and has as many rows as the line says.
Numbers(page, o) ==
  page.total > 0 =>
    /\ o < page.total
    /\ Cardinality(DOMAIN page.rows) =
         IF o + PageLimit < page.total THEN PageLimit ELSE page.total - o

LabelIsTrue == PageShown # Unread => Numbers(PageShown, offset)
=============================================================================
