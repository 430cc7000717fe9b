---------------------------- MODULE ClassesProofs -----------------------------
(***************************************************************************)
(* Theorems about PromptVersions, for any classes, wordings, screens and   *)
(* letters, and however many updates at once; about DryRuns, for any       *)
(* frames to pick and however many runs; and about VerdictList, for any    *)
(* filters and page size and however many verdicts.                        *)
(*                                                                         *)
(* Versions of a class never come back because each is newer than the last *)
(* in an order that the code never states: by day, then by the length of   *)
(* the suffix, then letter by letter.  The active classes stay near their  *)
(* ceiling because whoever finds room counts all but the other updates.    *)
(***************************************************************************)
EXTENDS PromptVersions, DryRuns, VerdictList, SequenceTheorems, FiniteSetTheorems,
  FunctionTheorems, WellFoundedInduction, TLAPS

-----------------------------------------------------------------------------
(* PROMPT VERSIONS.                                                        *)

SuffixSeqs == Seq(1 .. Letters)

\* Where two suffixes differ first.
DifferAt(s, t, i) ==
  /\ i \in 1 .. Len(s) /\ s[i] < t[i]
  /\ \A j \in 1 .. i - 1 : s[j] = t[j]

Before(s, t) == Len(s) < Len(t) \/ (Len(s) = Len(t) /\ \E i \in 1 .. Len(s) : DifferAt(s, t, i))

Older(v, w) == v[1] < w[1] \/ (v[1] = w[1] /\ Before(v[2], w[2]))

-----------------------------------------------------------------------------
(* The order of versions.                                                  *)

\* A set of naturals that is not empty has a least one.
LEMMA Least ==
  ASSUME NEW T \in SUBSET Nat, T # {}
  PROVE  \E m \in T : \A y \in T : m <= y
<1>1. \E x \in T : \A y \in T : ~ (<<y, x>> \in OpToRel(<,Nat))
  BY NatLessThanWellFounded, WFMin, Zenon
<1>2. PICK x \in T : \A y \in T : ~ (<<y, x>> \in OpToRel(<,Nat))
  BY <1>1
<1>3. \A y \in T : ~ (y < x)
  BY <1>2 DEF OpToRel
<1> QED BY <1>3

\* One that is bounded has a greatest, which is its Max.
LEMMA Greatest ==
  ASSUME NEW n \in Nat, NEW S \in SUBSET (1 .. n), S # {}
  PROVE  Max(S) \in S /\ \A y \in S : Max(S) >= y
<1> DEFINE T == {n - x : x \in S}
<1>0. \A x \in S : x \in Int /\ n - x \in Nat
  OBVIOUS
<1>1. T \in SUBSET Nat /\ T # {}
  BY <1>0
<1>2. PICK m \in T : \A y \in T : m <= y
  <2> HIDE DEF T
  <2> QED BY <1>1, Least
<1>3. PICK x \in S : m = n - x
  BY <1>2
<1>4. \A y \in S : x >= y
  <2> SUFFICES ASSUME NEW y \in S PROVE x >= y
    OBVIOUS
  <2>1. n - x <= n - y
    BY <1>2, <1>3
  <2> QED BY <1>0, <2>1
<1> QED BY <1>4 DEF Max

\* A suffix is a function on its places.
LEMMA SuffixIs ==
  ASSUME NEW s \in SuffixSeqs
  PROVE  /\ Len(s) \in Nat /\ DOMAIN s = 1 .. Len(s)
         /\ \A i \in 1 .. Len(s) : s[i] \in 1 .. Letters
<1>1. s \in Seq(1 .. Letters)
  BY DEF SuffixSeqs
<1>2. Len(s) \in Nat /\ s \in [1 .. Len(s) -> 1 .. Letters]
  BY <1>1, LenProperties
<1> QED BY <1>2

\* A function on its places is a suffix.
LEMMA PlacesMakeSuffix ==
  ASSUME NEW n \in Nat, NEW s \in [1 .. n -> 1 .. Letters]
  PROVE  s \in SuffixSeqs /\ Len(s) = n
<1>1. s \in Seq(1 .. Letters)
  BY SeqDef
<1> QED BY <1>1, LenProperties DEF SuffixSeqs

\* nextSuffix gives a suffix that comes after.
LEMMA NextComesAfter ==
  ASSUME NEW s \in SuffixSeqs
  PROVE  NextSuffix(s) \in SuffixSeqs /\ Before(s, NextSuffix(s))
<1> DEFINE below == {i \in DOMAIN s : s[i] < Letters}
           at == Max(below)
           n == Len(s)
<1>0. n \in Nat /\ DOMAIN s = 1 .. n /\ Letters \in Nat \ {0} /\ \A i \in 1 .. n : s[i] \in 1 .. Letters
  BY SuffixIs, PromptAssumption
<1>1. CASE below = {}
  <2> DEFINE t == [i \in 1 .. n + 1 |-> 1]
  <2>1. NextSuffix(s) = t
    BY <1>1 DEF NextSuffix
  <2>2. t \in [1 .. n + 1 -> 1 .. Letters] /\ n + 1 \in Nat
    BY <1>0
  <2> HIDE DEF t
  <2>3. t \in SuffixSeqs /\ Len(t) = n + 1
    BY <2>2, PlacesMakeSuffix
  <2>4. Len(s) < Len(t)
    BY <1>0, <2>3
  <2> QED BY <2>1, <2>3, <2>4, Zenon DEF Before
<1>2. CASE below # {}
  <2> DEFINE t == [i \in DOMAIN s |-> IF i < at THEN s[i] ELSE IF i = at THEN s[i] + 1 ELSE 1]
  <2>1. NextSuffix(s) = t
    BY <1>2 DEF NextSuffix
  <2>2. at \in below
    BY <1>0, <1>2, Greatest
  <2>3. at \in 1 .. n /\ s[at] \in 1 .. Letters /\ s[at] < Letters
    BY <1>0, <2>2
  <2> HIDE DEF at, below
  <2>4. t \in [1 .. n -> 1 .. Letters]
    BY <1>0, <2>3
  <2>5. t[at] = s[at] + 1 /\ \A j \in 1 .. at - 1 : t[j] = s[j]
    BY <1>0, <2>3
  <2> HIDE DEF t
  <2>6. t \in SuffixSeqs /\ Len(t) = n
    BY <1>0, <2>4, PlacesMakeSuffix
  <2>7. DifferAt(s, t, at)
    BY <1>0, <2>3, <2>5 DEF DifferAt
  <2> QED BY <2>1, <2>3, <2>6, <2>7 DEF Before
<1> QED BY <1>1, <1>2

\* It is an order: no suffix comes before itself.
LEMMA BeforeIrreflexive ==
  ASSUME NEW s \in SuffixSeqs
  PROVE  ~Before(s, s)
BY SuffixIs DEF Before, DifferAt

\* What comes before one comes before what that comes before.
LEMMA BeforeTransitive ==
  ASSUME NEW s \in SuffixSeqs, NEW t \in SuffixSeqs, NEW u \in SuffixSeqs, Before(s, t), Before(t, u)
  PROVE  Before(s, u)
<1>1. /\ Len(s) \in Nat /\ Len(t) \in Nat /\ Len(u) \in Nat
      /\ \A i \in 1 .. Len(s) : s[i] \in Int
      /\ \A i \in 1 .. Len(t) : t[i] \in Int
      /\ \A i \in 1 .. Len(u) : u[i] \in Int
  BY SuffixIs
<1>2. CASE Len(s) < Len(t) \/ Len(t) < Len(u)
  BY <1>1, <1>2 DEF Before
<1>3. CASE Len(s) = Len(t) /\ Len(t) = Len(u)
  <2>1. PICK i \in 1 .. Len(s) : DifferAt(s, t, i)
    BY <1>1, <1>3 DEF Before
  <2>2. PICK k \in 1 .. Len(t) : DifferAt(t, u, k)
    BY <1>1, <1>3 DEF Before
  <2>3. CASE i <= k
    <3>1. s[i] < u[i] /\ \A j \in 1 .. i - 1 : s[j] = u[j]
      BY <1>1, <1>3, <2>1, <2>2, <2>3 DEF DifferAt
    <3> QED BY <1>3, <2>1, <3>1 DEF Before, DifferAt
  <2>4. CASE k < i
    <3>1. s[k] < u[k] /\ \A j \in 1 .. k - 1 : s[j] = u[j]
      BY <1>1, <1>3, <2>1, <2>2, <2>4 DEF DifferAt
    <3> QED BY <1>3, <2>2, <3>1 DEF Before, DifferAt
  <2> QED BY <1>1, <2>3, <2>4
<1> QED BY <1>1, <1>2, <1>3 DEF Before

\* No version is older than itself, and older than older is older.
LEMMA OlderIsOrder ==
  ASSUME NEW u \in Versions, NEW v \in Versions, NEW w \in Versions
  PROVE  ~Older(v, v) /\ (Older(u, v) /\ Older(v, w) => Older(u, w))
<1>1. /\ u[1] \in Nat /\ v[1] \in Nat /\ w[1] \in Nat
      /\ u[2] \in SuffixSeqs /\ v[2] \in SuffixSeqs /\ w[2] \in SuffixSeqs
  BY DEF Versions, SuffixSeqs
<1> QED BY <1>1, BeforeIrreflexive, BeforeTransitive DEF Older

\* A new version is newer than the one it follows.
LEMMA NextIsNewer ==
  ASSUME NEW v \in Versions, NEW day \in Nat, v[1] <= day
  PROVE  /\ NextVersion(v, day) \in Versions /\ NextVersion(v, day)[1] = day
         /\ Older(v, NextVersion(v, day))
<1>1. v[1] \in Nat /\ v[2] \in SuffixSeqs
  BY DEF Versions, SuffixSeqs
<1>2. NextSuffix(v[2]) \in SuffixSeqs /\ Before(v[2], NextSuffix(v[2]))
  BY <1>1, NextComesAfter
<1>3. <<1>> \in SuffixSeqs
  BY PromptAssumption DEF SuffixSeqs
<1> DEFINE next == IF v[1] = day THEN NextSuffix(v[2]) ELSE <<1>>
<1>4. NextVersion(v, day) = <<day, next>> /\ next \in SuffixSeqs
  BY <1>2, <1>3 DEF NextVersion
<1>5. v[1] < day \/ (v[1] = day /\ Before(v[2], next))
  BY <1>1, <1>2
<1> HIDE DEF next
<1> QED BY <1>4, <1>5 DEF Older, Versions, SuffixSeqs

-----------------------------------------------------------------------------
(* The invariant.                                                          *)

\* A class that is there has a wording, and a version of a day that has come.
Dated(row) == row.wording \in Wordings /\ row.version[1] \in 1 .. today

\* A row that has the wording and the version of another, or a newer version.
Succeeds(row, old) ==
  \/ row.version = old.version /\ row.wording = old.wording
  \/ Older(old.version, row.version)

\* An update's class is there, and the row it will write follows the one that
\* is there, unless its class is a raced one.
UpdatesOK ==
  \A r \in Requests : ~Free(r) =>
    /\ Dated(roster[updates[r].class])
    /\ HasRead(r) => Dated(updates[r].row)
    /\ HasRead(r) /\ updates[r].class \notin raced
         => Succeeds(updates[r].row, roster[updates[r].class])

\* A kind of box that is on its way or stored has the class's wording of now,
\* or an older version.
Current(p) ==
  /\ Dated(roster[p.class])
  /\ \/ p.version = roster[p.class].version /\ p.wording = roster[p.class].wording
     \/ Older(p.version, roster[p.class].version)

Unraced == {p \in prompts \cup stamped : p.class \notin raced}

PromptInv ==
  /\ PromptTypeOK
  /\ today \in Nat \ {0}
  /\ \A c \in ClassNames : Absent(c) \/ Dated(roster[c])
  /\ UpdatesOK
  /\ \A p \in Unraced : Current(p)
  /\ \A p, q \in Unraced : p.class = q.class /\ p.version = q.version => p.wording = q.wording

-----------------------------------------------------------------------------
(* Steps.                                                                  *)

\* A dated row is no empty one, and has a version.
LEMMA RowIs ==
  ASSUME PromptInv
  PROVE  /\ \A c \in ClassNames : roster[c] \in Rows /\ roster[c].version \in Versions
         /\ \A c \in ClassNames : Dated(roster[c]) <=> ~Absent(c)
         /\ \A r \in Requests : ~Free(r) =>
              updates[r] \in Updates /\ updates[r].class \in ClassNames /\ updates[r].row \in Rows
<1>1. \A c \in ClassNames : roster[c] \in Rows /\ roster[c].version \in Versions
  BY DEF PromptInv, PromptTypeOK, Rows
<1>2. ~Dated(NoRow)
  BY DEF NoRow, NoVersion, Dated
<1>3. \A c \in ClassNames : Dated(roster[c]) <=> ~Absent(c)
  BY <1>2 DEF PromptInv, Absent
<1>4. \A r \in Requests : ~Free(r) => updates[r] \in Updates
  BY DEF PromptInv, PromptTypeOK, Free
<1> QED BY <1>1, <1>3, <1>4 DEF Updates

\* Nothing on the roster changes, and what is on its way or stored is of it
\* or was there before.
LEMMA SameRoster ==
  ASSUME PromptInv, UNCHANGED <<today, roster, raced>>, PromptTypeOK', UpdatesOK',
         \A p \in (prompts \cup stamped)' : p \in prompts \cup stamped \/
            /\ p.class \in ClassNames /\ ~Absent(p.class)
            /\ p.wording = roster[p.class].wording /\ p.version = roster[p.class].version
  PROVE  PromptInv'
<1>0. prompts \cup stamped \subseteq Prompts
  BY DEF PromptInv, PromptTypeOK
<1>1. \A p \in Unraced' : Current(p)
  <2> SUFFICES ASSUME NEW p \in Unraced' PROVE Current(p)
    OBVIOUS
  <2>1. CASE p \in prompts \cup stamped
    BY <2>1 DEF PromptInv, Unraced
  <2>2. CASE p \notin prompts \cup stamped
    BY <2>2, RowIs DEF Unraced, Current
  <2> QED BY <2>1, <2>2
<1>2. \A p \in Unraced' : p \in Unraced \/
         (p.class \in ClassNames /\ p.wording = roster[p.class].wording /\ p.version = roster[p.class].version)
  BY DEF Unraced
<1>3. ASSUME NEW p \in Unraced', NEW q \in Unraced', p.class = q.class, p.version = q.version
      PROVE  p.wording = q.wording
  <2>1. CASE p \in Unraced /\ q \in Unraced
    BY <1>3, <2>1 DEF PromptInv
  <2>2. ASSUME NEW x \in Unraced', x.class \in ClassNames, x.version = roster[x.class].version
        PROVE  x.wording = roster[x.class].wording
    <3>1. Current(x)
      BY <1>1
    <3>2. ~Older(x.version, x.version)
      BY <2>2, RowIs, OlderIsOrder
    <3> QED BY <2>2, <3>1, <3>2 DEF Current
  <2>3. CASE p \notin Unraced
    <3>1. /\ p.class \in ClassNames /\ p.wording = roster[p.class].wording
          /\ p.version = roster[p.class].version
      BY <1>2, <2>3
    <3>2. q.wording = roster[q.class].wording
      BY <1>3, <2>2, <3>1
    <3> QED BY <1>3, <3>1, <3>2
  <2>4. CASE q \notin Unraced
    <3>1. /\ q.class \in ClassNames /\ q.wording = roster[q.class].wording
          /\ q.version = roster[q.class].version
      BY <1>2, <2>4
    <3>2. p.wording = roster[p.class].wording
      BY <1>3, <2>2, <3>1
    <3> QED BY <1>3, <3>1, <3>2
  <2> QED BY <2>1, <2>3, <2>4
<1>4. \A p \in Unraced' : Current(p)'
  BY <1>1 DEF Current, Dated
<1>5. \A c \in ClassNames : (Absent(c) \/ Dated(roster[c]))'
  BY DEF PromptInv, Absent, Dated
<1> QED BY <1>3, <1>4, <1>5 DEF PromptInv

\* An update that ends leaves the others as they are.
LEMMA EndingIs ==
  ASSUME PromptTypeOK, NEW r \in Requests, Finished(r)
  PROVE  /\ updates' \in [Requests -> Updates \cup {NoUpdate}]
         /\ watched' \in [Screens -> Requests \cup {Nothing}] /\ sends' \in Nat
         /\ updates'[r] = NoUpdate
         /\ \A q \in Requests \ {r} : updates'[q] = updates[q]
<1>1. updates' = [updates EXCEPT ![r] = NoUpdate] /\ updates \in [Requests -> Updates \cup {NoUpdate}]
  BY DEF PromptTypeOK, Finished
<1>2. watched' \in [Screens -> Requests \cup {Nothing}] /\ sends' \in Nat
  BY DEF PromptTypeOK, Finished
<1> QED BY <1>1, <1>2

\* An update begins by the page of a class that is there.
LEMMA SendKeeps ==
  ASSUME PromptInv, NEW s \in Screens, NEW r \in Requests, NEW c \in ClassNames,
         NEW wording \in Wordings \cup {Keep}, NEW active \in {"on", "off", Keep},
         Send(s, r, c, wording, active)
  PROVE  PromptInv'
<1> DEFINE new == [at |-> "read", class |-> c, wording |-> wording, active |-> active, row |-> NoRow]
<1>1. NoRow \in Rows
  <2>1. NoVersion \in Versions
    BY EmptySeq DEF NoVersion, Versions
  <2> QED BY <2>1 DEF NoRow, Rows
<1>2. new \in Updates /\ new.at = "read" /\ new.class = c
  BY <1>1 DEF Updates
<1>3. updates' = [updates EXCEPT ![r] = new] /\ updates \in [Requests -> Updates \cup {NoUpdate}]
  BY DEF PromptInv, PromptTypeOK, Send
<1> HIDE DEF new
<1>4. updates' \in [Requests -> Updates \cup {NoUpdate}] /\ updates'[r] = new
      /\ \A q \in Requests \ {r} : updates'[q] = updates[q]
  BY <1>2, <1>3
<1>5. PromptTypeOK'
  BY <1>4 DEF PromptInv, PromptTypeOK, Send
<1>6. UpdatesOK'
  <2> SUFFICES ASSUME NEW q \in Requests, ~Free(q)'
               PROVE  /\ Dated(roster[updates[q].class])'
                      /\ HasRead(q)' => Dated(updates[q].row)'
                      /\ HasRead(q)' /\ (updates[q].class \notin raced)'
                           => Succeeds(updates[q].row, roster[updates[q].class])'
    BY DEF UpdatesOK
  <2>1. CASE q = r
    <3>1. ~HasRead(q)'
      BY <1>2, <1>4, <2>1 DEF HasRead
    <3>2. Dated(roster[c])
      BY RowIs DEF Send
    <3> QED BY <1>2, <1>4, <2>1, <3>1, <3>2 DEF Dated, Send
  <2>2. CASE q # r
    BY <1>4, <2>2 DEF PromptInv, UpdatesOK, Succeeds, Free, HasRead, Dated, Send
  <2> QED BY <2>1, <2>2
<1> QED BY <1>5, <1>6, SameRoster DEF Send, PromptInv

\* What an update will write follows what it has read.
LEMMA RewrittenFollows ==
  ASSUME NEW read \in Rows, Dated(read), today \in Nat \ {0},
         NEW wording \in Wordings \cup {Keep}, NEW active \in {"on", "off", Keep}
  PROVE  /\ Rewritten(read, wording, active) \in Rows
         /\ Dated(Rewritten(read, wording, active))
         /\ Succeeds(Rewritten(read, wording, active), read)
<1> DEFINE row == Rewritten(read, wording, active)
           next == NextVersion(read.version, today)
<1>1. /\ read.version \in Versions /\ read.version[1] \in 1 .. today
      /\ read.wording \in Wordings /\ read.active \in BOOLEAN
  BY DEF Rows, Dated
<1>2. next \in Versions /\ next[1] = today /\ Older(read.version, next)
  BY <1>1, NextIsNewer
<1>3. /\ row = [wording |-> row.wording, version |-> row.version, active |-> row.active]
      /\ row.wording \in Wordings /\ row.active \in BOOLEAN
  BY <1>1 DEF Rewritten
<1>4. row.version = next \/ (row.version = read.version /\ row.wording = read.wording)
  BY DEF Rewritten
<1> HIDE DEF row, next
<1>5. row.version \in Versions /\ row.version[1] \in 1 .. today
  BY <1>1, <1>2, <1>4
<1>6. row \in Rows /\ Dated(row)
  BY <1>3, <1>5 DEF Rows, Dated
<1>7. Succeeds(row, read)
  BY <1>2, <1>4 DEF Succeeds
<1> QED BY <1>6, <1>7 DEF row

\* It reads its class's row.
LEMMA ReadKeeps ==
  ASSUME PromptInv, NEW r \in Requests, ReadRow(r)
  PROVE  PromptInv'
<1> DEFINE read == roster[updates[r].class]
           row == Rewritten(read, updates[r].wording, updates[r].active)
           at == IF updates[r].active = "on" /\ ~read.active THEN "count" ELSE "write"
           new == [updates[r] EXCEPT !.row = row, !.at = at]
<1>1. updates[r] \in Updates /\ read \in Rows /\ at \in {"count", "write"}
  BY RowIs DEF ReadRow
<1>2. /\ updates[r].wording \in Wordings \cup {Keep}
      /\ updates[r].active \in {"on", "off", Keep}
  BY <1>1 DEF Updates
<1>3. Dated(read)
  BY DEF PromptInv, UpdatesOK, ReadRow
<1>4. row \in Rows /\ Dated(row) /\ Succeeds(row, read)
  <2> HIDE DEF read
  <2> QED BY <1>1, <1>2, <1>3, RewrittenFollows DEF PromptInv
<1>5. updates' = [updates EXCEPT ![r] = new] /\ updates \in [Requests -> Updates \cup {NoUpdate}]
  BY Zenon DEF PromptInv, PromptTypeOK, ReadRow
<1>6. new \in Updates /\ new.at = at /\ new.class = updates[r].class /\ new.row = row
  <2> HIDE DEF row, at
  <2> QED BY <1>1, <1>4 DEF Updates
<1> HIDE DEF new, row
<1>7. updates' \in [Requests -> Updates \cup {NoUpdate}] /\ updates'[r] = new
      /\ \A q \in Requests \ {r} : updates'[q] = updates[q]
  BY <1>5, <1>6
<1>8. PromptTypeOK'
  BY <1>7 DEF PromptInv, PromptTypeOK, ReadRow
<1>9. UpdatesOK'
  <2> SUFFICES ASSUME NEW q \in Requests, ~Free(q)'
               PROVE  /\ Dated(roster[updates[q].class])'
                      /\ HasRead(q)' => Dated(updates[q].row)'
                      /\ HasRead(q)' /\ (updates[q].class \notin raced)'
                           => Succeeds(updates[q].row, roster[updates[q].class])'
    BY DEF UpdatesOK
  <2>1. CASE q = r
    <3> HIDE DEF at
    <3> QED BY <1>3, <1>4, <1>6, <1>7, <2>1 DEF Dated, Succeeds, ReadRow
  <2>2. CASE q # r
    BY <1>7, <2>2 DEF PromptInv, UpdatesOK, Succeeds, Free, HasRead, Dated, Succeeds, ReadRow
  <2> QED BY <2>1, <2>2
<1> QED BY <1>8, <1>9, SameRoster DEF ReadRow, PromptInv

\* It ends before it writes, by refusal or death.
LEMMA EndKeeps ==
  ASSUME PromptInv, NEW r \in Requests, Finished(r), UNCHANGED <<today, roster, prompts, stamped, raced>>
  PROVE  PromptInv'
<1>1. PromptTypeOK'
  BY EndingIs DEF PromptInv, PromptTypeOK
<1>2. UpdatesOK'
  BY EndingIs DEF PromptInv, UpdatesOK, Succeeds, Free, HasRead, Dated
<1> QED BY <1>1, <1>2, SameRoster DEF PromptInv

\* It counts the active classes.
LEMMA CountKeeps ==
  ASSUME PromptInv, NEW r \in Requests, CountActive(r)
  PROVE  PromptInv'
<1>1. CASE ~RoomLeft
  BY <1>1, EndKeeps DEF CountActive
<1>2. CASE RoomLeft
  <2> DEFINE new == [updates[r] EXCEPT !.at = "write"]
  <2>1. updates[r] \in Updates /\ updates[r].at = "count"
    BY RowIs DEF CountActive
  <2>2. new \in Updates /\ new.at = "write" /\ new.class = updates[r].class /\ new.row = updates[r].row
    BY <2>1 DEF Updates
  <2>3. updates' = [updates EXCEPT ![r] = new] /\ updates \in [Requests -> Updates \cup {NoUpdate}]
    BY <1>2, Zenon DEF PromptInv, PromptTypeOK, CountActive
  <2> HIDE DEF new
  <2>4. updates' \in [Requests -> Updates \cup {NoUpdate}] /\ updates'[r] = new
        /\ \A q \in Requests \ {r} : updates'[q] = updates[q]
    BY <2>2, <2>3
  <2>5. PromptTypeOK'
    BY <1>2, <2>4 DEF PromptInv, PromptTypeOK, CountActive
  <2>6. UpdatesOK'
    <3> SUFFICES ASSUME NEW q \in Requests, ~Free(q)'
                 PROVE  /\ Dated(roster[updates[q].class])'
                        /\ HasRead(q)' => Dated(updates[q].row)'
                        /\ HasRead(q)' /\ (updates[q].class \notin raced)'
                             => Succeeds(updates[q].row, roster[updates[q].class])'
      BY DEF UpdatesOK
    <3>1. CASE q = r
      <4>1. HasRead(r) /\ ~Free(r)
        BY <2>1 DEF HasRead, CountActive
      <4> QED BY <2>2, <2>4, <3>1, <4>1 DEF PromptInv, UpdatesOK, Succeeds, Dated, CountActive
    <3>2. CASE q # r
      BY <2>4, <3>2 DEF PromptInv, UpdatesOK, Succeeds, Free, HasRead, Dated, CountActive
    <3> QED BY <3>1, <3>2
  <2> QED BY <2>5, <2>6, SameRoster DEF CountActive, PromptInv
<1> QED BY <1>1, <1>2

\* The worker fetches, reports or fails.
LEMMA WorkerKeeps ==
  ASSUME PromptInv, FetchPrompts \/ ReportBoxes \/ DetectionFails
  PROVE  PromptInv'
<1>1. CASE FetchPrompts
  <2> DEFINE Of(c) == [class |-> c, wording |-> roster[c].wording, version |-> roster[c].version]
  <2>1. ASSUME NEW c \in Active
        PROVE  c \in ClassNames /\ ~Absent(c) /\ Of(c) \in Prompts
    <3>1. c \in ClassNames /\ ~Absent(c)
      BY DEF Active, Absent, NoRow
    <3>2. Dated(roster[c]) /\ roster[c].version \in Versions
      BY <3>1, RowIs
    <3> QED BY <3>1, <3>2 DEF Dated, Prompts
  <2>2. prompts' = {Of(c) : c \in Active}
    BY <1>1 DEF FetchPrompts
  <2>3. \A p \in prompts' : p \in Prompts /\ p.class \in ClassNames /\ ~Absent(p.class)
            /\ p.wording = roster[p.class].wording /\ p.version = roster[p.class].version
    BY <2>1, <2>2
  <2>4. PromptTypeOK'
    BY <1>1, <2>3 DEF PromptInv, PromptTypeOK, FetchPrompts
  <2>5. UpdatesOK'
    BY <1>1 DEF PromptInv, UpdatesOK, Succeeds, FetchPrompts, Free, HasRead, Dated
  <2> QED BY <1>1, <2>3, <2>4, <2>5, SameRoster DEF FetchPrompts
<1>2. CASE ReportBoxes \/ DetectionFails
  <2>1. (prompts \cup stamped)' \subseteq prompts \cup stamped
    BY <1>2 DEF ReportBoxes, DetectionFails, StampOf, NoJob
  <2>2. PromptTypeOK'
    BY <1>2, <2>1 DEF PromptInv, PromptTypeOK, ReportBoxes, DetectionFails
  <2>3. UpdatesOK'
    BY <1>2 DEF PromptInv, UpdatesOK, Succeeds, ReportBoxes, DetectionFails, Free, HasRead, Dated
  <2> QED BY <1>2, <2>1, <2>2, <2>3, SameRoster DEF ReportBoxes, DetectionFails
<1> QED BY <1>1, <1>2

\* A day that turns makes no version of the roster's one that is to come.
LEMMA NextDayKeeps ==
  ASSUME PromptInv, NextDay
  PROVE  PromptInv'
<1>1. today \in Nat /\ today' = today + 1
  BY DEF PromptInv, PromptTypeOK, NextDay
<1>2. \A row : Dated(row) => Dated(row)'
  BY <1>1 DEF Dated
<1> QED BY <1>1, <1>2 DEF PromptInv, PromptTypeOK, NextDay, UpdatesOK, Succeeds, Free, HasRead,
        Unraced, Current, Absent, Dated

\* A row written is of a raced class, of a class that was not there, or it has
\* the version and wording of the row before, or a newer version.
LEMMA RowWritten ==
  ASSUME PromptInv, NEW c \in ClassNames, NEW row \in Rows, Dated(row),
         roster' = [roster EXCEPT ![c] = row], UNCHANGED <<today, prompts, stamped>>,
         raced \subseteq raced', PromptTypeOK', UpdatesOK',
         c \in raced' \/ Absent(c) \/ Succeeds(row, roster[c])
  PROVE  PromptInv'
<1>1. roster'[c] = row /\ \A d \in ClassNames \ {c} : roster'[d] = roster[d]
  BY DEF PromptInv, PromptTypeOK
<1>2. Unraced' \subseteq Unraced
  BY DEF Unraced
<1>3. \A p \in Unraced : p.class \in ClassNames /\ p.version \in Versions
  BY DEF PromptInv, PromptTypeOK, Unraced, Prompts
<1>4. ASSUME NEW p \in Unraced'
      PROVE  Current(p)'
  <2>1. p \in Unraced /\ Current(p) /\ p.class \notin raced'
    BY <1>2 DEF PromptInv, Unraced
  <2>2. CASE p.class # c
    BY <1>1, <1>3, <2>1, <2>2 DEF Current, Dated
  <2>3. CASE p.class = c
    <3>1. ~Absent(c)
      BY <2>1, <2>3, RowIs DEF Current
    <3>2. row.version \in Versions /\ roster[c].version \in Versions
      BY RowIs DEF Rows
    <3>3. Dated(row)'
      BY DEF Dated
    <3>4. \/ p.version = row.version /\ p.wording = row.wording
          \/ Older(p.version, row.version)
      <4>1. CASE row.version = roster[c].version /\ row.wording = roster[c].wording
        BY <2>1, <2>3, <4>1 DEF Current
      <4>2. CASE Older(roster[c].version, row.version)
        <5>1. p.version = roster[c].version \/ Older(p.version, roster[c].version)
          BY <2>1, <2>3 DEF Current
        <5> QED BY <1>3, <2>1, <3>2, <4>2, <5>1, OlderIsOrder
      <4> QED BY <2>1, <2>3, <3>1, <4>1, <4>2 DEF Succeeds
    <3> QED BY <1>1, <2>3, <3>3, <3>4 DEF Current
  <2> QED BY <2>2, <2>3
<1>5. \A d \in ClassNames : (Absent(d) \/ Dated(roster[d]))'
  BY <1>1 DEF PromptInv, Absent, Dated
<1> QED BY <1>2, <1>4, <1>5 DEF PromptInv

\* A class is created.
LEMMA CreateKeeps ==
  ASSUME PromptInv, NEW c \in ClassNames, NEW w \in Wordings, CreateClass(c, w)
  PROVE  PromptInv'
<1> DEFINE version == NextVersion(NoVersion, today)
           row == [wording |-> w, active |-> FALSE, version |-> version]
<1>1. NoVersion \in Versions /\ NoVersion[1] = 0
  BY EmptySeq DEF NoVersion, Versions
<1>2. version \in Versions /\ version[1] = today
  BY <1>1, NextIsNewer DEF PromptInv
<1>3. row \in Rows /\ Dated(row)
  <2> HIDE DEF version
  <2> QED BY <1>2 DEF Rows, Dated, PromptInv
<1>4. roster' = [roster EXCEPT ![c] = row] /\ Absent(c)
  BY DEF CreateClass
<1> HIDE DEF row, version
<1>5. PromptTypeOK'
  BY <1>3, <1>4 DEF PromptInv, PromptTypeOK, CreateClass
<1>6. UpdatesOK'
  <2>1. \A r \in Requests : ~Free(r) => updates[r].class \in ClassNames \ {c}
    BY <1>4, RowIs DEF PromptInv, UpdatesOK
  <2>2. \A d \in ClassNames \ {c} : roster'[d] = roster[d]
    BY <1>4 DEF PromptInv, PromptTypeOK
  <2> QED BY <2>1, <2>2 DEF PromptInv, UpdatesOK, Succeeds, Free, HasRead, Dated, CreateClass
<1> QED BY <1>3, <1>4, <1>5, <1>6, RowWritten DEF CreateClass

\* An update writes its row.  If another one has read the row it overwrites, the
\* class is a raced one from here on.
LEMMA TextWriteKeeps ==
  ASSUME PromptInv, NEW r \in Requests, WriteRow(r)
  PROVE  PromptInv'
<1> DEFINE c == updates[r].class
           row == updates[r].row
           overtaken == \E q \in Requests \ {r} : HasRead(q) /\ updates[q].class = c
<1>1. ~Free(r) /\ HasRead(r) /\ c \in ClassNames /\ row \in Rows
  BY RowIs DEF WriteRow, HasRead
<1>2. Dated(row) /\ (c \notin raced => Succeeds(row, roster[c]))
  BY <1>1 DEF PromptInv, UpdatesOK
<1>3. roster' = [roster EXCEPT ![c] = row] /\ Finished(r)
      /\ raced' = (IF overtaken THEN raced \cup {c} ELSE raced)
      /\ UNCHANGED <<today, prompts, stamped>>
  BY Zenon DEF WriteRow
<1>4. roster'[c] = row /\ \A d \in ClassNames \ {c} : roster'[d] = roster[d]
  BY <1>1, <1>3 DEF PromptInv, PromptTypeOK
<1> HIDE DEF row
<1>5. PromptTypeOK'
  BY <1>1, <1>3, EndingIs DEF PromptInv, PromptTypeOK
<1>6. UpdatesOK'
  <2> SUFFICES ASSUME NEW q \in Requests, ~Free(q)'
               PROVE  /\ Dated(roster[updates[q].class])'
                      /\ HasRead(q)' => Dated(updates[q].row)'
                      /\ HasRead(q)' /\ (updates[q].class \notin raced)'
                           => Succeeds(updates[q].row, roster[updates[q].class])'
    BY DEF UpdatesOK
  <2>1. updates'[r] = NoUpdate /\ \A x \in Requests \ {r} : updates'[x] = updates[x]
    BY <1>3, EndingIs DEF PromptInv
  <2>2. q # r /\ updates'[q] = updates[q] /\ ~Free(q) /\ (HasRead(q)' <=> HasRead(q))
    BY <2>1 DEF Free, HasRead
  <2>3. /\ Dated(roster[updates[q].class]) /\ updates[q].class \in ClassNames
        /\ HasRead(q) => Dated(updates[q].row)
        /\ HasRead(q) /\ updates[q].class \notin raced
             => Succeeds(updates[q].row, roster[updates[q].class])
    BY <2>2, RowIs DEF PromptInv, UpdatesOK
  <2>4. \A x : Dated(x)' <=> Dated(x)
    BY <1>3 DEF Dated
  <2>5. CASE updates[q].class # c
    BY <1>3, <1>4, <2>2, <2>3, <2>4, <2>5 DEF Succeeds
  <2>6. CASE updates[q].class = c
    <3>1. HasRead(q) => c \in raced'
      BY <1>3, <2>2, <2>6
    <3> QED BY <1>2, <1>4, <2>2, <2>3, <2>4, <2>6, <3>1
  <2> QED BY <2>5, <2>6
<1> QED BY <1>1, <1>2, <1>3, <1>5, <1>6, RowWritten

\* The invariant.
THEOREM PromptInvariant == PromptSpec => []PromptInv
<1>1. PromptInit => PromptInv
  <2> SUFFICES ASSUME PromptInit PROVE PromptInv
    OBVIOUS
  <2>1. NoRow \in Rows
    <3>1. NoVersion \in Versions
      BY EmptySeq DEF NoVersion, Versions
    <3> QED BY <3>1 DEF NoRow, Rows
  <2>2. PromptTypeOK
    BY <2>1 DEF PromptInit, PromptTypeOK, NoJob
  <2> QED BY <2>2 DEF PromptInit, PromptInv, UpdatesOK, Free, Absent, Unraced, NoJob
<1>2. PromptInv /\ [PromptNext]_roster_vars => PromptInv'
  <2> SUFFICES ASSUME PromptInv, [PromptNext]_roster_vars PROVE PromptInv'
    OBVIOUS
  <2>1. CASE UNCHANGED roster_vars
    BY <2>1 DEF roster_vars, PromptInv, PromptTypeOK, UpdatesOK, Succeeds, Free, HasRead, Unraced,
       Current, Absent, Dated
  <2>2. CASE NextDay
    BY <2>2, NextDayKeeps
  <2>3. ASSUME NEW c \in ClassNames, NEW w \in Wordings, CreateClass(c, w)
        PROVE  PromptInv'
    BY <2>3, CreateKeeps
  <2>4. ASSUME NEW s \in Screens, NEW r \in Requests, NEW c \in ClassNames,
               SaveWording(s, r, c) \/ Toggle(s, r, c)
        PROVE  PromptInv'
    <3>1. \E w \in Wordings \cup {Keep}, a \in {"on", "off", Keep} : Send(s, r, c, w, a)
      BY <2>4 DEF SaveWording, Toggle
    <3> QED BY <3>1, SendKeeps
  <2>5. ASSUME NEW r \in Requests, UpdateDies(r)
        PROVE  PromptInv'
    BY <2>5, EndKeeps DEF UpdateDies
  <2>6. ASSUME NEW r \in Requests, ReadRow(r) \/ CountActive(r) \/ WriteRow(r)
        PROVE  PromptInv'
    BY <2>6, ReadKeeps, CountKeeps, TextWriteKeeps
  <2> QED BY <2>1, <2>2, <2>3, <2>4, <2>5, <2>6, WorkerKeeps DEF PromptNext
<1> QED BY <1>1, <1>2, PTL DEF PromptSpec

\* The roster, the requests, the jobs and the stored boxes keep their types.
THEOREM PromptTypeCorrect == PromptSpec => []PromptTypeOK
<1>1. PromptInv => PromptTypeOK
  BY DEF PromptInv
<1> QED BY <1>1, PromptInvariant, PTL

\* The boxes stored under one version of a class were found by one wording,
\* unless two updates of that class overlapped.
THEOREM VersionsTell == PromptSpec => []OneWordingUnlessRaced
<1>1. PromptInv => OneWordingUnlessRaced
  BY DEF PromptInv, OneWordingUnlessRaced, Unraced
<1> QED BY <1>1, PromptInvariant, PTL

-----------------------------------------------------------------------------
(* The ceiling of active classes.                                          *)

\* An update that will write its class active, counted or as it was read.
Carries(r) ==
  ~Free(r) /\ updates[r].at = "write" /\ updates[r].row.active

Carriers == {r \in Requests : Carries(r)}

\* The classes that are active or may still be made so uncounted.
Due == Active \cup {updates[r].class : r \in Carriers}

Ceiling == Cardinality(Due) <= MaxActive + Cardinality(Requests) - 1

LEMMA DueIsFinite ==
  ASSUME PromptTypeOK
  PROVE  /\ Due \in SUBSET ClassNames /\ IsFiniteSet(Due) /\ Cardinality(Due) \in Nat
         /\ IsFiniteSet(Active) /\ Cardinality(Active) \in Nat /\ Cardinality(Active) <= Cardinality(Due)
<1>1. \A r \in Requests : ~Free(r) => updates[r].class \in ClassNames
  BY DEF PromptTypeOK, Free, Updates
<1>2. Due \in SUBSET ClassNames /\ Active \subseteq Due
  BY <1>1 DEF Due, Active, Carriers, Carries
<1> QED BY <1>2, PromptAssumption, FS_Subset, FS_CardinalityType

\* Nothing new is due: the ceiling stays.
LEMMA CeilingStays ==
  ASSUME PromptTypeOK, Ceiling, Due' \subseteq Due
  PROVE  Ceiling'
<1>1. Cardinality(Due') <= Cardinality(Due) /\ Cardinality(Due') \in Nat /\ Cardinality(Due) \in Nat
  BY DueIsFinite, FS_Subset, FS_CardinalityType
<1>2. MaxActive + Cardinality(Requests) - 1 \in Int
  BY PromptAssumption, FS_CardinalityType
<1> QED BY <1>1, <1>2 DEF Ceiling

\* An update that found room was not counted by at most the other updates.
LEMMA RoomForOneMore ==
  ASSUME PromptTypeOK, NEW r \in Requests, ~Carries(r), RoomLeft
  PROVE  Cardinality(Due \cup {updates[r].class}) <= MaxActive + Cardinality(Requests) - 1
<1> DEFINE classes == {updates[q].class : q \in Carriers}
           others == Requests \ {r}
           f == [q \in Carriers |-> updates[q].class]
           n == Cardinality(Requests)
<1>1. IsFiniteSet(others) /\ n \in Nat /\ Cardinality(others) = n - 1
  BY PromptAssumption, FS_RemoveElement, FS_CardinalityType
<1>2. Carriers \in SUBSET others
  BY DEF Carriers
<1>3. IsFiniteSet(Carriers) /\ Cardinality(Carriers) <= n - 1 /\ Cardinality(Carriers) \in Nat
  <2> HIDE DEF others, n
  <2> QED BY <1>1, <1>2, FS_Subset, FS_CardinalityType
<1>4. IsFiniteSet(classes) /\ Cardinality(classes) <= Cardinality(Carriers)
      /\ Cardinality(classes) \in Nat
  <2>1. f \in [Carriers -> classes]
    OBVIOUS
  <2>2. f \in Surjection(Carriers, classes)
    BY <2>1 DEF Surjection
  <2> HIDE DEF f, classes
  <2> QED BY <1>3, <2>2, FS_Surjection, FS_CardinalityType
<1> HIDE DEF classes, n, others
<1>5. IsFiniteSet(Active) /\ Cardinality(Active) \in Nat /\ Cardinality(Active) < MaxActive
  BY DueIsFinite DEF RoomLeft
<1>6. Due = Active \cup classes
  BY DEF Due, classes
<1> DEFINE both == Active \cap classes
<1>7. IsFiniteSet(both) /\ Cardinality(both) \in Nat
  BY <1>4, <1>5, FS_Intersection, FS_CardinalityType
<1>8. Cardinality(Active \cup classes) = Cardinality(Active) + Cardinality(classes) - Cardinality(both)
  BY <1>4, <1>5, FS_Union
<1> HIDE DEF both
<1>9. IsFiniteSet(Due) /\ Cardinality(Due) \in Nat
  BY DueIsFinite
<1>10. Cardinality(Due) <= MaxActive + n - 2
  BY <1>1, <1>3, <1>4, <1>5, <1>6, <1>7, <1>8, PromptAssumption
<1>11. Cardinality(Due \cup {updates[r].class}) <= Cardinality(Due) + 1
  BY <1>9, FS_AddElement
<1>12. Cardinality(Due \cup {updates[r].class}) \in Nat
  BY <1>9, FS_AddElement, FS_CardinalityType
<1> QED BY <1>1, <1>9, <1>10, <1>11, <1>12, PromptAssumption DEF n

\* An update that ends without a write carries no more.
LEMMA EndsDue ==
  ASSUME PromptTypeOK, NEW r \in Requests, Finished(r), UNCHANGED roster
  PROVE  Due' \subseteq Due
<1>1. updates'[r] = NoUpdate /\ \A q \in Requests \ {r} : updates'[q] = updates[q]
  BY EndingIs
<1>2. Active' = Active
  BY DEF Active
<1>3. \A q \in Requests : Carries(q)' => q # r /\ Carries(q) /\ updates'[q].class = updates[q].class
  BY <1>1 DEF Carries, Free
<1> QED BY <1>2, <1>3 DEF Due, Carriers

\* What is written active was due.
LEMMA WriteDue ==
  ASSUME PromptTypeOK, NEW r \in Requests, WriteRow(r)
  PROVE  Due' \subseteq Due
<1> DEFINE c == updates[r].class
           row == updates[r].row
<1>1. updates[r] \in Updates /\ c \in ClassNames
  BY DEF WriteRow, Free, PromptTypeOK, Updates
<1>2. roster \in [ClassNames -> Rows] /\ roster' = [roster EXCEPT ![c] = row]
  BY DEF WriteRow, PromptTypeOK
<1>3. row.active => Carries(r)
  BY DEF WriteRow, Carries
<1> HIDE DEF row, c
<1>4. Active' \subseteq Active \cup (IF row.active THEN {c} ELSE {})
  BY <1>2 DEF Active
<1>5. updates'[r] = NoUpdate /\ \A q \in Requests \ {r} : updates'[q] = updates[q]
  BY EndingIs DEF WriteRow
<1>6. \A q \in Requests : Carries(q)' => q # r /\ Carries(q) /\ updates'[q].class = updates[q].class
  BY <1>5 DEF Carries, Free
<1>7. row.active => c \in Due
  BY <1>3 DEF Due, Carriers, c
<1> QED BY <1>4, <1>6, <1>7 DEF Due, Carriers

\* Reading a row, and whatever else is done, makes nothing due.
LEMMA ReadDue ==
  ASSUME PromptTypeOK, NEW r \in Requests, ReadRow(r)
  PROVE  Due' \subseteq Due
<1>1. updates \in [Requests -> Updates \cup {NoUpdate}] /\ updates[r] \in Updates
  BY DEF PromptTypeOK, ReadRow, Free
<1> DEFINE u == updates[r]
           read == roster[u.class]
           row == Rewritten(read, u.wording, u.active)
           at == IF u.active = "on" /\ ~read.active THEN "count" ELSE "write"
<1>2. updates' = [updates EXCEPT ![r] = [u EXCEPT !.row = row, !.at = at]] /\ roster' = roster
  BY Zenon DEF ReadRow
<1>3. at = "write" /\ row.active => read.active
  BY DEF Rewritten
<1>4. /\ updates'[r].class = u.class /\ updates'[r].row = row /\ updates'[r].at = at
      /\ \A q \in Requests \ {r} : updates'[q] = updates[q]
  <2> HIDE DEF row, at
  <2> QED BY <1>1, <1>2 DEF Updates
<1> HIDE DEF row, at
<1>5. Active' = Active
  BY <1>2 DEF Active
<1>6. Carries(r)' => read.active
  BY <1>3, <1>4 DEF Carries, Free
<1>7. u.class \in ClassNames
  BY <1>1 DEF Updates
<1>8. Carries(r)' => updates'[r].class \in Active
  BY <1>4, <1>6, <1>7 DEF Active
<1>9. \A q \in Requests : q # r /\ Carries(q)' => Carries(q) /\ updates'[q].class = updates[q].class
  BY <1>4 DEF Carries, Free
<1> QED BY <1>5, <1>8, <1>9 DEF Due, Carriers

LEMMA QuietDue ==
  ASSUME PromptTypeOK,
         \/ UNCHANGED <<roster, updates>>
         \/ \E c \in ClassNames, w \in Wordings : CreateClass(c, w)
         \/ \E s \in Screens, r \in Requests, c \in ClassNames :
              SaveWording(s, r, c) \/ Toggle(s, r, c)
  PROVE  Due' \subseteq Due
<1>1. CASE UNCHANGED <<roster, updates>>
  BY <1>1 DEF Due, Active, Carriers, Carries, Free
<1>2. ASSUME NEW c \in ClassNames, NEW w \in Wordings, CreateClass(c, w)
      PROVE  Due' \subseteq Due
  <2>1. \A d \in ClassNames : roster'[d].active => d # c /\ roster'[d] = roster[d]
    BY <1>2 DEF CreateClass, PromptTypeOK
  <2>2. updates' = updates
    BY <1>2 DEF CreateClass
  <2> QED BY <2>1, <2>2 DEF Due, Active, Carriers, Carries, Free
<1>3. ASSUME NEW s \in Screens, NEW r \in Requests, NEW c \in ClassNames,
             SaveWording(s, r, c) \/ Toggle(s, r, c)
      PROVE  Due' \subseteq Due
  <2>1. PICK wording, active : Send(s, r, c, wording, active)
    BY <1>3 DEF SaveWording, Toggle
  <2>2. roster' = roster /\ updates'[r].at = "read"
        /\ \A q \in Requests \ {r} : updates'[q] = updates[q]
    BY <2>1 DEF Send, PromptTypeOK
  <2>3. \A q \in Requests : Carries(q)' => q # r /\ Carries(q) /\ updates'[q].class = updates[q].class
    BY <2>2 DEF Carries, Free
  <2> QED BY <2>2, <2>3 DEF Due, Active, Carriers
<1> QED BY <1>1, <1>2, <1>3

LEMMA CountCeiling ==
  ASSUME PromptTypeOK, Ceiling, NEW r \in Requests, CountActive(r)
  PROVE  Ceiling'
<1>1. CASE ~RoomLeft /\ Finished(r)
  <2>1. roster' = roster
    BY DEF CountActive
  <2> QED BY <1>1, <2>1, EndsDue, CeilingStays
<1>2. CASE RoomLeft /\ updates' = [updates EXCEPT ![r] = [@ EXCEPT !.at = "write"]]
  <2>1. updates[r].at = "count" /\ roster' = roster /\ updates[r] \in Updates
        /\ updates \in [Requests -> Updates \cup {NoUpdate}]
    BY DEF CountActive, Free, PromptTypeOK
  <2>2. updates'[r].class = updates[r].class /\ \A q \in Requests \ {r} : updates'[q] = updates[q]
    BY <1>2, <2>1 DEF Updates
  <2>3. ~Carries(r)
    BY <2>1 DEF Carries
  <2>4. \A q \in Requests : q # r /\ Carries(q)' => Carries(q) /\ updates'[q].class = updates[q].class
    BY <2>2 DEF Carries, Free
  <2>5. Due' \subseteq Due \cup {updates[r].class}
    BY <2>1, <2>2, <2>4 DEF Due, Active, Carriers
  <2>6. Cardinality(Due \cup {updates[r].class}) <= MaxActive + Cardinality(Requests) - 1
    BY <1>2, <2>3, RoomForOneMore
  <2>7. IsFiniteSet(Due \cup {updates[r].class})
    BY DueIsFinite, FS_AddElement
  <2>8. Cardinality(Due') <= Cardinality(Due \cup {updates[r].class}) /\ Cardinality(Due') \in Nat
    BY <2>5, <2>7, FS_Subset, FS_CardinalityType
  <2>9. Cardinality(Due \cup {updates[r].class}) \in Nat /\ Cardinality(Requests) \in Nat
    BY <2>7, PromptAssumption, FS_CardinalityType
  <2> QED BY <2>6, <2>8, <2>9, PromptAssumption DEF Ceiling
<1> QED BY <1>1, <1>2 DEF CountActive

\* The active classes exceed their ceiling by fewer than the updates that are in
\* flight at once, and one at a time never: updateClass counts in one statement
\* and writes in another, and may write active what it read active.
THEOREM ActiveStaysWithin == PromptSpec => []ActiveWithin
<1>1. PromptInit => Ceiling
  <2> SUFFICES ASSUME PromptInit PROVE Ceiling
    OBVIOUS
  <2>1. Due = {}
    BY DEF PromptInit, Due, Active, Carriers, Carries, Free, NoRow
  <2>2. Cardinality(Requests) \in Nat /\ Cardinality(Requests) # 0
    BY PromptAssumption, FS_CardinalityType, FS_EmptySet
  <2>3. Cardinality(Due) = 0
    BY <2>1, FS_EmptySet
  <2> QED BY <2>2, <2>3, PromptAssumption DEF Ceiling
<1>2. PromptTypeOK /\ Ceiling /\ [PromptNext]_roster_vars => Ceiling'
  <2> SUFFICES ASSUME PromptTypeOK, Ceiling, [PromptNext]_roster_vars PROVE Ceiling'
    OBVIOUS
  <2>1. CASE UNCHANGED <<roster, updates>>
    BY <2>1, QuietDue, CeilingStays
  <2>2. CASE \/ \E c \in ClassNames, w \in Wordings : CreateClass(c, w)
             \/ \E s \in Screens, r \in Requests, c \in ClassNames :
                  SaveWording(s, r, c) \/ Toggle(s, r, c)
    BY <2>2, QuietDue, CeilingStays
  <2>3. ASSUME NEW r \in Requests, ReadRow(r) \/ WriteRow(r) \/ UpdateDies(r)
        PROVE  Ceiling'
    BY <2>3, ReadDue, WriteDue, EndsDue, CeilingStays DEF UpdateDies
  <2>4. ASSUME NEW r \in Requests, CountActive(r) PROVE Ceiling'
    BY <2>4, CountCeiling
  <2>5. NextDay \/ FetchPrompts \/ ReportBoxes \/ DetectionFails \/ UNCHANGED roster_vars
          => UNCHANGED <<roster, updates>>
    BY DEF NextDay, FetchPrompts, ReportBoxes, DetectionFails, roster_vars
  <2> QED BY <2>1, <2>2, <2>3, <2>4, <2>5 DEF PromptNext
<1>3. PromptTypeOK /\ Ceiling => ActiveWithin
  <2> SUFFICES ASSUME PromptTypeOK, Ceiling PROVE ActiveWithin
    OBVIOUS
  <2>1. Cardinality(Requests) \in Nat
    BY PromptAssumption, FS_CardinalityType
  <2> QED BY <2>1, DueIsFinite, PromptAssumption DEF Ceiling, ActiveWithin
<1> QED BY <1>1, <1>2, <1>3, PromptTypeCorrect, PTL DEF PromptSpec

-----------------------------------------------------------------------------
(* DRY-RUNS.                                                               *)

\* What the types leave out: each list has its place and its request, and a
\* run that is stored and not yet answered for is in the table.
PanelOK ==
  /\ DOMAIN lists = Views /\ DOMAIN pulls = Views
  /\ \A v \in Views : pulls[v].at = "none" => pulls[v] = NotPulling
  /\ \A v \in Views : ~lists[v].known => DOMAIN lists[v].shown = {}
  /\ order.at = "stored" => order.id \in DOMAIN tries
  /\ Len(tries) <= MaxTries

\* What a request has read shows every run the panel was told of that belongs
\* to its list, but those held against it.
ReadsShowAsked ==
  \A v \in Views : pulls[v].at = "read" =>
    \A r \in asked \cap Listed(v) : r \in DOMAIN pulls[v].shown \/ <<r, v>> \in unheard

\* The inductive invariant.
DryInv == DryTypeOK /\ PanelOK /\ ReadsShowAsked /\ NewestIsWatched

-----------------------------------------------------------------------------
(* Lists.                                                                  *)

DryRunShapes == [about : Views, status : Statuses]
Orders == [at : {"none", "sent", "stored"}, about : Views, id : 0 .. MaxTries]

\* DryRunShapes are numbered from 1 as they are stored.
LEMMA RunsNumbered ==
  ASSUME DryInv
  PROVE  /\ DOMAIN tries = 1 .. Len(tries) /\ Len(tries) \in Nat
         /\ DOMAIN tries \subseteq 1 .. MaxTries
         /\ tries \in Seq(DryRunShapes)
         /\ \A r \in DOMAIN tries : tries[r] \in DryRunShapes /\ tries[r].status \in Statuses
<1>1. tries \in Seq(DryRunShapes)
  BY DEF DryInv, DryTypeOK, DryRunShapes
<1>2. DOMAIN tries = 1 .. Len(tries) /\ Len(tries) \in Nat
  BY <1>1
<1>3. \A r \in DOMAIN tries : tries[r] \in DryRunShapes
  BY <1>1
<1>4. DOMAIN tries \subseteq 1 .. MaxTries
  BY <1>2, DryRunAssumption DEF DryInv, PanelOK
<1> QED BY <1>1, <1>2, <1>3, <1>4 DEF DryRunShapes

\* A list whose newest run is under way is polled.
LEMMA OneNewest ==
  ASSUME NEW S \in SUBSET Int, NEW r \in S, \A s \in S : s <= r
  PROVE  \A n \in S : (\A s \in S : s <= n) => n = r
<1> SUFFICES ASSUME NEW n \in S, \A s \in S : s <= n PROVE n = r
  OBVIOUS
<1>1. r <= n /\ n <= r /\ n \in Int /\ r \in Int
  OBVIOUS
<1> QED BY <1>1

LEMMA NewestPolled ==
  ASSUME NEW v, lists[v].known, NEW r \in DOMAIN lists[v].shown,
         DOMAIN lists[v].shown \subseteq Int,
         \A s \in DOMAIN lists[v].shown : s <= r, lists[v].shown[r] = "under way"
  PROVE  Polled(v)
<1>1. \A n \in DOMAIN lists[v].shown :
        (\A s \in DOMAIN lists[v].shown : s <= n) => n = r
  BY OneNewest
<1>2. NewestShown(lists[v]) = r
  BY <1>1 DEF NewestShown
<1> QED BY <1>2 DEF Polled

\* A run that a list shows, and nothing newer, is settled there or watched.
LEMMA ShownIsWatched ==
  ASSUME NEW v \in Views, lists[v].known, Shows(lists[v].shown),
         NEW r \in DOMAIN lists[v].shown, \A s \in DOMAIN lists[v].shown : s <= r
  PROVE  lists[v].shown[r] = "settled" \/ Polled(v)
<1>1. DOMAIN lists[v].shown \subseteq Int
  BY DryRunAssumption DEF Shows
<1> QED BY <1>1, NewestPolled DEF Shows, Statuses

-----------------------------------------------------------------------------
(* Steps.                                                                  *)

\* Steps that move the table alone.
LEMMA TableMoves ==
  ASSUME DryInv, tries' \in Seq(DryRunShapes), Len(tries) <= Len(tries'), Len(tries') <= MaxTries,
         \A r \in DOMAIN tries : tries'[r].about = tries[r].about,
         view' = view, lists' = lists, pulls' = pulls, asked' = asked, unheard' = unheard,
         order' \in Orders, order'.at = "stored" => order'.id \in DOMAIN tries'
  PROVE  DryInv'
<1>1. DOMAIN tries \subseteq DOMAIN tries'
  BY RunsNumbered
<1>2. \A v \in Views : \A r \in asked : r \in Listed(v)' <=> r \in Listed(v)
  BY <1>1 DEF Listed, DryInv, DryTypeOK
<1>3. ReadsShowAsked'
  BY <1>2 DEF DryInv, ReadsShowAsked
<1>4. NewestIsWatched'
  BY <1>2 DEF DryInv, DryTypeOK, NewestIsWatched, Polled
<1>5. DryTypeOK' /\ PanelOK'
  BY <1>1 DEF DryInv, DryTypeOK, PanelOK, DryRunShapes, Orders
<1> QED BY <1>3, <1>4, <1>5 DEF DryInv

\* A run is stored behind those that are there.
LEMMA StoringKeeps ==
  ASSUME DryInv, NEW about \in Views, Len(tries) < MaxTries, tries' = Stored(about)
  PROVE  /\ tries' \in Seq(DryRunShapes)
         /\ Len(tries) <= Len(tries') /\ Len(tries') \in 1 .. MaxTries
         /\ DOMAIN tries' = 1 .. Len(tries') /\ DOMAIN tries \subseteq DOMAIN tries'
         /\ \A r \in DOMAIN tries : tries'[r].about = tries[r].about
<1> DEFINE run == [about |-> about, status |-> "under way"]
<1>1. tries \in Seq(DryRunShapes) /\ run \in DryRunShapes
  BY DEF DryInv, DryTypeOK, Statuses, DryRunShapes
<1>2. tries' = Append(tries, run)
  BY DEF Stored
<1> HIDE DEF run
<1> QED BY <1>1, <1>2, DryRunAssumption

LEMMA SaveKeeps ==
  ASSUME DryInv, \/ StoreRun
                 \/ \E about \in Views : StoreRunElsewhere(about)
  PROVE  DryInv'
<1>0. order \in Orders /\ order.about \in Views
  BY DEF DryInv, DryTypeOK, Orders
<1>1. CASE StoreRun
  <2>1. /\ tries' \in Seq(DryRunShapes)
        /\ Len(tries) <= Len(tries') /\ Len(tries') \in 1 .. MaxTries
        /\ DOMAIN tries' = 1 .. Len(tries')
        /\ \A r \in DOMAIN tries : tries'[r].about = tries[r].about
    BY <1>0, <1>1, StoringKeeps DEF StoreRun
  <2>2. order' = [order EXCEPT !.at = "stored", !.id = Len(tries')]
    BY <1>1 DEF StoreRun
  <2>3. Len(tries') \in 0 .. MaxTries /\ Len(tries') \in DOMAIN tries'
    BY <2>1, DryRunAssumption
  <2>4. order' \in Orders /\ order'.id = Len(tries')
    BY <1>0, <2>2, <2>3 DEF Orders
  <2> QED BY <1>1, <2>1, <2>3, <2>4, TableMoves, DryRunAssumption DEF StoreRun
<1>2. ASSUME NEW about \in Views, StoreRunElsewhere(about) PROVE DryInv'
  <2>1. /\ tries' \in Seq(DryRunShapes)
        /\ Len(tries) <= Len(tries') /\ Len(tries') \in 1 .. MaxTries
        /\ DOMAIN tries \subseteq DOMAIN tries'
        /\ \A r \in DOMAIN tries : tries'[r].about = tries[r].about
    BY <1>2, StoringKeeps DEF StoreRunElsewhere
  <2>2. order' = order /\ (order.at = "stored" => order.id \in DOMAIN tries')
    BY <1>2, <2>1 DEF StoreRunElsewhere, panel, DryInv, PanelOK
  <2> QED BY <1>0, <1>2, <2>1, <2>2, TableMoves, DryRunAssumption DEF StoreRunElsewhere, panel
<1> QED BY <1>1, <1>2

LEMMA SettleKeeps ==
  ASSUME DryInv, NEW r \in DOMAIN tries, SettleRun(r)
  PROVE  DryInv'
<1> DEFINE run == [tries[r] EXCEPT !.status = "settled"]
<1>1. tries \in Seq(DryRunShapes) /\ tries[r] \in DryRunShapes
  BY RunsNumbered
<1>2. run \in DryRunShapes /\ run.about = tries[r].about
  BY <1>1 DEF DryRunShapes, Statuses
<1>3. tries' = [tries EXCEPT ![r] = run]
  BY Zenon DEF SettleRun
<1> HIDE DEF run
<1>4. /\ tries' \in Seq(DryRunShapes) /\ Len(tries') = Len(tries) /\ DOMAIN tries' = DOMAIN tries
      /\ \A s \in DOMAIN tries : tries'[s].about = tries[s].about
  BY <1>1, <1>2, <1>3
<1>5. order \in Orders /\ (order.at = "stored" => order.id \in DOMAIN tries) /\ order' = order
  BY DEF DryInv, DryTypeOK, PanelOK, Orders, SettleRun, panel
<1>6. Len(tries) <= Len(tries') /\ Len(tries') <= MaxTries
  BY <1>4, RunsNumbered DEF DryInv, PanelOK
<1> QED BY <1>4, <1>5, <1>6, TableMoves DEF SettleRun, panel

\* A request that has been read shows every run of its list there is.
LEMMA ServeKeeps ==
  ASSUME DryInv, NEW v \in Views, ServePull(v)
  PROVE  DryInv'
<1>1. /\ pulls' = [pulls EXCEPT ![v] = [at |-> "read", shown |-> ReadList(v)]]
      /\ UNCHANGED <<tries, view, lists, order, asked, unheard>> /\ pulls[v].at = "sent"
  BY DEF ServePull
<1>2. DOMAIN ReadList(v) = Listed(v) /\ Shows(ReadList(v))
  <2>1. \A r \in Listed(v) : r \in 1 .. MaxTries /\ tries[r].status \in Statuses
    BY RunsNumbered DEF Listed
  <2> QED BY <2>1 DEF ReadList, Shows
<1>3. /\ DOMAIN pulls' = Views /\ pulls'[v].at = "read" /\ pulls'[v].shown = ReadList(v)
      /\ \A u \in Views \ {v} : pulls'[u] = pulls[u]
  BY <1>1 DEF DryInv, PanelOK
<1>4. DryTypeOK' /\ PanelOK'
  BY <1>1, <1>2, <1>3 DEF DryInv, DryTypeOK, PanelOK
<1>5. ReadsShowAsked'
  BY <1>1, <1>2, <1>3 DEF DryInv, ReadsShowAsked, Listed
<1>6. pulls[v] # NotPulling /\ pulls'[v] # NotPulling
  BY <1>1, <1>3 DEF NotPulling
<1>7. NewestIsWatched'
  BY <1>1, <1>3, <1>6 DEF DryInv, NewestIsWatched, Listed, Polled, DryTypeOK
<1> QED BY <1>4, <1>5, <1>7 DEF DryInv

\* The answer shows how the newest run of the list stands, or holds it
\* against the list.
LEMMA ArrivalKeeps ==
  ASSUME DryInv, NEW v \in Views, PullArrives(v)
  PROVE  DryInv'
<1> DEFINE entry == [known |-> TRUE, shown |-> pulls[v].shown]
<1>1. /\ lists' = [lists EXCEPT ![v] = entry] /\ pulls' = [pulls EXCEPT ![v] = NotPulling]
      /\ unheard' = {u \in unheard : u[2] = v => u[1] \notin DOMAIN pulls[v].shown}
      /\ UNCHANGED <<tries, view, order, asked>> /\ pulls[v].at = "read"
  BY DEF PullArrives
<1>2. /\ DOMAIN pulls' = Views /\ DOMAIN lists' = Views /\ pulls'[v] = NotPulling
      /\ lists'[v] = entry /\ lists'[v].known /\ lists'[v].shown = pulls[v].shown
      /\ \A u \in Views \ {v} : pulls'[u] = pulls[u] /\ lists'[u] = lists[u]
  BY <1>1 DEF DryInv, PanelOK
<1> HIDE DEF entry
<1>3. Shows(pulls[v].shown) /\ Shows(NotPulling.shown) /\ NotPulling.at = "none"
  BY DEF DryInv, DryTypeOK, NotPulling, Shows
<1>4. DryTypeOK' /\ PanelOK'
  BY <1>1, <1>2, <1>3 DEF DryInv, DryTypeOK, PanelOK
<1>5. ReadsShowAsked'
  <2> SUFFICES ASSUME NEW u \in Views, pulls'[u].at = "read", NEW r \in asked' \cap Listed(u)'
               PROVE  r \in DOMAIN pulls'[u].shown \/ <<r, u>> \in unheard'
    BY DEF ReadsShowAsked
  <2>1. u # v
    BY <1>2, <1>3
  <2>2. r \in DOMAIN pulls[u].shown \/ <<r, u>> \in unheard
    BY <1>1, <1>2, <2>1 DEF DryInv, ReadsShowAsked, Listed
  <2> QED BY <1>1, <1>2, <2>1, <2>2
<1>6. NewestIsWatched'
  <2> SUFFICES ASSUME NEW r \in asked, r \in Listed(view), <<r, view>> \notin unheard',
                      \A s \in DOMAIN lists'[view].shown : s <= r
               PROVE  \/ r \in DOMAIN lists'[view].shown /\ lists'[view].shown[r] = "settled"
                      \/ Polled(view)'
                      \/ pulls'[view] # NotPulling
    BY <1>1 DEF NewestIsWatched, Listed
  <2>0. view \in Views
    BY DEF DryInv, DryTypeOK
  <2>1. CASE view = v
    <3>1. r \in DOMAIN pulls[v].shown
      BY <1>1, <2>1 DEF DryInv, ReadsShowAsked
    <3>2. lists'[v].shown[r] = "settled" \/ Polled(v)'
      <4>1. lists'[v].known /\ Shows(lists'[v].shown) /\ r \in DOMAIN lists'[v].shown
        BY <1>2, <1>3, <3>1
      <4>2. DOMAIN lists'[v].shown \subseteq Int /\ lists'[v].shown[r] \in Statuses
        BY <4>1, DryRunAssumption DEF Shows
      <4>3. \A n \in DOMAIN lists'[v].shown :
              (\A s \in DOMAIN lists'[v].shown : s <= n) => n = r
        BY <2>1, <4>1, <4>2, OneNewest
      <4>4. NewestShown(lists'[v]) = r
        BY <2>1, <4>1, <4>3 DEF NewestShown
      <4> QED BY <4>1, <4>2, <4>4 DEF Polled, Statuses
    <3> QED BY <1>1, <1>2, <2>1, <3>1, <3>2
  <2>2. CASE view # v
    <3>1. <<r, view>> \notin unheard
      BY <1>1, <2>2
    <3> QED BY <1>1, <1>2, <2>0, <2>2, <3>1 DEF DryInv, NewestIsWatched, Polled
  <2> QED BY <2>1, <2>2
<1> QED BY <1>4, <1>5, <1>6 DEF DryInv

\* A reading that failed is held against the runs that the list lacks.
LEMMA FailureKeeps ==
  ASSUME DryInv, NEW v \in Views, PullFails(v)
  PROVE  DryInv'
<1> DEFINE missed == {<<r, v>> : r \in {r \in asked \cap Listed(v) : r \notin DOMAIN lists[v].shown}}
<1>1. /\ pulls' = [pulls EXCEPT ![v] = NotPulling] /\ unheard' = unheard \cup missed
      /\ UNCHANGED <<tries, view, lists, order, asked>>
  BY DEF PullFails
<1>2. /\ DOMAIN pulls' = Views /\ pulls'[v] = NotPulling
      /\ \A u \in Views \ {v} : pulls'[u] = pulls[u]
  BY <1>1 DEF DryInv, PanelOK
<1>3. Shows(NotPulling.shown) /\ NotPulling.at = "none"
  BY DEF NotPulling, Shows
<1>4. missed \subseteq asked \X Views
  OBVIOUS
<1>5. \A r \in asked \cap Listed(v) : r \notin DOMAIN lists[v].shown => <<r, v>> \in missed
  OBVIOUS
<1> HIDE DEF missed
<1>6. DryTypeOK' /\ PanelOK'
  BY <1>1, <1>2, <1>3, <1>4 DEF DryInv, DryTypeOK, PanelOK
<1>7. ReadsShowAsked'
  BY <1>1, <1>2, <1>3 DEF DryInv, ReadsShowAsked, Listed
<1>8. NewestIsWatched'
  <2> SUFFICES ASSUME NEW r \in asked, r \in Listed(view), <<r, view>> \notin unheard',
                      \A s \in DOMAIN lists[view].shown : s <= r
               PROVE  \/ r \in DOMAIN lists[view].shown /\ lists[view].shown[r] = "settled"
                      \/ Polled(view)
                      \/ pulls'[view] # NotPulling
    BY <1>1 DEF NewestIsWatched, Listed, Polled
  <2>0. view \in Views /\ Shows(lists[view].shown)
    BY DEF DryInv, DryTypeOK
  <2>1. CASE view = v
    <3>1. r \in DOMAIN lists[v].shown
      BY <1>1, <1>5, <2>1
    <3>2. lists[v].known
      BY <2>1, <3>1 DEF DryInv, PanelOK
    <3> QED BY <2>0, <2>1, <3>1, <3>2, ShownIsWatched
  <2>2. CASE view # v
    BY <1>1, <1>2, <2>0, <2>2 DEF DryInv, NewestIsWatched
  <2> QED BY <2>1, <2>2
<1> QED BY <1>6, <1>7, <1>8 DEF DryInv

\* What the panel asks for leaves the lists and the history alone.
LEMMA PanelKeeps ==
  ASSUME DryInv, \/ \E v \in Views : Look(v)
                 \/ Repull \/ OrderRun \/ OrderFails
  PROVE  DryInv'
<1>0. /\ Shows(Pulling.shown) /\ Pulling.at = "sent" /\ Pulling # NotPulling
      /\ NotPulling.at = "none" /\ NoOrder.at = "none" /\ NoOrder \in Orders
  BY DryRunAssumption DEF Pulling, NotPulling, Shows, NoOrder, Orders, Views
<1>1. ASSUME NEW u \in Views, UNCHANGED <<tries, lists, order, asked, unheard>>,
             view' = u, DOMAIN pulls' = Views,
             \A x \in Views : pulls'[x] = pulls[x] \/ pulls'[x] = Pulling,
             u # view => pulls'[u] # NotPulling
      PROVE  DryInv'
  <2>2. DryTypeOK' /\ PanelOK'
    BY <1>0, <1>1 DEF DryInv, DryTypeOK, PanelOK
  <2>3. ReadsShowAsked'
    BY <1>0, <1>1 DEF DryInv, ReadsShowAsked, Listed
  <2>4. NewestIsWatched'
    <3>1. CASE u = view
      <4>1. pulls[view] # NotPulling => pulls'[view] # NotPulling
        BY <1>0, <1>1, <3>1
      <4> QED BY <1>1, <3>1, <4>1 DEF DryInv, NewestIsWatched, Listed, Polled
    <3>2. CASE u # view
      BY <1>1, <3>2 DEF NewestIsWatched
    <3> QED BY <3>1, <3>2
  <2> QED BY <2>2, <2>3, <2>4 DEF DryInv
<1>2. ASSUME NEW v \in Views, Look(v) PROVE DryInv'
  <2>1. /\ DOMAIN pulls' = Views /\ pulls'[v] # NotPulling
        /\ \A x \in Views : pulls'[x] = pulls[x] \/ pulls'[x] = Pulling
    BY <1>0, <1>2 DEF Look, DryInv, PanelOK
  <2> QED BY <1>1, <1>2, <2>1 DEF Look
<1>3. CASE Repull
  <2>1. /\ DOMAIN pulls' = Views /\ view \in Views
        /\ \A x \in Views : pulls'[x] = pulls[x] \/ pulls'[x] = Pulling
    BY <1>3 DEF Repull, DryInv, DryTypeOK, PanelOK
  <2> QED BY <1>1, <1>3, <2>1 DEF Repull
<1>4. CASE OrderRun \/ OrderFails
  <2>1. order' \in Orders /\ order'.at # "stored"
    <3>1. view \in Views /\ 0 \in 0 .. MaxTries
      BY DryRunAssumption DEF DryInv, DryTypeOK
    <3> QED BY <1>0, <1>4, <3>1 DEF OrderRun, OrderFails, Orders
  <2>2. Len(tries) <= MaxTries /\ Len(tries) \in Nat /\ tries \in Seq(DryRunShapes)
    BY RunsNumbered DEF DryInv, PanelOK
  <2> QED BY <1>4, <2>1, <2>2, TableMoves DEF OrderRun, OrderFails
<1> QED BY <1>2, <1>3, <1>4

\* The panel is told of a run: a list whose request may have missed it has it
\* held against it, and every other that is on screen is read again.
LEMMA AnswerKeeps ==
  ASSUME DryInv, OrderAnswered
  PROVE  DryInv'
<1> DEFINE run == order.id
           restarted == {v \in Views : v = view /\ (pulls[v] = NotPulling \/ Restarted(v))}
           missed == {<<run, v>> : v \in {v \in Views \ restarted : pulls[v] # NotPulling
                                                      /\ (lists[v].known => v # view)}}
<1>1. /\ pulls' = [v \in Views |-> IF v \in restarted THEN Pulling ELSE pulls[v]]
      /\ unheard' = unheard \cup missed /\ asked' = asked \cup {run}
      /\ order' = NoOrder /\ UNCHANGED <<tries, view, lists>>
      /\ run \in DOMAIN tries
  BY DEF OrderAnswered, DryInv, PanelOK
<1>2. /\ Shows(Pulling.shown) /\ Pulling.at = "sent" /\ Pulling # NotPulling
      /\ NoOrder.at = "none" /\ NoOrder \in Orders
  BY DryRunAssumption DEF Pulling, NotPulling, Shows, NoOrder, Orders, Views
<1>3. view \in Views /\ missed \subseteq {run} \X Views
  BY DEF DryInv, DryTypeOK
<1>4. \A v \in Views : v \notin restarted /\ pulls[v] # NotPulling => <<run, v>> \in missed
  BY DEF Restarted
<1>5. pulls'[view] # NotPulling
  BY <1>1, <1>2, <1>3
<1> HIDE DEF missed, run, restarted
<1>6. DryTypeOK'
  BY <1>1, <1>2, <1>3 DEF DryInv, DryTypeOK, Orders
<1>7. PanelOK'
  BY <1>1, <1>2 DEF DryInv, PanelOK
<1>8. ReadsShowAsked'
  <2> SUFFICES ASSUME NEW v \in Views, pulls'[v].at = "read", NEW r \in asked', r \in Listed(v)
               PROVE  r \in DOMAIN pulls'[v].shown \/ <<r, v>> \in unheard'
    BY <1>1 DEF ReadsShowAsked, Listed
  <2>1. v \notin restarted /\ pulls'[v] = pulls[v] /\ pulls[v] # NotPulling
    BY <1>1, <1>2 DEF NotPulling
  <2>2. CASE r = run
    BY <1>1, <1>4, <2>1, <2>2
  <2>3. CASE r \in asked
    BY <1>1, <2>1, <2>3 DEF DryInv, ReadsShowAsked
  <2> QED BY <1>1, <2>2, <2>3
<1>9. NewestIsWatched'
  BY <1>1, <1>5 DEF NewestIsWatched
<1> QED BY <1>6, <1>7, <1>8, <1>9 DEF DryInv

\* The panel as it is opened.
LEMMA DryInitOK == DryInit => DryInv
<1> SUFFICES ASSUME DryInit PROVE DryInv
  OBVIOUS
<1>1. /\ NoOrder \in Orders /\ NoOrder.at = "none" /\ Whole \in Views
      /\ tries \in Seq(DryRunShapes) /\ Len(tries) = 0
      /\ Pulling.at = "sent" /\ NotPulling.at = "none"
      /\ DOMAIN NoList.shown = {} /\ ~NoList.known /\ NoList.known \in BOOLEAN
      /\ DOMAIN Pulling.shown = {} /\ DOMAIN NotPulling.shown = {}
  BY DryRunAssumption DEF DryInit, NoOrder, Orders, Views, Pulling, NotPulling, NoList
<1>2. DryTypeOK
  BY <1>1 DEF DryInit, DryTypeOK, Shows, Orders, DryRunShapes
<1>3. PanelOK
  BY <1>1, DryRunAssumption DEF DryInit, PanelOK
<1> QED BY <1>2, <1>3 DEF DryInit, DryInv, ReadsShowAsked, NewestIsWatched

\* The invariant of the dry-run panel holds of every reachable state.
THEOREM DryInvariant == DrySpec => []DryInv
<1>1. DryInv /\ [DryNext]_dry_vars => DryInv'
  <2> SUFFICES ASSUME DryInv, [DryNext]_dry_vars PROVE DryInv'
    OBVIOUS
  <2>1. CASE UNCHANGED dry_vars
    BY <2>1 DEF dry_vars, panel, DryInv, DryTypeOK, PanelOK, ReadsShowAsked,
       NewestIsWatched, Listed, Polled
  <2>2. CASE DryNext
    BY <2>2, SaveKeeps, SettleKeeps, ServeKeeps, ArrivalKeeps, FailureKeeps,
       PanelKeeps, AnswerKeeps DEF DryNext
  <2> QED BY <2>1, <2>2
<1> QED BY <1>1, DryInitOK, PTL DEF DrySpec

\* DryRunShapes, lists, requests and orders keep their types.
THEOREM DryTypeCorrect == DrySpec => []DryTypeOK
<1>1. DryInv => DryTypeOK
  BY DEF DryInv
<1> QED BY <1>1, DryInvariant, PTL

\* A run the panel was told is queued does not stay unsettled on screen in
\* silence, whichever lists are looked at while requests are cancelled, late
\* or lost.
THEOREM NewestWatched == DrySpec => []NewestIsWatched
<1>1. DryInv => NewestIsWatched
  BY DEF DryInv
<1> QED BY <1>1, DryInvariant, PTL

-----------------------------------------------------------------------------
(* THE LIST OF VERDICTS.                                                   *)

ListTotals == [f \in Filters |-> Cardinality(Matching(f))]

\* A page begins inside the list, or at its head.
Inside(k, total) == k[2] = 0 \/ k[2] < total[k[1]]

\* An answer counts no more than there is now, and numbers its rows rightly.
Tells(page, k, total) ==
  page # Unread => page.total <= total[k[1]] /\ Numbers(page, k[2])

Held(pages, total) ==
  /\ DOMAIN pages \subseteq PageKeys
  /\ \A k \in DOMAIN pages :
       PageOK(pages[k]) /\ Inside(k, total) /\ Tells(pages[k], k, total)

TableOK == \E n \in Nat : table \in [1 .. n -> Marks]

\* The inductive invariant: as the table only grows, whatever page was once
\* inside the list is inside for good.
VerdictListInv ==
  /\ TableOK /\ Key \in PageKeys /\ open \in BOOLEAN /\ Inside(Key, ListTotals)
  /\ Held(cache, ListTotals) /\ Held(asks, ListTotals)

-----------------------------------------------------------------------------
(* Pages.                                                                  *)

LEMMA MatchingIs ==
  ASSUME TableOK, NEW f
  PROVE  /\ Matching(f) \subseteq Nat /\ IsFiniteSet(Matching(f))
         /\ Cardinality(Matching(f)) \in Nat
<1>1. PICK n \in Nat : table \in [1 .. n -> Marks]
  BY DEF TableOK
<1>2. Matching(f) \in SUBSET (1 .. n)
  BY <1>1 DEF Matching
<1>3. IsFiniteSet(1 .. n)
  BY FS_Interval
<1>4. IsFiniteSet(Matching(f))
  BY <1>2, <1>3, FS_Subset
<1> QED  BY <1>2, <1>4, FS_CardinalityType

LEMMA ListTotalsAre == TableOK => ListTotals \in [Filters -> Nat]
BY MatchingIs DEF ListTotals

\* Of two rows one precedes the other, and has fewer rows ahead.
LEMMA PlacesDiffer ==
  ASSUME TableOK, NEW f, NEW q \in Matching(f), NEW r \in Matching(f), Precedes(q, r)
  PROVE  Place(f, q) < Place(f, r)
<1> DEFINE ahead(x) == {y \in Matching(f) : Precedes(y, x)}
<1>1. q \in Nat /\ r \in Nat /\ \A x \in Matching(f) : x \in Nat
  BY MatchingIs
<1>2. ahead(q) \in SUBSET ahead(r) /\ q \in ahead(r) /\ q \notin ahead(q)
  <2>1. ~Precedes(q, q)
    BY <1>1 DEF Precedes
  <2>2. \A y \in Nat : Precedes(y, q) => Precedes(y, r)
    BY <1>1 DEF Precedes
  <2> QED  BY <1>1, <2>1, <2>2
<1>3. IsFiniteSet(ahead(r))
  <2>1. ahead(r) \in SUBSET Matching(f)
    OBVIOUS
  <2> HIDE DEF ahead
  <2> QED  BY <2>1, MatchingIs, FS_Subset
<1>4. IsFiniteSet(ahead(q)) /\ Cardinality(ahead(q)) <= Cardinality(ahead(r))
      /\ (Cardinality(ahead(r)) = Cardinality(ahead(q)) => ahead(r) = ahead(q))
  <2> HIDE DEF ahead
  <2> QED  BY <1>2, <1>3, FS_Subset
<1>5. Cardinality(ahead(q)) \in Nat /\ Cardinality(ahead(r)) \in Nat
  <2> HIDE DEF ahead
  <2> QED  BY <1>3, <1>4, FS_CardinalityType
<1>6. Cardinality(ahead(q)) < Cardinality(ahead(r))
  <2> HIDE DEF ahead
  <2> QED  BY <1>2, <1>4, <1>5
<1> QED  BY <1>6 DEF Place

LEMMA PlaceIs ==
  ASSUME TableOK, NEW f, NEW r \in Matching(f)
  PROVE  Place(f, r) \in 0 .. Cardinality(Matching(f)) - 1
<1> DEFINE ahead == {y \in Matching(f) : Precedes(y, r)}
<1>1. r \in Nat
  BY MatchingIs
<1>2. ahead \in SUBSET Matching(f) /\ r \notin ahead
  BY <1>1 DEF Precedes
<1> HIDE DEF ahead
<1>3. /\ IsFiniteSet(ahead) /\ Cardinality(ahead) <= Cardinality(Matching(f))
      /\ (Cardinality(Matching(f)) = Cardinality(ahead) => Matching(f) = ahead)
  BY <1>2, MatchingIs, FS_Subset
<1>4. Cardinality(ahead) \in Nat /\ Cardinality(Matching(f)) \in Nat
  BY <1>3, MatchingIs, FS_CardinalityType
<1>5. Cardinality(ahead) < Cardinality(Matching(f))
  BY <1>2, <1>3, <1>4
<1>6. Place(f, r) = Cardinality(ahead)
  BY DEF Place, ahead
<1> QED  BY <1>4, <1>5, <1>6

\* Each place has one row: as many rows, and no two at one place.
LEMMA PlacesAreFilled ==
  ASSUME TableOK, NEW f
  PROVE  [r \in Matching(f) |-> Place(f, r)]
           \in Bijection(Matching(f), 0 .. Cardinality(Matching(f)) - 1)
<1> DEFINE n == Cardinality(Matching(f))
           place == [r \in Matching(f) |-> Place(f, r)]
<1>1. n \in Nat /\ IsFiniteSet(Matching(f)) /\ Matching(f) \subseteq Nat
  BY MatchingIs
<1>2. place \in [Matching(f) -> 0 .. n - 1]
  BY PlaceIs
<1>3. ASSUME NEW q \in Matching(f), NEW r \in Matching(f), place[q] = place[r] PROVE q = r
  <2>1. q \in Nat /\ r \in Nat
    BY <1>1
  <2>2. q = r \/ Precedes(q, r) \/ Precedes(r, q)
    BY <2>1 DEF Precedes
  <2>3. Place(f, q) \in 0 .. n - 1 /\ Place(f, r) \in 0 .. n - 1
    BY PlaceIs
  <2>4. ~ (Place(f, q) < Place(f, r)) /\ ~ (Place(f, r) < Place(f, q))
    BY <1>1, <1>3, <2>3
  <2> QED  BY <2>2, <2>4, PlacesDiffer
<1> HIDE DEF place
<1>4. place \in Injection(Matching(f), 0 .. n - 1)
  BY <1>2, <1>3, Fun_IsInj
<1>5. IsFiniteSet(0 .. n - 1) /\ Cardinality(0 .. n - 1) = n
  BY <1>1, FS_Interval
<1>6. place \in Surjection(Matching(f), 0 .. n - 1)
  BY <1>4, <1>5, FS_Injection
<1>7. place \in Bijection(Matching(f), 0 .. n - 1)
  BY <1>4, <1>6 DEF Bijection
<1> QED  BY <1>7 DEF place

\* So a page is full, but for the last.
LEMMA PageIsFull ==
  ASSUME TableOK, NEW f, NEW o \in Nat, o < Cardinality(Matching(f))
  PROVE  Cardinality(PageOf(f, o)) =
           IF o + PageLimit < Cardinality(Matching(f))
             THEN PageLimit ELSE Cardinality(Matching(f)) - o
<1> DEFINE n == Cardinality(Matching(f))
           end == IF o + PageLimit < n THEN o + PageLimit ELSE n
           place == [r \in Matching(f) |-> Place(f, r)]
           onpage == [r \in PageOf(f, o) |-> Place(f, r)]
<1>1. n \in Nat /\ PageLimit \in Nat \ {0} /\ end \in Nat /\ o < end /\ end <= n
  BY MatchingIs, ListAssumption
<1>2. place \in Bijection(Matching(f), 0 .. n - 1)
  BY PlacesAreFilled
<1>3. PageOf(f, o) \subseteq Matching(f)
  BY DEF PageOf
<1>4. \A r \in PageOf(f, o) : onpage[r] = place[r] /\ onpage[r] \in o .. end - 1
  <2> TAKE r \in PageOf(f, o)
  <2>1. Place(f, r) \in 0 .. n - 1
    BY <1>3, PlaceIs
  <2> QED  BY <1>1, <1>3, <2>1 DEF PageOf
<1>5. \A q, r \in PageOf(f, o) : onpage[q] = onpage[r] => q = r
  <2>1. \A q, r \in Matching(f) : place[q] = place[r] => q = r
    <3> HIDE DEF place
    <3> QED  BY <1>2, Fun_IsInj DEF Bijection, Injection, IsInjective
  <2> QED  BY <1>3, <1>4, <2>1
<1>6. ASSUME NEW p \in o .. end - 1 PROVE \E r \in PageOf(f, o) : onpage[r] = p
  <2>1. p \in 0 .. n - 1
    BY <1>1
  <2>2. PICK r \in Matching(f) : place[r] = p
    <3> HIDE DEF place
    <3> QED  BY <1>2, <2>1 DEF Bijection, Surjection
  <2>3. Place(f, r) = p /\ o <= p /\ p < o + PageLimit
    BY <1>1, <2>2
  <2>4. r \in PageOf(f, o)
    BY <2>3 DEF PageOf
  <2> QED  BY <2>3, <2>4
<1>7. onpage \in [PageOf(f, o) -> o .. end - 1]
  BY <1>4
<1>8. onpage \in Bijection(PageOf(f, o), o .. end - 1)
  <2> HIDE DEF onpage, end
  <2>1. onpage \in Injection(PageOf(f, o), o .. end - 1)
    BY <1>5, <1>7, Fun_IsInj
  <2>2. onpage \in Surjection(PageOf(f, o), o .. end - 1)
    BY <1>6, <1>7, Fun_IsSurj
  <2> QED  BY <2>1, <2>2 DEF Bijection
<1>9. ExistsBijection(PageOf(f, o), o .. end - 1)
  BY <1>8 DEF ExistsBijection
<1>10. IsFiniteSet(PageOf(f, o))
  BY <1>3, MatchingIs, FS_Subset
<1>11. Cardinality(o .. end - 1) = Cardinality(PageOf(f, o))
  BY <1>9, <1>10, FS_Bijection
<1>12. Cardinality(o .. end - 1) = end - o
  <2> HIDE DEF end
  <2> QED  BY <1>1, FS_Interval
<1> QED  BY <1>1, <1>11, <1>12

-----------------------------------------------------------------------------
(* Answers.                                                                *)

LEMMA AnswerIs ==
  ASSUME TableOK, NEW k \in PageKeys, Inside(k, ListTotals)
  PROVE  PageOK(PageAnswer(k[1], k[2])) /\ Tells(PageAnswer(k[1], k[2]), k, ListTotals)
<1> DEFINE page == PageAnswer(k[1], k[2])
           n == Cardinality(Matching(k[1]))
<1>1. k[1] \in Filters /\ k[2] \in Nat
  BY DEF PageKeys
<1>2. /\ page.total = n /\ DOMAIN page.rows = PageOf(k[1], k[2])
      /\ \A r \in PageOf(k[1], k[2]) : page.rows[r] = table[r]
  BY DEF PageAnswer
<1>3. n \in Nat /\ ListTotals[k[1]] = n
  BY <1>1, MatchingIs DEF ListTotals
<1>4. PageOK(page)
  <2>1. \A r \in PageOf(k[1], k[2]) : r \in Nat /\ table[r] \in Marks
    <3>1. \A r \in PageOf(k[1], k[2]) : r \in DOMAIN table
      BY DEF PageOf, Matching
    <3> QED  BY <3>1 DEF TableOK
  <2> HIDE DEF page
  <2> QED  BY <1>2, <1>3, <2>1 DEF PageOK
<1>5. Numbers(page, k[2])
  <2>1. page.total > 0 => k[2] < n
    BY <1>1, <1>2, <1>3 DEF Inside
  <2>2. page.total > 0 =>
          Cardinality(PageOf(k[1], k[2])) = IF k[2] + PageLimit < n THEN PageLimit ELSE n - k[2]
    BY <1>1, <2>1, PageIsFull
  <2> HIDE DEF page
  <2> QED  BY <1>2, <2>1, <2>2 DEF Numbers
<1>6. page.total <= ListTotals[k[1]]
  BY <1>2, <1>3
<1> QED  BY <1>4, <1>5, <1>6 DEF Tells

LEMMA UnreadIs == \A k, total : PageOK(Unread) /\ Tells(Unread, k, total)
BY DEF PageOK, Tells, Unread

LEMMA WithHeld ==
  ASSUME NEW pages, NEW total, Held(pages, total), NEW k \in PageKeys, Inside(k, total),
         NEW page, PageOK(page), Tells(page, k, total)
  PROVE  Held(With(pages, k, page), total)
BY DEF Held, With

LEMMA WithoutHeld ==
  ASSUME NEW pages, NEW total, Held(pages, total), NEW k
  PROVE  Held(Without(pages, k), total)
BY DEF Held, Without

LEMMA AskHeld ==
  ASSUME NEW k \in PageKeys, NEW total, Held(asks, total), Inside(k, total), AskFor(k)
  PROVE  Held(asks', total)
<1>1. asks' = asks \/ asks' = With(asks, k, Unread)
  BY DEF AskFor
<1> QED  BY <1>1, UnreadIs, WithHeld

\* A list that is longer still has each page that was inside it.
LEMMA LongerHeld ==
  ASSUME NEW pages, NEW total \in [Filters -> Nat], NEW longer \in [Filters -> Nat],
         \A f \in Filters : total[f] <= longer[f], Held(pages, total)
  PROVE  Held(pages, longer)
<1> SUFFICES ASSUME NEW k \in DOMAIN pages
             PROVE  k \in PageKeys /\ PageOK(pages[k]) /\ Inside(k, longer)
                      /\ Tells(pages[k], k, longer)
  BY DEF Held
<1>1. k \in PageKeys /\ PageOK(pages[k]) /\ Inside(k, total) /\ Tells(pages[k], k, total)
  BY DEF Held
<1>2. k[1] \in Filters /\ k[2] \in Nat
  BY <1>1 DEF PageKeys
<1>3. total[k[1]] \in Nat /\ longer[k[1]] \in Nat /\ total[k[1]] <= longer[k[1]]
  BY <1>2
<1>4. Inside(k, longer)
  BY <1>1, <1>2, <1>3 DEF Inside
<1>5. pages[k] # Unread => pages[k].total \in Nat
  BY <1>1 DEF PageOK
<1>6. Tells(pages[k], k, longer)
  BY <1>1, <1>3, <1>5 DEF Tells
<1> QED  BY <1>1, <1>4, <1>6

LEMMA ShownIs == VerdictListInv => PageShown = Unread \/ (PageShown = cache[Key] /\ Key \in DOMAIN cache)
BY DEF PageShown

-----------------------------------------------------------------------------
(* Steps.                                                                  *)

LEMMA ListBegins == VerdictListInit => VerdictListInv
<1> SUFFICES ASSUME VerdictListInit PROVE VerdictListInv
  OBVIOUS
<1>1. TableOK
  BY DEF VerdictListInit, TableOK
<1>2. Key = <<DefaultFilter, 0>> /\ open = FALSE /\ cache = <<>> /\ asks = <<>>
  BY DEF VerdictListInit, ScreenClosed, Key
<1>3. Key \in PageKeys
  BY <1>2, ListAssumption DEF PageKeys
<1>4. Inside(Key, ListTotals)
  BY <1>2 DEF Inside
<1>5. \A total : Held(<<>>, total)
  BY DEF Held
<1> QED  BY <1>1, <1>2, <1>3, <1>4, <1>5 DEF VerdictListInv

LEMMA VerdictsKeep ==
  ASSUME VerdictListInv, Verdicts
  PROVE  VerdictListInv'
<1> DEFINE m == Cardinality(DOMAIN table)
<1>1. m \in Nat /\ table \in [1 .. m -> Marks]
  <2>1. PICK n \in Nat : table \in [1 .. n -> Marks]
    BY DEF VerdictListInv, TableOK
  <2>2. Cardinality(DOMAIN table) = n
    BY <2>1, FS_Interval
  <2> QED  BY <2>1, <2>2
<1>3. PICK n \in 1 .. MaxBatch :
        \E new \in [m + 1 .. m + n -> Marks] :
          table' = [r \in 1 .. m + n |-> IF r <= m THEN table[r] ELSE new[r]]
  BY DEF Verdicts
<1> HIDE DEF m
<1>4. n \in Nat
  BY <1>3, VerdictAssumption
<1>5. /\ table' \in [1 .. m + n -> Marks] /\ m + n \in Nat
      /\ \A r \in 1 .. m : r \in DOMAIN table' /\ table'[r] = table[r]
  <2>1. PICK new \in [m + 1 .. m + n -> Marks] :
          table' = [r \in 1 .. m + n |-> IF r <= m THEN table[r] ELSE new[r]]
    BY <1>3
  <2>2. \A r \in 1 .. m + n : r \in 1 .. m \/ r \in m + 1 .. m + n
    BY <1>1, <1>4
  <2> QED  BY <1>1, <1>4, <2>1, <2>2
<1>6. TableOK'
  BY <1>5 DEF TableOK
<1>7. \A f \in Filters : Matching(f) \in SUBSET Matching(f)'
  BY <1>1, <1>5 DEF Matching
<1>8. ListTotals \in [Filters -> Nat] /\ ListTotals' \in [Filters -> Nat]
  <2>1. ListTotals \in [Filters -> Nat]
    BY ListTotalsAre DEF VerdictListInv
  <2>2. \A f : Cardinality(Matching(f)') \in Nat /\ IsFiniteSet(Matching(f)')
    <3>1. ASSUME NEW f PROVE IsFiniteSet(Matching(f)')
      <4>1. Matching(f)' \in SUBSET (1 .. m + n)
        BY <1>5 DEF Matching
      <4>2. IsFiniteSet(1 .. m + n)
        BY <1>5, FS_Interval
      <4> QED  BY <4>1, <4>2, FS_Subset
    <3> QED  BY <3>1, FS_CardinalityType
  <2>3. ListTotals' = [f \in Filters |-> Cardinality(Matching(f)')]
    BY DEF ListTotals
  <2> QED  BY <2>1, <2>2, <2>3
<1>9. \A f \in Filters : ListTotals[f] <= ListTotals'[f]
  <2>1. ASSUME NEW f \in Filters PROVE Cardinality(Matching(f)) <= Cardinality(Matching(f)')
    <3>1. Matching(f)' \in SUBSET (1 .. m + n)
      BY <1>5 DEF Matching
    <3>2. IsFiniteSet(1 .. m + n)
      BY <1>5, FS_Interval
    <3>3. IsFiniteSet(Matching(f)')
      BY <3>1, <3>2, FS_Subset
    <3> QED  BY <1>7, <3>3, FS_Subset
  <2> QED  BY <2>1 DEF ListTotals
<1>10. UNCHANGED <<Key, open, cache, asks>>
  BY DEF Verdicts, screen, client, Key
<1>11. Held(cache, ListTotals') /\ Held(asks, ListTotals')
  BY <1>8, <1>9, LongerHeld DEF VerdictListInv
<1>12. Inside(Key, ListTotals')
  <2>1. Key[1] \in Filters /\ Key[2] \in Nat
    BY DEF VerdictListInv, PageKeys
  <2>2. ListTotals[Key[1]] \in Nat /\ ListTotals'[Key[1]] \in Nat /\ ListTotals[Key[1]] <= ListTotals'[Key[1]]
    BY <1>8, <1>9, <2>1
  <2> QED  BY <2>1, <2>2 DEF VerdictListInv, Inside
<1> QED  BY <1>6, <1>10, <1>11, <1>12 DEF VerdictListInv

\* Whatever leaves the table alone, and asks for pages inside the list only.
LEMMA QuietSteps ==
  ASSUME VerdictListInv, table' = table, Key' \in PageKeys, open' \in BOOLEAN,
         Inside(Key', ListTotals), Held(cache', ListTotals), Held(asks', ListTotals)
  PROVE  VerdictListInv'
<1>1. ListTotals' = ListTotals
  BY DEF ListTotals, Matching
<1>2. TableOK'
  BY DEF VerdictListInv, TableOK
<1> QED  BY <1>1, <1>2 DEF VerdictListInv

LEMMA FetchingKeeps ==
  ASSUME VerdictListInv, Fetching
  PROVE  VerdictListInv'
<1>1. /\ Key \in PageKeys /\ open \in BOOLEAN /\ Inside(Key, ListTotals)
      /\ Held(cache, ListTotals) /\ Held(asks, ListTotals) /\ TableOK
  BY DEF VerdictListInv
<1>2. table' = table /\ Key' = Key /\ open' = open
  BY DEF Fetching, Serve, Arrive, Lost, Evicted, LookAgain, screen, Key
<1>3. \A k \in DOMAIN asks :
        k \in PageKeys /\ PageOK(asks[k]) /\ Inside(k, ListTotals) /\ Tells(asks[k], k, ListTotals)
  BY <1>1 DEF Held
<1>4. ASSUME NEW k \in DOMAIN asks, Serve(k) PROVE VerdictListInv'
  <2> DEFINE page == PageAnswer(k[1], k[2])
  <2>1. PageOK(page) /\ Tells(page, k, ListTotals)
    BY <1>1, <1>3, <1>4, AnswerIs
  <2>2. asks' = [asks EXCEPT ![k] = page] /\ cache' = cache
    BY <1>4 DEF Serve
  <2> HIDE DEF page
  <2>3. asks' = With(asks, k, page)
    BY <1>4, <2>2 DEF With
  <2>4. Held(asks', ListTotals)
    BY <1>1, <1>3, <1>4, <2>1, <2>3, WithHeld
  <2> QED  BY <1>1, <1>2, <2>2, <2>4, QuietSteps
<1>5. ASSUME NEW k \in DOMAIN asks, Arrive(k) PROVE VerdictListInv'
  <2>1. cache' = With(cache, k, asks[k]) /\ asks' = Without(asks, k)
    BY <1>5 DEF Arrive
  <2>2. Held(cache', ListTotals)
    BY <1>1, <1>3, <1>5, <2>1, WithHeld
  <2>3. Held(asks', ListTotals)
    BY <1>1, <2>1, WithoutHeld
  <2> QED  BY <1>1, <1>2, <2>2, <2>3, QuietSteps
<1>6. ASSUME NEW k \in DOMAIN asks, Lost(k) PROVE VerdictListInv'
  <2>1. Held(asks', ListTotals) /\ cache' = cache
    BY <1>1, <1>6, WithoutHeld DEF Lost
  <2> QED  BY <1>1, <1>2, <2>1, QuietSteps
<1>7. ASSUME NEW k \in DOMAIN cache, Evicted(k) PROVE VerdictListInv'
  <2>1. Held(cache', ListTotals) /\ asks' = asks
    BY <1>1, <1>7, WithoutHeld DEF Evicted
  <2> QED  BY <1>1, <1>2, <2>1, QuietSteps
<1>8. CASE LookAgain
  <2>1. Held(asks', ListTotals) /\ cache' = cache
    BY <1>1, <1>8, AskHeld DEF LookAgain
  <2> QED  BY <1>1, <1>2, <2>1, QuietSteps
<1> QED  BY <1>4, <1>5, <1>6, <1>7, <1>8 DEF Fetching

\* A page that is turned to is inside the list its neighbour counted.
LEMMA TurnKeeps ==
  ASSUME VerdictListInv, NEW to \in Nat, Inside(<<filter, to>>, ListTotals), Turn(to)
  PROVE  VerdictListInv'
<1>1. /\ Key \in PageKeys /\ open \in BOOLEAN
      /\ Held(cache, ListTotals) /\ Held(asks, ListTotals)
  BY DEF VerdictListInv
<1>2. Key' = <<filter, to>> /\ table' = table /\ open' = open /\ cache' = cache /\ AskFor(Key')
  BY DEF Turn, Key
<1>3. <<filter, to>> \in PageKeys
  BY <1>1 DEF PageKeys, Key
<1>4. AskFor(<<filter, to>>)
  BY DEF Turn, Key
<1>5. Held(asks', ListTotals)
  BY <1>1, <1>3, <1>4, AskHeld
<1> QED  BY <1>1, <1>2, <1>3, <1>5, QuietSteps

LEMMA PagingKeeps ==
  ASSUME VerdictListInv, Paging
  PROVE  VerdictListInv'
<1>1. /\ Key \in PageKeys /\ open \in BOOLEAN /\ Inside(Key, ListTotals)
      /\ Held(cache, ListTotals) /\ Held(asks, ListTotals)
  BY DEF VerdictListInv
<1>2. filter \in Filters /\ offset \in Nat /\ PageLimit \in Nat \ {0}
  BY <1>1, ListAssumption DEF Key, PageKeys
<1>3. ListTotals[filter] \in Nat
  BY <1>2, ListTotalsAre DEF VerdictListInv
<1>4. ASSUME NEW f \in Filters, SetFilters(f) PROVE VerdictListInv'
  <2>1. Key' = <<f, 0>> /\ table' = table /\ open' = open /\ cache' = cache /\ AskFor(<<f, 0>>)
    BY <1>4 DEF SetFilters, Key
  <2>2. <<f, 0>> \in PageKeys /\ Inside(<<f, 0>>, ListTotals)
    BY DEF PageKeys, Inside
  <2>3. Held(asks', ListTotals)
    BY <1>1, <2>1, <2>2, AskHeld
  <2> QED  BY <1>1, <2>1, <2>2, <2>3, QuietSteps
<1>5. CASE NextPage
  <2>1. PageShown # Unread /\ offset + PageLimit < PageShown.total /\ Turn(offset + PageLimit)
    BY <1>5 DEF NextPage, Turn
  <2>2. PageShown = cache[Key] /\ Key \in DOMAIN cache
    BY <2>1, ShownIs
  <2>3. PageOK(PageShown) /\ Tells(PageShown, Key, ListTotals)
    BY <1>1, <2>2 DEF Held
  <2>4. PageShown.total \in Nat /\ PageShown.total <= ListTotals[filter]
    BY <2>1, <2>3 DEF PageOK, Tells, Key
  <2>5. offset + PageLimit \in Nat /\ offset + PageLimit < ListTotals[filter]
    BY <1>2, <1>3, <2>1, <2>4
  <2>6. Inside(<<filter, offset + PageLimit>>, ListTotals)
    BY <2>5 DEF Inside
  <2> QED  BY <2>1, <2>5, <2>6, TurnKeeps
<1>6. CASE PreviousPage
  <2>1. PICK to : to = (IF offset < PageLimit THEN 0 ELSE offset - PageLimit) /\ Turn(to)
    BY <1>6 DEF PreviousPage
  <2>2. to \in Nat /\ to <= offset
    BY <1>2, <2>1
  <2>3. offset = 0 \/ offset < ListTotals[filter]
    BY <1>1 DEF Inside, Key
  <2>4. to = 0 \/ to < ListTotals[filter]
    BY <1>2, <1>3, <2>2, <2>3
  <2>5. Inside(<<filter, to>>, ListTotals)
    BY <2>4 DEF Inside
  <2> QED  BY <2>1, <2>2, <2>5, TurnKeeps
<1> QED  BY <1>4, <1>5, <1>6 DEF Paging

LEMMA ListKeeps == VerdictListInv /\ [VerdictListNext]_verdict_list => VerdictListInv'
<1> SUFFICES ASSUME VerdictListInv, [VerdictListNext]_verdict_list PROVE VerdictListInv'
  OBVIOUS
<1>1. /\ Key \in PageKeys /\ open \in BOOLEAN /\ Inside(Key, ListTotals)
      /\ Held(cache, ListTotals) /\ Held(asks, ListTotals)
  BY DEF VerdictListInv
<1>2. CASE UNCHANGED list
  <2>1. table' = table /\ Key' = Key /\ open' = open /\ cache' = cache /\ asks' = asks
    BY <1>2 DEF list, screen, client, Key
  <2> QED  BY <1>1, <2>1, QuietSteps
<1>3. CASE OpenList
  <2>1. table' = table /\ Key' = Key /\ open' = TRUE /\ cache' = cache /\ AskFor(Key)
    BY <1>3 DEF OpenList, Key
  <2>2. Held(asks', ListTotals)
    BY <1>1, <2>1, AskHeld
  <2> QED  BY <1>1, <2>1, <2>2, QuietSteps
<1>4. CASE CloseList
  <2>1. /\ table' = table /\ Key' = <<DefaultFilter, 0>> /\ open' = FALSE
        /\ cache' = cache /\ asks' = asks
    BY <1>4 DEF CloseList, client, Key
  <2>2. <<DefaultFilter, 0>> \in PageKeys /\ Inside(<<DefaultFilter, 0>>, ListTotals)
    BY ListAssumption DEF PageKeys, Inside
  <2> QED  BY <1>1, <2>1, <2>2, QuietSteps
<1>5. CASE Verdicts
  BY <1>5, VerdictsKeep
<1>6. CASE Fetching \/ Paging
  BY <1>6, FetchingKeeps, PagingKeeps
<1> QED
  BY <1>2, <1>3, <1>4, <1>5, <1>6 DEF VerdictListNext, verdict_list, Preview, Dismiss, LeaveList

\* The numbers over the list of verdicts are those of the rows below them,
\* whatever is filtered, turned, fetched and ruled meanwhile: a list that only
\* grows never shrinks under the page it is read at.
THEOREM ListLabelHolds == VerdictListSpec => []LabelIsTrue
<1>1. ASSUME VerdictListInv PROVE LabelIsTrue
  <2> SUFFICES ASSUME PageShown # Unread PROVE Numbers(PageShown, offset)
    BY DEF LabelIsTrue
  <2>1. PageShown = cache[Key] /\ Key \in DOMAIN cache
    BY <1>1, ShownIs
  <2>2. Tells(PageShown, Key, ListTotals)
    BY <1>1, <2>1 DEF VerdictListInv, Held
  <2> QED  BY <2>2 DEF Tells, Key
<1>2. VerdictListInv => LabelIsTrue
  BY <1>1
<1> QED  BY <1>2, ListBegins, ListKeeps, PTL DEF VerdictListSpec
=============================================================================
