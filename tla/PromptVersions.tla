---------------------------- MODULE PromptVersions ----------------------------
(***************************************************************************)
(* The class roster and the version of each prompt.  An administrator's    *)
(* page creates, rewords, activates and retires classes; the API answers   *)
(* an update in up to three statements (read the row, count the active     *)
(* ones, write the row back) with nothing held between them; the worker    *)
(* reads the active prompts once a job and stamps their versions on the    *)
(* boxes it reports, minutes later.                                        *)
(*                                                                         *)
(* A version <<day, suffix>> is the tag YYYY-MM-DD-suffix, a letter of the *)
(* suffix its place in an alphabet that may be shorter than ours.          *)
(***************************************************************************)
EXTENDS Integers, FiniteSetsExt, Sequences

CONSTANTS
  ClassNames,    (* UNIQUE in the table                                     *)
  Wordings,
  Screens,       (* the pages of /admin that are open                       *)
  Requests,      (* bound: the updates the API may be answering at once     *)
  Letters,       (* bound: the letters of the alphabet, 26 in the code      *)
  MaxActive,     (* MAX_ACTIVE_CLASSES                                      *)
  MaxDay,        (* bound: the days that pass                               *)
  MaxUpdates,    (* bound: the updates ever sent                            *)
  MaxStamped     (* bound: the kinds of box ever reported                   *)

ASSUME PromptAssumption ==
  /\ IsFiniteSet(ClassNames) /\ IsFiniteSet(Requests) /\ Requests # {}
  /\ Letters \in Nat \ {0} /\ MaxActive \in Nat /\ MaxDay \in Nat
  /\ MaxUpdates \in Nat /\ MaxStamped \in Nat

VARIABLES
  today,      (* the UTC date                                               *)
  roster,     (* the table classes                                          *)
  updates,    (* each update under way                                      *)
  sends,      (* how many there have been                                   *)
  watched,    (* by screen: the update its mutation waits for, or Nothing  *)
  prompts,    (* what the job in hand detects with, or NoJob                *)
  stamped,    (* predictions, each with the wording that really found it    *)
  raced       (* history: classes written in the middle of another update   *)

roster_vars == <<today, roster, updates, sends, watched, prompts, stamped, raced>>

Versions == Nat \X Seq(1 .. Letters)
NoVersion == <<0, <<>>>>
NoRow == [wording |-> "none", version |-> NoVersion, active |-> FALSE]
Absent(c) == roster[c] = NoRow
Active == {c \in ClassNames : roster[c].active}

Keep == "keep"
NoUpdate == [at |-> "none"]
Nothing == "nothing"
NoJob == {}

Free(r) == updates[r] = NoUpdate
HasRead(r) == ~Free(r) /\ updates[r].at \in {"count", "write"}

-----------------------------------------------------------------------------
(* Versions.                                                               *)

\* nextSuffix: a to b, z to aa, az to ba.
NextSuffix(suffix) ==
  LET below == {i \in DOMAIN suffix : suffix[i] < Letters}
      at == Max(below)
  IN IF below = {} THEN [i \in 1 .. Len(suffix) + 1 |-> 1]
     ELSE [i \in DOMAIN suffix |->
             IF i < at THEN suffix[i] ELSE IF i = at THEN suffix[i] + 1 ELSE 1]

\* nextPromptVersion: the day's next suffix, or a new day's first.
NextVersion(current, day) ==
  <<day, IF current[1] = day THEN NextSuffix(current[2]) ELSE <<1>>>>

\* The row an update will write, made when it reads: what the request leaves
\* out is what was read, and the version is of that day.
Rewritten(read, wording, active) ==
  [wording |-> IF wording = Keep THEN read.wording ELSE wording,
   version |-> IF wording \in {Keep, read.wording} THEN read.version
                 ELSE NextVersion(read.version, today),
   active  |-> IF active = Keep THEN read.active ELSE active = "on"]

CreateClass(c, w) ==
  /\ Absent(c)
  /\ roster' = [roster EXCEPT ![c] = [wording |-> w, active |-> FALSE,
                                      version |-> NextVersion(NoVersion, today)]]
  /\ UNCHANGED <<today, updates, sends, watched, prompts, stamped, raced>>

-----------------------------------------------------------------------------
(* The page: one mutation for all its cards, and the card of the class it  *)
(* went out for last is the only one it disables.                          *)

Disabled(s, c) ==
  watched[s] # Nothing /\ updates[watched[s]].class = c

Send(s, r, c, wording, active) ==
  /\ ~Absent(c) /\ ~Disabled(s, c) /\ Free(r)
  /\ sends < MaxUpdates /\ sends' = sends + 1
  /\ updates' = [updates EXCEPT ![r] =
       [at |-> "read", class |-> c, wording |-> wording,
        active |-> active, row |-> NoRow]]
  /\ watched' = [watched EXCEPT ![s] = r]
  /\ UNCHANGED <<today, roster, prompts, stamped, raced>>

SaveWording(s, r, c) == \E w \in Wordings : Send(s, r, c, w, Keep)

\* Retire or Activate, as the page's copy of the row may be behind.
Toggle(s, r, c) == \E active \in {"on", "off"} : Send(s, r, c, Keep, active)

-----------------------------------------------------------------------------
(* The API: updateClass, statement by statement.                           *)

Finished(r) ==
  /\ updates' = [updates EXCEPT ![r] = NoUpdate]
  /\ watched' = [s \in Screens |-> IF watched[s] = r THEN Nothing ELSE watched[s]]
  /\ UNCHANGED sends

ReadRow(r) ==
  /\ ~Free(r) /\ updates[r].at = "read"
  /\ LET update == updates[r]
         read == roster[update.class]
         counts == update.active = "on" /\ ~read.active
     IN updates' = [updates EXCEPT ![r] =
                      [@ EXCEPT !.row = Rewritten(read, update.wording, update.active),
                                !.at = IF counts THEN "count" ELSE "write"]]
  /\ UNCHANGED <<today, roster, sends, watched, prompts, stamped, raced>>

RoomLeft == Cardinality(Active) < MaxActive

CountActive(r) ==
  /\ ~Free(r) /\ updates[r].at = "count"
  /\ \/ /\ RoomLeft /\ UNCHANGED <<sends, watched>>
        /\ updates' = [updates EXCEPT ![r] = [@ EXCEPT !.at = "write"]]
     \/ ~RoomLeft /\ Finished(r)
  /\ UNCHANGED <<today, roster, prompts, stamped, raced>>

WriteRow(r) ==
  LET update == updates[r]
      Overtaken == \E q \in Requests \ {r} : HasRead(q) /\ updates[q].class = update.class
  IN /\ ~Free(r) /\ update.at = "write"
     /\ roster' = [roster EXCEPT ![update.class] = update.row]
     /\ raced' = IF Overtaken THEN raced \cup {update.class} ELSE raced
     /\ Finished(r)
     /\ UNCHANGED <<today, prompts, stamped>>

\* The connection or the isolate goes away between two statements.
UpdateDies(r) ==
  /\ ~Free(r)
  /\ Finished(r)
  /\ UNCHANGED <<today, roster, prompts, stamped, raced>>

-----------------------------------------------------------------------------
(* The worker: one pre-labelling job after another.                        *)

\* An empty set fails the job, to be tried again.
FetchPrompts ==
  /\ prompts = NoJob /\ Active # {}
  /\ prompts' = {[class |-> c, wording |-> roster[c].wording,
                  version |-> roster[c].version] : c \in Active}
  /\ UNCHANGED <<today, roster, updates, sends, watched, stamped, raced>>

\* Mistake: the version looked up when the boxes are stored.
StampNow(found) == {[p EXCEPT !.version = roster[p.class].version] : p \in found}

\* The version came with the prompt, and the class is found by its name,
\* retired since or not.
StampOf(found) == found

ReportBoxes ==
  /\ prompts # NoJob
  /\ \E found \in SUBSET prompts : stamped' = stamped \cup StampOf(found)
  /\ Cardinality(stamped') <= MaxStamped
  /\ prompts' = NoJob
  /\ UNCHANGED <<today, roster, updates, sends, watched, raced>>

\* Nothing is stamped by a job that fails while it detects.
DetectionFails ==
  /\ prompts # NoJob
  /\ prompts' = NoJob
  /\ UNCHANGED <<today, roster, updates, sends, watched, stamped, raced>>

NextDay ==
  /\ today < MaxDay
  /\ today' = today + 1
  /\ UNCHANGED <<roster, updates, sends, watched, prompts, stamped, raced>>

-----------------------------------------------------------------------------

PromptInit ==
  /\ today = 1
  /\ roster = [c \in ClassNames |-> NoRow]
  /\ updates = [r \in Requests |-> NoUpdate]
  /\ watched = [s \in Screens |-> Nothing] /\ sends = 0
  /\ prompts = NoJob /\ stamped = {} /\ raced = {}

PromptNext ==
  \/ NextDay
  \/ \E c \in ClassNames, w \in Wordings : CreateClass(c, w)
  \/ \E s \in Screens, r \in Requests, c \in ClassNames :
       SaveWording(s, r, c) \/ Toggle(s, r, c)
  \/ \E r \in Requests : ReadRow(r) \/ CountActive(r) \/ WriteRow(r) \/ UpdateDies(r)
  \/ FetchPrompts \/ ReportBoxes \/ DetectionFails

PromptSpec == PromptInit /\ [][PromptNext]_roster_vars

-----------------------------------------------------------------------------
(* Properties.                                                             *)

Rows == [wording : Wordings \cup {"none"}, version : Versions, active : BOOLEAN]
Updates ==
  [at : {"read", "count", "write"}, class : ClassNames,
   wording : Wordings \cup {Keep}, active : {"on", "off", Keep}, row : Rows]
Prompts == [class : ClassNames, wording : Wordings, version : Versions]

\* Type correctness.
PromptTypeOK ==
  /\ today \in Nat
  /\ roster \in [ClassNames -> Rows]
  /\ updates \in [Requests -> Updates \cup {NoUpdate}]
  /\ watched \in [Screens -> Requests \cup {Nothing}] /\ sends \in Nat
  /\ prompts \subseteq Prompts /\ stamped \subseteq Prompts
  /\ raced \subseteq ClassNames

\* The boxes of one version of a class were found by one wording, unless two
\* updates of that very class overlapped: rewording, activating and retiring
\* other classes, a day's turn, a job that began before a rewording and
\* reports after it, a request that dies halfway, cannot mix two regimes.
OneWordingUnlessRaced ==
  \A p, q \in stamped :
    p.class = q.class /\ p.version = q.version /\ p.class \notin raced
      => p.wording = q.wording

\* What prompt-version.ts says of the column: two wordings under one version
\* is "precisely the state the column was added to make impossible".
VersionNamesOneWording ==
  \A p, q \in stamped :
    p.class = q.class /\ p.version = q.version => p.wording = q.wording

\* The worker's contract declares how many classes it is sends at most; a count
\* and a write that others overtake may pass the bound, but by no more than
\* the updates that ran at the same time, and one at a time never.
ActiveWithin == Cardinality(Active) <= MaxActive + Cardinality(Requests) - 1
=============================================================================
