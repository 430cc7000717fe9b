---------------------------- MODULE VisitorsProofs ----------------------------
(***************************************************************************)
(* Theorems about Sessions, for any tabs, accounts and lifetimes, and      *)
(* about PublicSample, for any frames, boxes and spacing and any number of *)
(* requests that overlap.                                                  *)
(***************************************************************************)
EXTENDS Sessions, PublicSample, WellFoundedInduction, TLAPS

-----------------------------------------------------------------------------
(* SIGNING IN.                                                             *)

Shapes ==
  [at : Steps, flow : 0..MaxFlows, account : Accounts \cup {NoAccount}, cookie : States,
   since : Nat, carries : 0..MaxFlows, got : Gots]

\* What moves, typed.
Typed ==
  /\ tick \in Nat /\ flows \in 0..MaxFlows
  /\ stateJar \in States /\ sessionJar \in 0..MaxFlows
  /\ tabs \in [Tabs -> Shapes]

\* The clock the cron read is behind the clock.
SweepBehind ==
  /\ tick \in Nat /\ sweep \in Int /\ sweep <= tick
  /\ sessions \in [Flows -> [account : Accounts \cup {NoAccount}, until : Nat]]

Signing == {"at google", "callback", "insert", "answer"}

\* Tabs that are signing in are in flows of their own, started already.
OwnFlows ==
  /\ stateJar.flow <= flows
  /\ \A t \in Tabs : tabs[t].at \in Signing => tabs[t].flow \in 1..flows
  /\ \A s, t \in Tabs :
       s # t /\ tabs[s].at \in Signing /\ tabs[t].at \in Signing
         => tabs[s].flow # tabs[t].flow

\* Where the state of a flow is while its visitor is away, once the visitor is
\* back, and once they have been refused for want of it.
Crossed(t) == tabs[t].flow \in crossed
TooLate(t) == tabs[t].since + StateTTL <= tick
InTheJar(t) ==
  stateJar.flow = tabs[t].flow /\ stateJar.until = tabs[t].since + StateTTL

StateKnown(t) ==
  /\ At(t, "at google") => Crossed(t) \/ InTheJar(t)
  /\ At(t, "callback") => Crossed(t) \/ TooLate(t) \/ Matches(t)
  /\ At(t, "answer") /\ tabs[t].got = "no state" => Crossed(t) \/ TooLate(t)

\* The inductive invariant of the refusals.
SigningInv == Typed /\ OwnFlows /\ \A t \in Tabs : StateKnown(t)

-----------------------------------------------------------------------------
(* Types.                                                                  *)

LEMMA StatesAre == NoState \in States /\ Away \in Shapes
BY SessionAssumption DEF NoState, Away, States, Shapes, Steps, Gots

LEMMA TypedBegins == SessionInit => Typed
BY StatesAre, SessionAssumption DEF SessionInit, Typed

LEMMA SentIs == Typed => SentState \in States
BY StatesAre DEF Typed, SentState

\* A tab takes a step.
LEMMA TabMoves ==
  ASSUME Typed, NEW t \in Tabs, NEW shape \in Shapes, tabs' = [tabs EXCEPT ![t] = shape],
         UNCHANGED <<tick, flows, stateJar, sessionJar>>
  PROVE  Typed'
BY DEF Typed

LEMMA TypedKeeps == Typed /\ [SessionNext]_session_vars => Typed'
<1> SUFFICES ASSUME Typed, [SessionNext]_session_vars PROVE Typed'
  OBVIOUS
<1>1. CASE UNCHANGED <<tick, flows, jars, tabs>>
  BY <1>1 DEF Typed, jars
<1>2. CASE SessionTick
  <2>1. tick \in Nat /\ tick' = tick + 1 /\ UNCHANGED <<flows, jars, tabs>>
    BY <1>2 DEF SessionTick, Typed
  <2>2. tick' \in Nat
    BY <2>1
  <2> QED  BY <2>1, <2>2 DEF Typed, jars
<1>3. ASSUME NEW t \in Tabs, Start(t) PROVE Typed'
  <2>1. flows' = flows + 1 /\ flows < MaxFlows /\ UNCHANGED <<tick, sessionJar>>
    BY <1>3 DEF Start
  <2>2. flows' \in 0..MaxFlows
    BY <2>1, SessionAssumption DEF Typed
  <2>3. tick + StateTTL \in Nat /\ tick \in Nat
    <3>1. tick \in Nat
      BY DEF Typed
    <3>2. StateTTL \in Nat
      BY SessionAssumption
    <3> QED  BY <3>1, <3>2
  <2>4. stateJar' \in States
    BY <1>3, <2>2, <2>3 DEF Start, StateSet, States
  <2>5. [Away EXCEPT !.at = "at google", !.flow = flows', !.since = tick] \in Shapes
    BY <2>2, <2>3, StatesAre DEF Shapes, Steps
  <2>6. tabs' \in [Tabs -> Shapes]
    BY <1>3, <2>5 DEF Start, Typed
  <2> QED  BY <2>1, <2>2, <2>4, <2>6 DEF Typed
<1>4. ASSUME NEW t \in Tabs, Abandon(t) \/ AnswerLost(t) \/ Leave(t) PROVE Typed'
  BY <1>4, StatesAre, TabMoves DEF Abandon, AnswerLost, Leave, jars
<1>5. ASSUME NEW t \in Tabs, NEW account \in Accounts \cup {NoAccount}, Return(t, account)
      PROVE  Typed'
  <2>1. [tabs[t] EXCEPT !.at = "callback", !.account = account, !.cookie = SentState] \in Shapes
    BY SentIs DEF Typed, Shapes, Steps
  <2> QED  BY <1>5, <2>1, TabMoves DEF Return, jars
<1>6. ASSUME NEW t \in Tabs, NEW got \in Gots, Answer(t, got), UNCHANGED <<tick, flows, jars>>
      PROVE  Typed'
  <2>1. [tabs[t] EXCEPT !.at = "answer", !.got = got] \in Shapes
    BY DEF Typed, Shapes, Steps
  <2> QED  BY <1>6, <2>1, TabMoves DEF Answer, jars
<1>7. ASSUME NEW t \in Tabs, CallbackRefuses(t) \/ ExchangeFails(t) \/ OpenSession(t)
      PROVE  Typed'
  BY <1>6, <1>7 DEF CallbackRefuses, ExchangeFails, OpenSession, Gots
<1>8. ASSUME NEW t \in Tabs, NEW step \in {"insert", "logged out"},
             tabs' = [tabs EXCEPT ![t] = [@ EXCEPT !.at = step]], UNCHANGED <<tick, flows, jars>>
      PROVE  Typed'
  <2>1. [tabs[t] EXCEPT !.at = step] \in Shapes
    BY DEF Typed, Shapes, Steps
  <2> QED  BY <1>8, <2>1, TabMoves DEF jars
<1>9. ASSUME NEW t \in Tabs, RecordUser(t) \/ LogoutServed(t) PROVE Typed'
  BY <1>8, <1>9 DEF RecordUser, LogoutServed
<1>10. ASSUME NEW t \in Tabs, CallbackAnswered(t) PROVE Typed'
  <2>1. tabs[t].flow \in 0..MaxFlows
    BY DEF Typed, Shapes
  <2>2. sessionJar' \in 0..MaxFlows
    BY <1>10, <2>1 DEF CallbackAnswered, Typed
  <2> QED  BY <1>10, <2>2, StatesAre DEF CallbackAnswered, Typed
<1>11. ASSUME NEW t \in Tabs, NEW step \in {"signed in", "signed out", "logout"},
              tabs' = [tabs EXCEPT ![t] = [Away EXCEPT !.at = step, !.carries = sessionJar]],
              UNCHANGED <<tick, flows, jars>>
       PROVE  Typed'
  <2>1. [Away EXCEPT !.at = step, !.carries = sessionJar] \in Shapes
    BY StatesAre DEF Typed, Shapes, Steps
  <2> QED  BY <1>11, <2>1, TabMoves DEF jars
<1>12. ASSUME NEW t \in Tabs, Contribute(t) \/ Logout(t) PROVE Typed'
  <2>1. CASE Contribute(t)
    BY <1>11, <2>1 DEF Contribute
  <2>2. CASE Logout(t)
    BY <1>11, <2>2 DEF Logout
  <2> QED  BY <1>12, <2>1, <2>2
<1>13. ASSUME NEW t \in Tabs, LogoutAnswered(t) PROVE Typed'
  <2>1. 0 \in 0..MaxFlows /\ sessionJar \in 0..MaxFlows
    BY SessionAssumption DEF Typed
  <2>2. sessionJar' \in {0, sessionJar}
    BY <1>13 DEF LogoutAnswered
  <2>3. sessionJar' \in 0..MaxFlows
    BY <2>1, <2>2
  <2> QED  BY <1>13, <2>3, StatesAre DEF LogoutAnswered, Typed
<1>14. SweepBegins \/ SweepDeletes => Typed'
  BY DEF SweepBegins, SweepDeletes, Typed, jars
<1> QED
  BY <1>1, <1>2, <1>3, <1>4, <1>5, <1>7, <1>9, <1>10, <1>12, <1>13, <1>14
     DEF SessionNext, session_vars

-----------------------------------------------------------------------------
(* Live sessions.                                                          *)

LEMMA SweepBegunBehind == SessionInit => SweepBehind
BY DEF SessionInit, SweepBehind, NoRowHere, NotSweeping

LEMMA SweepStaysBehind ==
  Typed /\ SweepBehind /\ [SessionNext]_session_vars => SweepBehind'
<1> SUFFICES ASSUME Typed, SweepBehind, [SessionNext]_session_vars PROVE SweepBehind'
  OBVIOUS
<1>1. CASE UNCHANGED <<tick, sweep, sessions>>
  BY <1>1 DEF SweepBehind
<1>2. CASE SessionTick
  <2>1. tick' = tick + 1 /\ UNCHANGED <<sweep, sessions>>
    BY <1>2 DEF SessionTick, tables
  <2> QED  BY <2>1 DEF SweepBehind
<1>3. CASE SweepBegins
  <2>1. sweep' = tick /\ UNCHANGED <<tick, sessions>>
    BY <1>3 DEF SweepBegins, tables
  <2> QED  BY <2>1 DEF SweepBehind
<1>4. CASE SweepDeletes
  <2>1. sessions' = [flow \in Flows |-> IF Swept(sessions[flow]) THEN NoRowHere
                                        ELSE sessions[flow]]
    BY <1>4 DEF SweepDeletes
  <2>2. sweep' = -1 /\ tick' = tick
    BY <1>4 DEF SweepDeletes, NotSweeping
  <2>3. NoRowHere \in [account : Accounts \cup {NoAccount}, until : Nat]
    BY DEF NoRowHere
  <2>4. sessions' \in [Flows -> [account : Accounts \cup {NoAccount}, until : Nat]]
    BY <2>1, <2>3 DEF SweepBehind
  <2> QED  BY <2>2, <2>4 DEF SweepBehind
<1>5. ASSUME NEW t \in Tabs, OpenSession(t) PROVE SweepBehind'
  <2>1. UNCHANGED <<tick, sweep>>
    BY <1>5 DEF OpenSession
  <2>2. tabs[t].account \in Accounts \cup {NoAccount}
    BY DEF Typed, Shapes
  <2>3. tick + SessionTTL \in Nat
    <3>1. tick \in Nat
      BY DEF Typed
    <3>2. SessionTTL \in Nat
      BY SessionAssumption
    <3> QED  BY <3>1, <3>2
  <2> DEFINE row == [account |-> tabs[t].account, until |-> tick + SessionTTL]
  <2>4. row \in [account : Accounts \cup {NoAccount}, until : Nat]
    BY <2>2, <2>3
  <2>5. sessions' = [sessions EXCEPT ![tabs[t].flow] = row] \/ sessions' = sessions
    BY <1>5 DEF OpenSession
  <2> HIDE DEF row
  <2>6. sessions \in [Flows -> [account : Accounts \cup {NoAccount}, until : Nat]]
    BY DEF SweepBehind
  <2>7. sessions' \in [Flows -> [account : Accounts \cup {NoAccount}, until : Nat]]
    BY <2>4, <2>5, <2>6
  <2> QED  BY <2>1, <2>7 DEF SweepBehind
<1>6. ASSUME NEW t \in Tabs, LogoutServed(t) PROVE SweepBehind'
  <2>1. UNCHANGED <<tick, sweep>>
    BY <1>6 DEF LogoutServed
  <2>2. NoRowHere \in [account : Accounts \cup {NoAccount}, until : Nat]
    BY DEF NoRowHere
  <2>3. sessions' \in [Flows -> [account : Accounts \cup {NoAccount}, until : Nat]]
    BY <1>6, <2>2 DEF LogoutServed, SweepBehind
  <2> QED  BY <2>1, <2>3 DEF SweepBehind
<1>7. SessionNext =>
        \/ UNCHANGED <<tick, sweep, sessions>>
        \/ SessionTick \/ SweepBegins \/ SweepDeletes
        \/ \E t \in Tabs : OpenSession(t) \/ LogoutServed(t)
  BY DEF SessionNext, Start, Abandon, Return, CallbackRefuses, ExchangeFails, RecordUser,
         CallbackAnswered, AnswerLost, Contribute, Leave, Logout, LogoutAnswered, tables
<1> QED
  BY <1>1, <1>2, <1>3, <1>4, <1>5, <1>6, <1>7 DEF session_vars, tables

\* What a request accepts, the sweep leaves.
LEMMA LiveStep ==
  ASSUME Typed, SweepBehind, [SessionNext]_session_vars,
         NEW flow \in Flows, Accepted(flow), sessions'[flow] = NoRowHere
  PROVE  \E t \in Tabs : LogoutServed(t) /\ tabs[t].carries = flow
<1>1. sessions[flow].until > tick /\ sessions[flow].until \in Nat /\ tick \in Nat
  BY DEF Accepted, SweepBehind
<1>2. sessions[flow] # NoRowHere
  BY <1>1 DEF NoRowHere
<1>3. sessions' # sessions
  BY <1>2
<1>4. ~SweepDeletes
  <2>1. ~Swept(sessions[flow])
    BY <1>1 DEF Swept, SweepBehind
  <2> QED  BY <1>2, <2>1 DEF SweepDeletes
<1>5. ASSUME NEW t \in Tabs, OpenSession(t) PROVE FALSE
  <2>1. sessions' = [sessions EXCEPT ![tabs[t].flow] =
          [account |-> tabs[t].account, until |-> tick + SessionTTL]]
    BY <1>3, <1>5 DEF OpenSession
  <2>2. tick + SessionTTL # 0
    BY <1>1, SessionAssumption
  <2> QED  BY <1>2, <2>1, <2>2 DEF SweepBehind, NoRowHere
<1>6. \E t \in Tabs : LogoutServed(t)
  BY <1>3, <1>4, <1>5
     DEF SessionNext, session_vars, tables, SessionTick, SweepBegins, Start, Abandon, Return,
         CallbackRefuses, ExchangeFails, RecordUser, CallbackAnswered, AnswerLost, Contribute,
         Leave, Logout, LogoutAnswered
<1> QED  BY <1>2, <1>6 DEF LogoutServed

\* A session a request would accept goes only by a logout that carries it.
THEOREM LiveStays == SessionSpec => LiveGoesByLogout
<1>1. SessionInit => Typed /\ SweepBehind
  BY TypedBegins, SweepBegunBehind
<1>2. Typed /\ SweepBehind /\ [SessionNext]_session_vars => (Typed /\ SweepBehind)'
  BY TypedKeeps, SweepStaysBehind
<1>3. Typed /\ SweepBehind /\ [SessionNext]_session_vars =>
        [\A flow \in Flows :
           Accepted(flow) /\ sessions'[flow] = NoRowHere =>
             \E t \in Tabs : LogoutServed(t) /\ tabs[t].carries = flow]_session_vars
  BY LiveStep
<1> QED  BY <1>1, <1>2, <1>3, PTL DEF SessionSpec, LiveGoesByLogout

-----------------------------------------------------------------------------
(* Refusals.                                                               *)

LEMMA StillPast ==
  \A since, lifetime, now, later \in Nat :
    now <= now /\ (since + lifetime <= now /\ now <= later => since + lifetime <= later)
OBVIOUS

\* A tab that is left alone stays known, when no more is lost of the jar than
\* crossed says.
LEMMA KeptKnown ==
  ASSUME Typed, NEW s \in Tabs, StateKnown(s), tabs'[s] = tabs[s],
         crossed \subseteq crossed', tick' \in Nat, tick <= tick',
         At(s, "at google") /\ InTheJar(s) => Crossed(s)' \/ InTheJar(s)'
  PROVE  StateKnown(s)'
<1>1. tabs[s].since \in Nat /\ tick \in Nat
  BY DEF Typed, Shapes
<1>2. StateTTL \in Nat
  BY SessionAssumption
<1>3. TooLate(s) => TooLate(s)'
  <2>1. tabs[s].since + StateTTL <= tick => tabs[s].since + StateTTL <= tick'
    BY <1>1, <1>2, StillPast, Zenon
  <2> QED  BY <2>1 DEF TooLate
<1>4. Crossed(s) => Crossed(s)'
  BY DEF Crossed
<1> QED  BY <1>3, <1>4 DEF StateKnown, At, Matches

\* One tab takes a step, in the flow it is in or out of it.
LEMMA OneTabSigns ==
  ASSUME SigningInv, Typed', NEW t \in Tabs, NEW shape,
         tabs' = [tabs EXCEPT ![t] = shape], UNCHANGED <<tick, flows>>,
         crossed \subseteq crossed', stateJar'.flow <= flows,
         shape.at \in Signing => tabs[t].at \in Signing /\ shape.flow = tabs[t].flow,
         StateKnown(t)',
         \A s \in Tabs \ {t} :
           At(s, "at google") /\ InTheJar(s) => Crossed(s)' \/ InTheJar(s)'
  PROVE  SigningInv'
<1>1. Typed /\ OwnFlows /\ \A s \in Tabs : StateKnown(s)
  BY DEF SigningInv
<1>2. tabs'[t] = shape /\ \A s \in Tabs \ {t} : tabs'[s] = tabs[s]
  BY <1>1 DEF Typed
<1>3. OwnFlows'
  <2>1. \A s \in Tabs : tabs'[s].at \in Signing =>
          tabs[s].at \in Signing /\ tabs'[s].flow = tabs[s].flow
    BY <1>2
  <2> QED  BY <1>1, <2>1 DEF OwnFlows
<1>4. ASSUME NEW s \in Tabs PROVE StateKnown(s)'
  <2>1. tick \in Nat /\ tick' = tick
    BY <1>1 DEF Typed
  <2>2. tick' \in Nat /\ tick <= tick'
    BY <2>1, StillPast, Zenon
  <2>3. CASE s # t
    BY <1>1, <1>2, <2>2, <2>3, KeptKnown
  <2> QED  BY <2>3
<1> QED  BY <1>3, <1>4 DEF SigningInv

\* A tab takes a step and the state cookie stays.
LEMMA OneTabOnly ==
  ASSUME SigningInv, Typed', NEW t \in Tabs, NEW shape,
         tabs' = [tabs EXCEPT ![t] = shape], UNCHANGED <<tick, flows, stateJar, crossed>>,
         shape.at \in Signing => tabs[t].at \in Signing /\ shape.flow = tabs[t].flow,
         StateKnown(t)'
  PROVE  SigningInv'
<1>1. stateJar'.flow <= flows
  BY DEF SigningInv, OwnFlows
<1>2. ASSUME NEW s \in Tabs \ {t}, InTheJar(s) PROVE InTheJar(s)'
  <2>1. tabs'[s] = tabs[s]
    BY DEF SigningInv, Typed
  <2> QED  BY <1>2, <2>1 DEF InTheJar
<1> QED  BY <1>1, <1>2, OneTabSigns

\* A sign-in starts: its flow is new, and a state it replaces is crossed.
LEMMA StartKnown ==
  ASSUME SigningInv, Typed', NEW t \in Tabs, Start(t)
  PROVE  SigningInv'
<1>1. Typed /\ OwnFlows /\ \A s \in Tabs : StateKnown(s)
  BY DEF SigningInv
<1>2. flows \in Nat /\ flows' = flows + 1 /\ flows' \in Nat
  BY <1>1, SessionAssumption DEF Start, Typed
<1>3. /\ tabs'[t].at = "at google" /\ tabs'[t].flow = flows' /\ tabs'[t].since = tick
      /\ \A s \in Tabs \ {t} : tabs'[s] = tabs[s]
  BY <1>1 DEF Start, Typed, Away
<1>4. stateJar' = [flow |-> flows', until |-> tick + StateTTL]
  BY DEF Start, StateSet
<1>5. OwnFlows'
  <2>1. stateJar'.flow <= flows'
    BY <1>2, <1>4
  <2>2. \A s \in Tabs \ {t} : tabs'[s].at \in Signing =>
          tabs[s].at \in Signing /\ tabs'[s].flow = tabs[s].flow /\ tabs[s].flow \in 1..flows
    BY <1>1, <1>3 DEF OwnFlows
  <2>3. \A s \in Tabs : tabs'[s].at \in Signing => tabs'[s].flow \in 1..flows'
    <3>1. 1..flows \subseteq 1..flows' /\ flows' \in 1..flows'
      BY <1>2
    <3> QED  BY <1>3, <2>2, <3>1
  <2>4. \A s \in Tabs \ {t} : tabs'[s].at \in Signing => tabs'[s].flow # flows'
    BY <1>2, <2>2
  <2>5. \A r, s \in Tabs : r # s /\ tabs'[r].at \in Signing /\ tabs'[s].at \in Signing
          => tabs'[r].flow # tabs'[s].flow
    <3> SUFFICES ASSUME NEW r \in Tabs, NEW s \in Tabs, r # s,
                        tabs'[r].at \in Signing, tabs'[s].at \in Signing
                 PROVE  tabs'[r].flow # tabs'[s].flow
      OBVIOUS
    <3>1. CASE r = t
      BY <1>3, <2>4, <3>1
    <3>2. CASE s = t
      BY <1>3, <2>4, <3>2
    <3>3. CASE r # t /\ s # t
      BY <1>1, <2>2, <3>3 DEF OwnFlows
    <3> QED  BY <3>1, <3>2, <3>3
  <2> QED  BY <2>1, <2>3, <2>5 DEF OwnFlows
<1>6. ASSUME NEW s \in Tabs PROVE StateKnown(s)'
  <2>1. CASE s = t
    BY <1>3, <1>4, <2>1 DEF StateKnown, At, InTheJar
  <2>2. CASE s # t
    <3>1. ASSUME At(s, "at google"), InTheJar(s) PROVE Crossed(s)'
      <4>1. tabs[s].flow \in 1..flows /\ tabs[s].flow = stateJar.flow
        BY <1>1, <3>1 DEF At, InTheJar, OwnFlows, Signing
      <4>2. flows \in 0..MaxFlows
        BY <1>1 DEF Typed
      <4>3. stateJar.flow \in Flows
        BY <4>1, <4>2, SessionAssumption DEF Flows
      <4>4. stateJar.flow \in crossed'
        BY <4>3 DEF Start
      <4> QED  BY <1>3, <2>2, <4>1, <4>4 DEF Crossed
    <3>2. tick' \in Nat /\ tick <= tick' /\ crossed \subseteq crossed'
      BY <1>1 DEF Start, Typed
    <3> QED  BY <1>1, <1>3, <2>2, <3>1, <3>2, KeptKnown
  <2> QED  BY <2>1, <2>2
<1> QED  BY <1>5, <1>6 DEF SigningInv

\* An answer deletes the state cookie: another's in it is crossed.
LEMMA AnswerKnown ==
  ASSUME SigningInv, Typed', NEW t \in Tabs, CallbackAnswered(t)
  PROVE  SigningInv'
<1>1. Typed /\ OwnFlows
  BY DEF SigningInv
<1>2. tabs' = [tabs EXCEPT ![t] = Away] /\ UNCHANGED <<tick, flows>>
  BY DEF CallbackAnswered
<1>3. stateJar'.flow <= flows
  BY <1>1, SessionAssumption DEF CallbackAnswered, NoState, Typed
<1>4. Away.at = "away" /\ tabs'[t] = Away
  BY <1>1, <1>2 DEF Away, Typed
<1>5. StateKnown(t)'
  BY <1>4 DEF StateKnown, At
<1>6. ASSUME NEW s \in Tabs \ {t}, At(s, "at google"), InTheJar(s) PROVE Crossed(s)'
  <2>1. tabs[s].flow \in 1..flows /\ tabs[s].flow = stateJar.flow
    BY <1>1, <1>6 DEF At, InTheJar, OwnFlows, Signing
  <2>2. tabs[s].flow # tabs[t].flow
    BY <1>1, <1>6 DEF CallbackAnswered, At, OwnFlows, Signing
  <2>3. flows \in 0..MaxFlows
    BY <1>1 DEF Typed
  <2>4. stateJar.flow \in Flows
    BY <2>1, <2>3, SessionAssumption DEF Flows
  <2>5. stateJar.flow \in crossed'
    BY <2>1, <2>2, <2>4 DEF CallbackAnswered
  <2>6. tabs'[s] = tabs[s]
    BY <1>1, <1>2 DEF Typed
  <2> QED  BY <2>1, <2>5, <2>6 DEF Crossed
<1>7. Away.at \notin Signing /\ crossed \subseteq crossed'
  BY <1>4 DEF Signing, CallbackAnswered
<1> QED  BY <1>2, <1>3, <1>5, <1>6, <1>7, OneTabSigns

\* The visitor is back: with the state, too late, or crossed.
LEMMA ReturnKnown ==
  ASSUME SigningInv, Typed', NEW t \in Tabs, NEW account, Return(t, account)
  PROVE  SigningInv'
<1> DEFINE shape == [tabs[t] EXCEPT !.at = "callback", !.account = account,
                                    !.cookie = SentState]
<1>1. Typed /\ StateKnown(t) /\ At(t, "at google")
  BY DEF SigningInv, Return
<1>2. tabs' = [tabs EXCEPT ![t] = shape] /\ UNCHANGED <<tick, flows, stateJar, crossed>>
  BY DEF Return, jars
<1>3. tabs[t] \in Shapes
  BY <1>1 DEF Typed
<1>4. shape.at = "callback" /\ shape.flow = tabs[t].flow /\ shape.since = tabs[t].since
      /\ shape.cookie = SentState
  BY <1>3 DEF Shapes
<1>5. tabs'[t] = shape
  BY <1>1, <1>2 DEF Typed
<1> HIDE DEF shape
<1>6. StateKnown(t)'
  <2>1. Crossed(t) \/ InTheJar(t)
    BY <1>1 DEF StateKnown
  <2>2. CASE Crossed(t)
    <3>1. Crossed(t)'
      BY <1>2, <1>4, <1>5, <2>2 DEF Crossed
    <3> QED  BY <1>4, <1>5, <3>1 DEF StateKnown, At
  <2>3. CASE InTheJar(t) /\ stateJar.until > tick
    BY <1>2, <1>4, <1>5, <2>3 DEF StateKnown, At, Matches, SentState, InTheJar
  <2>4. CASE InTheJar(t) /\ ~(stateJar.until > tick)
    <3>1. stateJar.until \in Nat /\ tick \in Nat
      BY <1>1 DEF Typed, States
    <3>2. TooLate(t)
      BY <2>4, <3>1 DEF InTheJar, TooLate
    <3> QED  BY <1>2, <1>4, <1>5, <3>2 DEF StateKnown, At, TooLate
  <2> QED  BY <2>1, <2>2, <2>3, <2>4
<1>7. tabs[t].at \in Signing
  BY <1>1 DEF At, Signing
<1> QED  BY <1>2, <1>4, <1>6, <1>7, OneTabOnly

\* The callback's own answer: for want of the state only if that is so.
LEMMA RefusalKnown ==
  ASSUME SigningInv, Typed', NEW t \in Tabs, tabs[t].at \in {"callback", "insert"},
         NEW got, Answer(t, got), UNCHANGED <<tick, flows, stateJar, crossed>>,
         got = "no state" => At(t, "callback") /\ ~Matches(t)
  PROVE  SigningInv'
<1> DEFINE shape == [tabs[t] EXCEPT !.at = "answer", !.got = got]
<1>1. Typed /\ StateKnown(t) /\ tabs[t] \in Shapes
  BY DEF SigningInv, Typed
<1>2. tabs' = [tabs EXCEPT ![t] = shape]
  BY DEF Answer
<1>3. shape.at = "answer" /\ shape.flow = tabs[t].flow /\ shape.since = tabs[t].since
      /\ shape.got = got
  BY <1>1 DEF Shapes
<1>4. tabs'[t] = shape
  BY <1>1, <1>2 DEF Typed
<1> HIDE DEF shape
<1>5. got = "no state" => Crossed(t) \/ TooLate(t)
  BY <1>1 DEF StateKnown
<1>6. StateKnown(t)'
  BY <1>3, <1>4, <1>5 DEF StateKnown, At, Crossed, TooLate
<1>7. tabs[t].at \in Signing
  BY DEF Signing
<1> QED  BY <1>2, <1>3, <1>6, <1>7, OneTabOnly

\* A tab that is not signing in, or redeems its code, needs no state.
LEMMA ElsewhereKnown ==
  ASSUME SigningInv, Typed', NEW t \in Tabs, NEW shape,
         shape.at \notin Signing \/ (shape.at = "insert" /\ At(t, "callback")
                                     /\ shape.flow = tabs[t].flow),
         tabs' = [tabs EXCEPT ![t] = shape], UNCHANGED <<tick, flows, stateJar, crossed>>
  PROVE  SigningInv'
<1>1. tabs'[t] = shape
  BY DEF SigningInv, Typed
<1>2. StateKnown(t)'
  BY <1>1 DEF StateKnown, At, Signing
<1>3. shape.at \in Signing => tabs[t].at \in Signing /\ shape.flow = tabs[t].flow
  BY DEF At, Signing
<1> QED  BY <1>2, <1>3, OneTabOnly

LEMMA SigningBegins == SessionInit => SigningInv
<1> SUFFICES ASSUME SessionInit PROVE SigningInv
  OBVIOUS
<1>1. \A t \in Tabs : tabs[t].at = "away"
  BY DEF SessionInit, Away
<1>2. stateJar.flow = 0 /\ flows = 0
  BY DEF SessionInit, NoState
<1>3. OwnFlows
  <2>1. stateJar.flow <= flows
    BY <1>2
  <2>2. \A t \in Tabs : tabs[t].at \notin Signing
    BY <1>1 DEF Signing
  <2> QED  BY <2>1, <2>2 DEF OwnFlows
<1>4. \A t \in Tabs : StateKnown(t)
  BY <1>1 DEF StateKnown, At
<1> QED  BY <1>3, <1>4, TypedBegins DEF SigningInv

LEMMA SigningKeeps == SigningInv /\ [SessionNext]_session_vars => SigningInv'
<1> SUFFICES ASSUME SigningInv, [SessionNext]_session_vars PROVE SigningInv'
  OBVIOUS
<1>1. Typed /\ Typed'
  BY TypedKeeps DEF SigningInv
<1>2. ASSUME UNCHANGED <<flows, stateJar, tabs, crossed>>, tick <= tick' PROVE SigningInv'
  <2>1. tick' \in Nat
    BY <1>1 DEF Typed
  <2>2. ASSUME NEW s \in Tabs PROVE StateKnown(s)'
    <3>1. InTheJar(s) => InTheJar(s)'
      BY <1>2 DEF InTheJar
    <3> QED  BY <1>1, <1>2, <2>1, <3>1, KeptKnown DEF SigningInv
  <2> QED  BY <1>1, <1>2, <2>2 DEF SigningInv, OwnFlows
<1>3. CASE SessionTick \/ SweepBegins \/ SweepDeletes \/ UNCHANGED session_vars
  <2>1. UNCHANGED <<flows, stateJar, tabs, crossed>>
    BY <1>3 DEF SessionTick, SweepBegins, SweepDeletes, session_vars, jars
  <2>2. tick' = tick \/ tick' = tick + 1
    BY <1>3 DEF SessionTick, SweepBegins, SweepDeletes, session_vars
  <2>3. tick <= tick'
    BY <1>1, <2>2 DEF Typed
  <2> QED  BY <1>2, <2>1, <2>3
<1>4. ASSUME NEW t \in Tabs, Abandon(t) \/ AnswerLost(t) \/ Leave(t) \/ LogoutAnswered(t)
      PROVE  SigningInv'
  <2>1. tabs' = [tabs EXCEPT ![t] = Away] /\ UNCHANGED <<tick, flows, stateJar, crossed>>
    BY <1>4 DEF Abandon, AnswerLost, Leave, LogoutAnswered, jars
  <2>2. Away.at \notin Signing
    BY DEF Away, Signing
  <2> QED  BY <1>1, <2>1, <2>2, ElsewhereKnown
<1>5. ASSUME NEW t \in Tabs, CallbackRefuses(t) \/ ExchangeFails(t) \/ OpenSession(t)
      PROVE  SigningInv'
  <2>1. tabs[t].at \in {"callback", "insert"} /\ UNCHANGED <<tick, flows, stateJar, crossed>>
    BY <1>5 DEF CallbackRefuses, ExchangeFails, OpenSession, At, jars
  <2>2. PICK got \in Gots :
          /\ tabs' = [tabs EXCEPT ![t] = [tabs[t] EXCEPT !.at = "answer", !.got = got]]
          /\ got = "no state" => At(t, "callback") /\ ~Matches(t)
    BY <1>5 DEF CallbackRefuses, ExchangeFails, OpenSession, Answer, At, Matches, Gots
  <2>3. Answer(t, got)
    BY <2>2 DEF Answer
  <2> QED  BY <1>1, <2>1, <2>2, <2>3, RefusalKnown
<1>6. ASSUME NEW t \in Tabs, RecordUser(t) \/ LogoutServed(t) PROVE SigningInv'
  <2>1. PICK step \in {"insert", "logged out"} :
          /\ tabs' = [tabs EXCEPT ![t] = [tabs[t] EXCEPT !.at = step]]
          /\ step = "insert" => At(t, "callback")
    BY <1>6 DEF RecordUser, LogoutServed
  <2>2. UNCHANGED <<tick, flows, stateJar, crossed>>
    BY <1>6 DEF RecordUser, LogoutServed, jars
  <2> DEFINE shape == [tabs[t] EXCEPT !.at = step]
  <2>3. shape.at = step /\ shape.flow = tabs[t].flow
    BY <1>1 DEF Typed, Shapes
  <2>4. shape.at \notin Signing \/ (shape.at = "insert" /\ At(t, "callback"))
    BY <2>1, <2>3 DEF Signing
  <2> QED  BY <1>1, <2>1, <2>2, <2>3, <2>4, ElsewhereKnown
<1>7. ASSUME NEW t \in Tabs, Contribute(t) \/ Logout(t) PROVE SigningInv'
  <2>1. PICK step \in {"signed in", "signed out", "logout"} :
          tabs' = [tabs EXCEPT ![t] = [Away EXCEPT !.at = step, !.carries = sessionJar]]
    BY <1>7 DEF Contribute, Logout
  <2>2. UNCHANGED <<tick, flows, stateJar, crossed>>
    BY <1>7 DEF Contribute, Logout, jars
  <2> DEFINE shape == [Away EXCEPT !.at = step, !.carries = sessionJar]
  <2>3. shape.at \notin Signing
    BY DEF Away, Signing
  <2> QED  BY <1>1, <2>1, <2>2, <2>3, ElsewhereKnown
<1> QED
  BY <1>1, <1>3, <1>4, <1>5, <1>6, <1>7, StartKnown, AnswerKnown, ReturnKnown DEF SessionNext

\* A visitor who consented is refused for want of the state only too late, or
\* across another sign-in of the browser.
THEOREM RefusedForCause == SessionSpec => []RefusedOnlyIfCrossed
<1>1. SigningInv => RefusedOnlyIfCrossed
  BY DEF SigningInv, StateKnown, RefusedOnlyIfCrossed, Crossed, TooLate
<1> QED  BY <1>1, SigningBegins, SigningKeeps, PTL DEF SessionSpec

-----------------------------------------------------------------------------
(* Types.                                                                  *)

\* What the invariants above leave out.
Bounded ==
  /\ tick \in 0..LastTick /\ users \subseteq Accounts
  /\ sweep \in Nat \cup {NotSweeping} /\ crossed \subseteq Flows

LEMMA BoundedKeeps ==
  ASSUME Typed, Bounded, [SessionNext]_session_vars
  PROVE  Bounded'
<1>1. tick \in 0..LastTick /\ users \subseteq Accounts
      /\ sweep \in Nat \cup {NotSweeping} /\ crossed \subseteq Flows
  BY DEF Bounded
<1>2. tick' \in 0..LastTick /\ (sweep' = sweep \/ sweep' = tick \/ sweep' = NotSweeping)
  <2>1. CASE SessionTick
    <3>1. tick' = tick + 1 /\ tick < LastTick /\ sweep' = sweep
      BY <2>1 DEF SessionTick
    <3>2. tick' \in 0..LastTick
      BY <1>1, <3>1, SessionAssumption
    <3> QED  BY <3>1, <3>2
  <2>2. CASE ~SessionTick
    <3>1. tick' = tick
      BY <2>2 DEF SessionNext, session_vars, SweepBegins, SweepDeletes, Start, Abandon, Return,
         CallbackRefuses, ExchangeFails, RecordUser, OpenSession, CallbackAnswered, AnswerLost,
         Contribute, Leave, Logout, LogoutServed, LogoutAnswered
    <3>2. sweep' = sweep \/ sweep' = tick \/ sweep' = NotSweeping
      BY <2>2 DEF SessionNext, session_vars, SweepBegins, SweepDeletes, Start, Abandon, Return,
         CallbackRefuses, ExchangeFails, RecordUser, OpenSession, CallbackAnswered, AnswerLost,
         Contribute, Leave, Logout, LogoutServed, LogoutAnswered
    <3> QED  BY <1>1, <3>1, <3>2
  <2> QED  BY <2>1, <2>2
<1>3. users' \subseteq Accounts
  <2>1. ASSUME NEW t \in Tabs, RecordUser(t) PROVE users' \subseteq Accounts
    <3>1. tabs[t].account \in Accounts
      BY <2>1 DEF RecordUser, Typed, Shapes
    <3> QED  BY <1>1, <2>1, <3>1 DEF RecordUser
  <2>2. users' = users \/ \E t \in Tabs : RecordUser(t)
    BY DEF SessionNext, session_vars, tables, SessionTick, SweepBegins, SweepDeletes, Start,
       Abandon, Return, CallbackRefuses, ExchangeFails, OpenSession, CallbackAnswered, AnswerLost,
       Contribute, Leave, Logout, LogoutServed, LogoutAnswered
  <2> QED  BY <1>1, <2>1, <2>2
<1>4. crossed' \subseteq Flows
  BY <1>1 DEF SessionNext, session_vars, SessionTick, SweepBegins, SweepDeletes, Start, Abandon,
     Return, CallbackRefuses, ExchangeFails, RecordUser, OpenSession, CallbackAnswered, AnswerLost,
     Contribute, Leave, Logout, LogoutServed, LogoutAnswered
<1>5. sweep' \in Nat \cup {NotSweeping}
  <2>1. tick \in Nat
    BY DEF Typed
  <2> QED  BY <1>1, <1>2, <2>1
<1> QED  BY <1>2, <1>3, <1>4, <1>5 DEF Bounded

\* Type correctness of the sign-ins.
THEOREM SessionTypeCorrect == SessionSpec => []SessionTypeOK
<1>1. SessionInit => Typed /\ SweepBehind /\ Bounded
  <2>1. SessionInit => Bounded
    BY SessionAssumption DEF SessionInit, Bounded, NotSweeping
  <2> QED  BY <2>1, TypedBegins, SweepBegunBehind
<1>2. Typed /\ SweepBehind /\ Bounded /\ [SessionNext]_session_vars
        => (Typed /\ SweepBehind /\ Bounded)'
  BY TypedKeeps, SweepStaysBehind, BoundedKeeps
<1>3. Typed /\ SweepBehind /\ Bounded => SessionTypeOK
  BY DEF Typed, SweepBehind, Bounded, SessionTypeOK, Shapes
<1> QED  BY <1>1, <1>2, <1>3, PTL DEF SessionSpec

-----------------------------------------------------------------------------
(* THE PUBLIC SAMPLE.                                                      *)

\* A request to flag a frame that has read and not written would bring no
\* frame too near one in the sample, except one it overlaps with.
RequestsSpaced ==
  \A p \in Patches : patches[p].on =>
    \A g \in flagged : Near(patches[p].frame, g) => {patches[p].frame, g} \in overlapped

SpacedInv ==
  /\ patches \in [Patches -> [frame : Taken \cup {None}, on : BOOLEAN]]
  /\ SpacedUnlessOverlapped /\ RequestsSpaced

\* A card that was submitted and not reopened has no box left to decide.
OnceInv ==
  /\ submitted \in Nat /\ OnceUnlessReopened
  /\ OnCard /\ submitted > 0 /\ ~reopened => Undecided = {}

\* A frame that is the whole sample is remembered as one that was.
AloneInv ==
  /\ flagged \subseteq Taken /\ nexts \in [Taken -> Taken \cup {None, Asked, Unanswered}]
  /\ patches \in [Patches -> [frame : Taken \cup {None}, on : BOOLEAN]]
  /\ \A p \in Patches : patches[p].on => patches[p].frame \in Taken
  /\ \A f \in Taken : flagged = {f} => f \in alone
  /\ FollowsItselfOnlyIfAlone

\* Where a retry stands: none yet, its fetch on the way, its frame on screen,
\* or given up with nothing on the way.
RetryInv ==
  /\ retries \in {0, 1} /\ retrying \in BOOLEAN /\ loading \in BOOLEAN
  /\ retries = 0 => ~retrying
  /\ retries = 1 => /\ ~loading \/ pull = NoPull
                    /\ retrying \/ (~loading /\ pull = NoPull)

-----------------------------------------------------------------------------
(* Spacing.                                                                *)

LEMMA SpacedBegins == PublicInit => SpacedInv
BY DEF PublicInit, SpacedInv, SpacedUnlessOverlapped, RequestsSpaced, NoPatch, Near

\* Nearness goes both ways.
LEMMA NearIsMutual ==
  ASSUME NEW f \in Int, NEW g \in Int
  PROVE  Near(f, g) => Near(g, f)
BY DEF Near

\* A request reads both sides of its frame.
LEMMA ReadsSpaced ==
  ASSUME SpacedInv, NEW p \in Patches, NEW f \in Taken, FlagReads(p, f)
  PROVE  SpacedInv'
<1>1. PICK on \in BOOLEAN : patches' = [patches EXCEPT ![p] =
        IF on /\ TooNear(f) THEN NoPatch ELSE [frame |-> f, on |-> on]]
  BY DEF FlagReads
<1>2. UNCHANGED <<flagged, overlapped>>
  BY DEF FlagReads
<1>3. patches' \in [Patches -> [frame : Taken \cup {None}, on : BOOLEAN]]
  BY <1>1 DEF SpacedInv, NoPatch
<1>4. patches'[p].on => patches'[p].frame = f /\ ~TooNear(f)
  BY <1>1 DEF SpacedInv, NoPatch
<1>5. \A q \in Patches \ {p} : patches'[q] = patches[q]
  BY <1>1 DEF SpacedInv
<1>6. RequestsSpaced'
  BY <1>2, <1>4, <1>5 DEF SpacedInv, RequestsSpaced, TooNear
<1>7. SpacedUnlessOverlapped'
  BY <1>2 DEF SpacedInv, SpacedUnlessOverlapped
<1> QED  BY <1>3, <1>6, <1>7 DEF SpacedInv

\* A write remembers each request it overlaps with.
LEMMA WritesSpaced ==
  ASSUME SpacedInv, AloneInv, NEW p \in Patches, FlagWrites(p)
  PROVE  SpacedInv'
<1> DEFINE f == patches[p].frame
<1>1. patches' \in [Patches -> [frame : Taken \cup {None}, on : BOOLEAN]]
  BY DEF FlagWrites, SpacedInv, NoPatch
<1>2. ~patches'[p].on /\ \A q \in Patches \ {p} : patches'[q] = patches[q]
  BY DEF FlagWrites, SpacedInv, NoPatch
<1>3. CASE patches[p].on
  <2>1. flagged' = flagged \cup {f}
    BY <1>3 DEF FlagWrites
  <2>2. overlapped \subseteq overlapped'
    BY <1>3 DEF FlagWrites
  <2>3. \A q \in Patches \ {p} : patches[q].on => {f, patches[q].frame} \in overlapped'
    BY <1>3 DEF FlagWrites
  <2>4. f \in Int /\ \A g \in flagged : g \in Int
    <3>1. \A x \in Taken : x \in Int
      BY PublicAssumption
    <3>2. f \in Taken /\ flagged \subseteq Taken
      BY <1>3 DEF AloneInv
    <3> QED  BY <3>1, <3>2
  <2>5. \A g \in flagged : Near(f, g) \/ Near(g, f) => {f, g} \in overlapped
    <3>1. ASSUME NEW g \in flagged, Near(f, g) \/ Near(g, f)
          PROVE  {f, g} \in overlapped
      <4>1. f \in Int /\ g \in Int
        BY <2>4
      <4>2. Near(f, g)
        BY <3>1, <4>1, NearIsMutual
      <4> QED  BY <1>3, <4>2 DEF SpacedInv, RequestsSpaced
    <3> QED  BY <3>1
  <2>6. ~Near(f, f)
    BY DEF Near
  <2>7. SpacedUnlessOverlapped'
    <3>1. ASSUME NEW g \in flagged', NEW h \in flagged', Near(g, h)
          PROVE  {g, h} \in overlapped'
      <4>1. CASE g \in flagged /\ h \in flagged
        BY <2>2, <3>1, <4>1 DEF SpacedInv, SpacedUnlessOverlapped
      <4>2. CASE g = f /\ h \in flagged
        BY <2>2, <2>5, <3>1, <4>2
      <4>3. CASE h = f /\ g \in flagged
        <5>1. {f, g} = {g, h}
          BY <4>3
        <5> QED  BY <2>2, <2>5, <3>1, <4>3, <5>1
      <4> QED  BY <2>1, <2>6, <3>1, <4>1, <4>2, <4>3
    <3> QED  BY <3>1 DEF SpacedUnlessOverlapped, Near
  <2>8. RequestsSpaced'
    <3>1. ASSUME NEW q \in Patches, patches'[q].on, NEW g \in flagged',
                 Near(patches'[q].frame, g)
          PROVE  {patches'[q].frame, g} \in overlapped'
      <4>1. q # p /\ patches'[q] = patches[q]
        BY <1>2, <3>1
      <4>2. CASE g \in flagged
        BY <2>2, <3>1, <4>1, <4>2 DEF SpacedInv, RequestsSpaced
      <4>3. CASE g = f
        <5>1. {f, patches[q].frame} = {patches'[q].frame, g}
          BY <4>1, <4>3
        <5> QED  BY <2>3, <3>1, <4>1, <5>1
      <4> QED  BY <2>1, <4>2, <4>3
    <3> QED  BY <3>1 DEF RequestsSpaced, Near
  <2> QED  BY <1>1, <2>7, <2>8 DEF SpacedInv
<1>4. CASE ~patches[p].on
  <2>1. flagged' \subseteq flagged /\ overlapped' = overlapped
    BY <1>4 DEF FlagWrites
  <2>2. SpacedUnlessOverlapped'
    BY <2>1 DEF SpacedInv, SpacedUnlessOverlapped, Near
  <2>3. RequestsSpaced'
    BY <1>2, <2>1 DEF SpacedInv, RequestsSpaced, Near
  <2> QED  BY <1>1, <2>2, <2>3 DEF SpacedInv
<1> QED  BY <1>3, <1>4

\* Nothing but a request touches what the spacing speaks of.
LEMMA SpacedKeeps ==
  ASSUME SpacedInv, AloneInv, [PublicNext]_public_vars
  PROVE  SpacedInv'
<1>1. CASE UNCHANGED flag_vars
  BY <1>1 DEF flag_vars, SpacedInv, SpacedUnlessOverlapped, RequestsSpaced, Near
<1>2. ASSUME NEW p \in Patches, NEW f \in Taken, FlagReads(p, f) PROVE SpacedInv'
  BY <1>2, ReadsSpaced
<1>3. ASSUME NEW p \in Patches, FlagWrites(p) PROVE SpacedInv'
  BY <1>3, WritesSpaced
<1>4. PublicNext =>
        \/ UNCHANGED flag_vars
        \/ \E p \in Patches : (\E f \in Taken : FlagReads(p, f)) \/ FlagWrites(p)
  BY DEF PublicNext, FramePullAnswered, FramePullFails, Prefetched, Collected, Skip,
         RuleBox, Undo, UnstageBox, TakesBack, FrameImageFails, CallServed, CallSucceeds,
         CallFails
<1> QED  BY <1>1, <1>2, <1>3, <1>4 DEF public_vars

-----------------------------------------------------------------------------
(* What follows what.                                                      *)

LEMMA AloneBegins == PublicInit => AloneInv
BY PublicAssumption
   DEF PublicInit, AloneInv, FollowsItselfOnlyIfAlone, NoPatch, None

\* A frame that arrives has its prefetch begin, which is no frame yet.
LEMMA PresentsFollows ==
  ASSUME AloneInv, NEW f \in Taken, Presents(f), UNCHANGED flag_vars
  PROVE  AloneInv'
<1>1. f # Asked
  BY PublicAssumption DEF Asked
<1>2. nexts' = nexts \/ nexts' = [nexts EXCEPT ![f] = Asked]
  BY DEF Presents
<1>3. nexts' \in [Taken -> Taken \cup {None, Asked, Unanswered}]
  BY <1>2 DEF AloneInv
<1>4. FollowsItselfOnlyIfAlone'
  BY <1>1, <1>2 DEF AloneInv, FollowsItselfOnlyIfAlone, flag_vars
<1> QED  BY <1>3, <1>4 DEF AloneInv, flag_vars

\* What is prefetched to follow a frame is another, unless there is none.
LEMMA PrefetchFollows ==
  ASSUME AloneInv, NEW f \in Taken, Prefetched(f)
  PROVE  AloneInv'
<1>1. PICK g \in SampleForNext(f) \cup {Unanswered} : nexts' = [nexts EXCEPT ![f] = g]
  BY DEF Prefetched
<1>2. UNCHANGED flag_vars
  BY DEF Prefetched
<1>3. g \in Taken \cup {Unanswered}
  BY <1>1 DEF AloneInv, SampleForNext, Sample
<1>4. g = f => f \in alone
  <2>1. f # Unanswered
    BY PublicAssumption DEF Unanswered
  <2>2. g = f => flagged = {f}
    BY <1>1, <2>1 DEF SampleForNext, Sample
  <2> QED  BY <2>2 DEF AloneInv
<1>5. nexts' \in [Taken -> Taken \cup {None, Asked, Unanswered}]
  BY <1>1, <1>3 DEF AloneInv
<1>6. FollowsItselfOnlyIfAlone'
  BY <1>1, <1>2, <1>4 DEF AloneInv, FollowsItselfOnlyIfAlone, flag_vars
<1> QED  BY <1>2, <1>5, <1>6 DEF AloneInv, flag_vars

LEMMA AloneKeeps == AloneInv /\ [PublicNext]_public_vars => AloneInv'
<1> SUFFICES ASSUME AloneInv, [PublicNext]_public_vars PROVE AloneInv'
  OBVIOUS
<1>1. CASE UNCHANGED flag_vars /\ UNCHANGED nexts
  BY <1>1 DEF flag_vars, AloneInv, FollowsItselfOnlyIfAlone
<1>2. ASSUME NEW p \in Patches, NEW f \in Taken, FlagReads(p, f) PROVE AloneInv'
  <2>1. PICK on \in BOOLEAN : patches' = [patches EXCEPT ![p] =
          IF on /\ TooNear(f) THEN NoPatch ELSE [frame |-> f, on |-> on]]
    BY <1>2 DEF FlagReads
  <2>2. UNCHANGED <<flagged, alone, nexts>>
    BY <1>2 DEF FlagReads
  <2> QED  BY <2>1, <2>2 DEF AloneInv, FollowsItselfOnlyIfAlone, NoPatch
<1>3. ASSUME NEW p \in Patches, FlagWrites(p) PROVE AloneInv'
  <2>1. patches' = [patches EXCEPT ![p] = NoPatch] /\ UNCHANGED nexts
    BY <1>3 DEF FlagWrites
  <2>2. flagged' \subseteq Taken
    BY <1>3 DEF FlagWrites, AloneInv
  <2>3. alone' = alone \cup {f \in Taken : flagged' = {f}}
    BY <1>3 DEF FlagWrites
  <2> QED  BY <2>1, <2>2, <2>3 DEF AloneInv, FollowsItselfOnlyIfAlone, NoPatch
<1>4. CASE FramePullAnswered
  <2>1. \E f \in Taken : Presents(f)
    BY <1>4 DEF FramePullAnswered, Sample, AloneInv
  <2> QED  BY <1>4, <2>1, PresentsFollows DEF FramePullAnswered
<1>5. ASSUME NEW f \in Taken, Prefetched(f) PROVE AloneInv'
  BY <1>5, PrefetchFollows
<1>6. ASSUME NEW f \in Taken, Collected(f) PROVE AloneInv'
  <2>1. nexts' = [nexts EXCEPT ![f] = None] /\ UNCHANGED flag_vars /\ f # None
    BY <1>6, PublicAssumption DEF Collected, None
  <2> QED  BY <2>1 DEF AloneInv, FollowsItselfOnlyIfAlone, flag_vars
<1>7. ASSUME NEW next, Advances(next), UNCHANGED flag_vars PROVE AloneInv'
  BY <1>1, <1>7, PresentsFollows DEF Advances
<1>8. PublicNext =>
        \/ UNCHANGED flag_vars /\ UNCHANGED nexts
        \/ \E p \in Patches : (\E f \in Taken : FlagReads(p, f)) \/ FlagWrites(p)
        \/ FramePullAnswered
        \/ \E f \in Taken : Prefetched(f) \/ Collected(f)
        \/ \E next : Advances(next) /\ UNCHANGED flag_vars
  BY DEF PublicNext, FramePullFails, Skip, RuleBox, Undo, UnstageBox, TakesBack,
         FrameImageFails, CallServed, CallSucceeds, CallFails
<1> QED  BY <1>1, <1>2, <1>3, <1>4, <1>5, <1>6, <1>7, <1>8 DEF public_vars

-----------------------------------------------------------------------------
(* Submissions.                                                            *)

LEMMA OnceBegins == PublicInit => OnceInv
BY DEF PublicInit, OnceInv, OnceUnlessReopened, OnCard

\* A frame that arrives starts its card afresh, or is the one on it.
LEMMA PresentsOnce ==
  ASSUME OnceInv, NEW f, Presents(f)
  PROVE  OnceInv'
<1>1. CASE f = shown /\ ~dead
  BY <1>1 DEF Presents, card_vars, OnceInv, OnceUnlessReopened, OnCard, Undecided, BoxesOf
<1>2. CASE ~(f = shown /\ ~dead)
  BY <1>2 DEF Presents, OnceInv, OnceUnlessReopened
<1> QED  BY <1>1, <1>2

\* The last box of a card that is being decided for the first time.
LEMMA RuleOnce ==
  ASSUME OnceInv, RuleBox
  PROVE  OnceInv'
<1>1. PICK box : /\ ruled' = ruled \cup {box}
                 /\ IF Undecided # {box} THEN UNCHANGED <<posts, submitted>>
                      ELSE submitted' = submitted + 1
  BY DEF RuleBox
<1>2. OnCard /\ Undecided # {} /\ UNCHANGED <<shown, dead, reopened>>
  BY DEF RuleBox
<1>3. submitted = 0 \/ reopened
  BY <1>2 DEF OnceInv
<1>4. Undecided' \subseteq Undecided \ {box}
  BY <1>1, <1>2 DEF Undecided, BoxesOf
<1>5. CASE Undecided # {box}
  <2>1. submitted' = submitted
    BY <1>1, <1>5
  <2> QED  BY <1>2, <1>3, <2>1 DEF OnceInv, OnceUnlessReopened
<1>6. CASE Undecided = {box}
  <2>1. submitted \in Nat /\ submitted' = submitted + 1
    BY <1>1, <1>6 DEF OnceInv
  <2>2. submitted' \in Nat /\ (submitted' <= 1 \/ reopened')
    BY <1>2, <1>3, <2>1
  <2>3. Undecided' = {}
    BY <1>4, <1>6
  <2> QED  BY <2>2, <2>3 DEF OnceInv, OnceUnlessReopened
<1> QED  BY <1>5, <1>6

\* A box taken back reopens the card, and no call is on its way.
LEMMA TakesBackOnce ==
  ASSUME OnceInv, ~Posting, NEW box, TakesBack(box)
  PROVE  OnceInv'
BY DEF TakesBack, OnceInv, OnceUnlessReopened, OnCard

LEMMA OnceKeeps == OnceInv /\ [PublicNext]_public_vars => OnceInv'
<1> SUFFICES ASSUME OnceInv, [PublicNext]_public_vars PROVE OnceInv'
  OBVIOUS
<1>1. CASE UNCHANGED <<shown, dead, card_vars>>
  BY <1>1 DEF card_vars, OnceInv, OnceUnlessReopened, OnCard, Undecided, BoxesOf
<1>2. CASE FramePullAnswered
  BY <1>2, PresentsOnce DEF FramePullAnswered
<1>3. CASE FramePullFails
  BY <1>3 DEF FramePullFails, OnceInv, OnceUnlessReopened, OnCard
<1>4. ASSUME NEW next, Advances(next) PROVE OnceInv'
  BY <1>1, <1>4, PresentsOnce DEF Advances
<1>5. CASE RuleBox
  BY <1>5, RuleOnce
<1>6. CASE Undo
  BY <1>6, TakesBackOnce DEF Undo
<1>7. ASSUME NEW box, UnstageBox(box) PROVE OnceInv'
  BY <1>7, TakesBackOnce DEF UnstageBox
<1>8. PublicNext =>
        \/ UNCHANGED <<shown, dead, card_vars>>
        \/ FramePullAnswered \/ FramePullFails \/ RuleBox \/ Undo
        \/ \E next : Advances(next)
        \/ \E box : UnstageBox(box)
  BY DEF PublicNext, FlagReads, FlagWrites, Prefetched, Collected, Skip, FrameImageFails,
         CallServed, CallSucceeds, CallFails
<1> QED  BY <1>1, <1>2, <1>3, <1>4, <1>5, <1>6, <1>7, <1>8 DEF public_vars

-----------------------------------------------------------------------------
(* Retries.                                                                *)

\* None and one are told apart.
LEMMA NoneIsNotOne ==
  0 \in {0, 1} /\ 0 + 1 \in {0, 1} /\ 0 + 1 = 1 /\ 0 # 1
OBVIOUS

LEMMA RetryBegins == PublicInit => RetryInv
BY NoneIsNotOne, Zenon DEF PublicInit, RetryInv

LEMMA RetryKeeps == RetryInv /\ [PublicNext]_public_vars => RetryInv'
<1> SUFFICES ASSUME RetryInv, [PublicNext]_public_vars PROVE RetryInv'
  OBVIOUS
<1>1. CASE UNCHANGED <<image, pull>>
  BY <1>1 DEF image, RetryInv
<1>2. CASE FramePullAnswered
  <2>1. loading' = TRUE /\ pull' = NoPull /\ pull # NoPull /\ UNCHANGED <<retrying, retries>>
    BY <1>2 DEF FramePullAnswered, Presents
  <2> QED  BY <2>1 DEF RetryInv
<1>3. CASE FramePullFails
  BY <1>3 DEF FramePullFails, image, RetryInv
<1>4. ASSUME NEW next, Advances(next) PROVE RetryInv'
  <2>1. retries' = 0 /\ retrying' = FALSE /\ (loading' = TRUE \/ loading' = loading)
    BY <1>4 DEF Advances, Presents
  <2> QED  BY <2>1, NoneIsNotOne, Zenon DEF RetryInv
<1>5. CASE FrameImageFails
  <2>1. loading /\ loading' = FALSE
    BY <1>5 DEF FrameImageFails
  <2>2. CASE retrying
    <3>1. retrying' = FALSE /\ UNCHANGED <<pull, retries>>
      BY <1>5, <2>2 DEF FrameImageFails
    <3> QED  BY <2>1, <2>2, <3>1, Zenon DEF RetryInv
  <2>3. CASE ~retrying
    <3>1. retrying' = TRUE /\ retries' = retries + 1
      BY <1>5, <2>3 DEF FrameImageFails
    <3>2. retries = 0
      BY <2>1, <2>3 DEF RetryInv
    <3>3. retries' = 1
      BY <3>1, <3>2
    <3> QED  BY <2>1, <3>1, <3>3, NoneIsNotOne, Zenon DEF RetryInv
  <2> QED  BY <2>2, <2>3
<1>6. PublicNext =>
        \/ UNCHANGED <<image, pull>>
        \/ FramePullAnswered \/ FramePullFails \/ FrameImageFails
        \/ \E next : Advances(next)
  BY DEF PublicNext, FlagReads, FlagWrites, Prefetched, Collected, Skip, RuleBox, Undo,
         UnstageBox, TakesBack, CallServed, CallSucceeds, CallFails
<1> QED  BY <1>1, <1>2, <1>3, <1>4, <1>5, <1>6 DEF public_vars

-----------------------------------------------------------------------------
(* The theorems.                                                           *)

\* Two frames too near each other are flagged together only by two requests
\* that overlapped.
THEOREM AlwaysSpaced == PublicSpec => []SpacedUnlessOverlapped
<1>1. PublicInit => SpacedInv /\ AloneInv
  BY SpacedBegins, AloneBegins
<1>2. SpacedInv /\ AloneInv /\ [PublicNext]_public_vars => (SpacedInv /\ AloneInv)'
  BY SpacedKeeps, AloneKeeps
<1>3. SpacedInv => SpacedUnlessOverlapped
  BY DEF SpacedInv
<1> QED  BY <1>1, <1>2, <1>3, PTL DEF PublicSpec

\* A frame is prefetched to follow itself only if it once was the whole sample.
THEOREM AloneIfFollowingItself == PublicSpec => []FollowsItselfOnlyIfAlone
<1>1. AloneInv => FollowsItselfOnlyIfAlone
  BY DEF AloneInv
<1> QED  BY <1>1, AloneBegins, AloneKeeps, PTL DEF PublicSpec

\* A frame that appeared is submitted once, unless its card was reopened.
THEOREM SubmittedOnce == PublicSpec => []OnceUnlessReopened
<1>1. OnceInv => OnceUnlessReopened
  BY DEF OnceInv
<1> QED  BY <1>1, OnceBegins, OnceKeeps, PTL DEF PublicSpec

\* A broken image is asked for once more, and not again until the visitor moves
\* on.
THEOREM RetriedAtMostOnce == PublicSpec => []RetriedOnce
<1>1. RetryInv => RetriedOnce
  BY DEF RetryInv, RetriedOnce
<1> QED  BY <1>1, RetryBegins, RetryKeeps, PTL DEF PublicSpec

-----------------------------------------------------------------------------
(* Types.                                                                  *)

Following == Taken \cup {None, Asked, Unanswered}

\* The frames: those flagged, the one shown, the one its fetch leaves out.
FramesOK ==
  /\ flags \in Nat /\ alone \subseteq Taken
  /\ shown \in Taken \cup {None} /\ pull \in Taken \cup {None, NoPull}
  /\ dead \in BOOLEAN

\* The card and the call.
CardOK ==
  /\ reopened \in BOOLEAN /\ calls \in Nat
  /\ OnCard => ruled \subseteq BoxesOf(shown) /\ latest \in ruled \cup {None}
  /\ Posting => call \in [at : {"sent", "taken", "refused"}, frame : Taken, next : Following]

\* A set of naturals that is not empty has a least one.
LEMMA LeastOf ==
  ASSUME NEW T \in SUBSET Nat, T # {}
  PROVE  \E m \in T : \A y \in T : m <= y
<1>1. PICK x \in T : \A y \in T : ~ (<<y, x>> \in OpToRel(<,Nat))
  BY NatLessThanWellFounded, WFMin, Zenon
<1>2. \A y \in T : ~ (y < x)
  BY <1>1 DEF OpToRel
<1> QED  BY <1>2

LEMMA FramesKeep ==
  ASSUME AloneInv, FramesOK, [PublicNext]_public_vars
  PROVE  FramesOK'
<1>1. flags \in Nat /\ alone \subseteq Taken
      /\ shown \in Taken \cup {None} /\ pull \in Taken \cup {None, NoPull} /\ dead \in BOOLEAN
  BY DEF FramesOK
<1>2. flags' \in Nat
  <2>1. flags' = flags \/ flags' = flags + 1
    BY DEF PublicNext, public_vars, flag_vars, FlagReads, FlagWrites, FramePullAnswered,
       FramePullFails, Prefetched, Collected, Skip, RuleBox, Undo, UnstageBox, TakesBack,
       FrameImageFails, CallServed, CallSucceeds, CallFails
  <2> QED  BY <1>1, <2>1
<1>3. alone' \subseteq Taken
  BY <1>1 DEF PublicNext, public_vars, flag_vars, FlagReads, FlagWrites, FramePullAnswered,
     FramePullFails, Prefetched, Collected, Skip, RuleBox, Undo, UnstageBox, TakesBack,
     FrameImageFails, CallServed, CallSucceeds, CallFails
<1>4. ASSUME UNCHANGED <<shown, pull, dead>>
      PROVE  shown' \in Taken \cup {None} /\ pull' \in Taken \cup {None, NoPull} /\ dead' \in BOOLEAN
  BY <1>1, <1>4
<1>5. ASSUME FramePullAnswered
      PROVE  shown' \in Taken \cup {None} /\ pull' \in Taken \cup {None, NoPull} /\ dead' \in BOOLEAN
  <2>1. PICK f \in Sample(pull) : Presents(f)
    BY <1>5 DEF FramePullAnswered
  <2>2. f \in Taken
    BY <2>1 DEF Sample, AloneInv
  <2> QED  BY <1>5, <2>1, <2>2 DEF FramePullAnswered, Presents
<1>6. ASSUME FramePullFails \/ FrameImageFails
      PROVE  shown' \in Taken \cup {None} /\ pull' \in Taken \cup {None, NoPull} /\ dead' \in BOOLEAN
  BY <1>1, <1>6 DEF FramePullFails, FrameImageFails
<1>7. ASSUME NEW next, Advances(next)
      PROVE  shown' \in Taken \cup {None} /\ pull' \in Taken \cup {None, NoPull} /\ dead' \in BOOLEAN
  BY <1>1, <1>7 DEF Advances, Presents
<1>8. \/ UNCHANGED <<shown, pull, dead>>
      \/ FramePullAnswered \/ FramePullFails \/ FrameImageFails
      \/ \E next : Advances(next)
  BY DEF PublicNext, public_vars, FlagReads, FlagWrites, Prefetched, Collected, Skip, RuleBox,
     Undo, UnstageBox, TakesBack, CallServed, CallSucceeds, CallFails
<1> QED  BY <1>2, <1>3, <1>4, <1>5, <1>6, <1>7, <1>8 DEF FramesOK

\* What the card holds is of the frame on it.
LEMMA CardKeeps ==
  ASSUME AloneInv, FramesOK, CardOK, [PublicNext]_public_vars
  PROVE  CardOK'
<1> DEFINE Held == OnCard => ruled \subseteq BoxesOf(shown) /\ latest \in ruled \cup {None}
           Calls == [at : {"sent", "taken", "refused"}, frame : Taken, next : Following]
           Called == Posting => call \in Calls
<1>0. reopened \in BOOLEAN /\ calls \in Nat /\ Held /\ Called
  BY DEF CardOK
<1>1. OnCard => shown \in Taken
  BY DEF OnCard, FramesOK
<1>2. ASSUME NEW f \in Taken, Presents(f) PROVE Held' /\ reopened' \in BOOLEAN
  <2>1. CASE f = shown /\ ~dead
    BY <1>0, <1>2, <2>1 DEF Presents, card_vars, OnCard, BoxesOf
  <2>2. CASE ~(f = shown /\ ~dead)
    BY <1>2, <2>2 DEF Presents
  <2> QED  BY <2>1, <2>2
<1>3. ASSUME UNCHANGED <<shown, dead, card_vars>> PROVE Held' /\ reopened' \in BOOLEAN
  BY <1>0, <1>3 DEF card_vars, OnCard, BoxesOf
<1>4. ASSUME NEW next, Advances(next) PROVE Held' /\ reopened' \in BOOLEAN
  BY <1>2, <1>3, <1>4 DEF Advances
<1>5. Held' /\ reopened' \in BOOLEAN
  <2>1. CASE FramePullAnswered
    BY <1>2, <2>1 DEF FramePullAnswered, Sample, AloneInv
  <2>2. CASE FramePullFails
    BY <1>0, <2>2 DEF FramePullFails, OnCard
  <2>3. CASE RuleBox
    <3>1. PICK box \in Undecided : ruled' = ruled \cup {box} /\ latest' = box
      <4>1. DEFINE box == CHOOSE b \in Undecided : \A other \in Undecided : b <= other
      <4>2. OnCard /\ ruled' = ruled \cup {box} /\ latest' = box /\ Undecided # {}
        BY <2>3 DEF RuleBox
      <4>3. Undecided \subseteq Nat
        BY <1>1, <4>2, PublicAssumption DEF Undecided, BoxesOf
      <4>4. box \in Undecided
        <5>1. \E b \in Undecided : \A other \in Undecided : b <= other
          BY <4>2, <4>3, LeastOf
        <5> QED  BY <5>1
      <4> QED  BY <4>2, <4>4
    <3>2. UNCHANGED <<shown, dead, reopened>> /\ OnCard
      BY <2>3 DEF RuleBox
    <3> QED  BY <1>0, <3>1, <3>2 DEF Undecided, OnCard, BoxesOf
  <2>4. ASSUME NEW box, TakesBack(box) PROVE Held' /\ reopened' \in BOOLEAN
    BY <1>0, <2>4 DEF TakesBack, OnCard, BoxesOf
  <2>5. \/ UNCHANGED <<shown, dead, card_vars>>
        \/ FramePullAnswered \/ FramePullFails \/ RuleBox
        \/ \E box : TakesBack(box)
        \/ \E next : Advances(next)
    BY DEF PublicNext, public_vars, FlagReads, FlagWrites, Prefetched, Collected, Skip, Undo,
       UnstageBox, FrameImageFails, CallServed, CallSucceeds, CallFails
  <2> QED  BY <1>3, <1>4, <2>1, <2>2, <2>3, <2>4, <2>5
<1>6. Called' /\ calls' \in Nat
  <2>1. CASE UNCHANGED posts
    BY <1>0, <2>1 DEF posts, Posting
  <2>2. CASE RuleBox /\ ~UNCHANGED posts
    <3>1. OnCard /\ calls' = calls + 1
          /\ call' = [at |-> "sent", frame |-> shown, next |-> nexts[shown]]
      BY <2>2 DEF RuleBox
    <3>2. nexts[shown] \in Following
      BY <1>1, <3>1 DEF AloneInv, Following
    <3> QED  BY <1>0, <1>1, <3>1, <3>2
  <2>3. CASE CallServed
    <3>1. PICK at \in {"taken", "refused"} : call' = [call EXCEPT !.at = at]
      BY <2>3, Zenon DEF CallServed
    <3>2. call \in Calls /\ UNCHANGED calls
      BY <1>0, <2>3 DEF CallServed, Posting
    <3>3. call' \in Calls
      BY <3>1, <3>2
    <3> QED  BY <1>0, <3>2, <3>3
  <2>4. CASE CallSucceeds \/ CallFails
    BY <1>0, <2>4 DEF CallSucceeds, CallFails, Posting
  <2>5. UNCHANGED posts \/ RuleBox \/ CallServed \/ CallSucceeds \/ CallFails
    BY DEF PublicNext, public_vars, FlagReads, FlagWrites, FramePullAnswered, FramePullFails,
       Prefetched, Collected, Skip, Undo, UnstageBox, TakesBack, FrameImageFails
  <2> QED  BY <2>1, <2>2, <2>3, <2>4, <2>5
<1> QED  BY <1>5, <1>6 DEF CardOK

\* Type correctness of the sample, the card and the call.
THEOREM PublicTypeCorrect == PublicSpec => []PublicTypeOK
<1> DEFINE Inv == SpacedInv /\ AloneInv /\ OnceInv /\ RetryInv /\ FramesOK /\ CardOK
<1>1. PublicInit => Inv
  <2> SUFFICES ASSUME PublicInit PROVE FramesOK /\ CardOK
    BY SpacedBegins, AloneBegins, OnceBegins, RetryBegins
  <2> QED  BY DEF PublicInit, FramesOK, CardOK, OnCard, Posting
<1>2. Inv /\ [PublicNext]_public_vars => Inv'
  BY SpacedKeeps, AloneKeeps, OnceKeeps, RetryKeeps, FramesKeep, CardKeeps
<1>3. Inv => PublicTypeOK
  <2> SUFFICES ASSUME Inv PROVE PublicTypeOK
    OBVIOUS
  <2>1. /\ flagged \subseteq Taken /\ alone \subseteq Taken
        /\ patches \in [Patches -> [frame : Taken \cup {None}, on : BOOLEAN]]
        /\ nexts \in [Taken -> Taken \cup {None, Asked, Unanswered}]
    BY DEF AloneInv, FramesOK
  <2>2. /\ flags \in Nat /\ calls \in Nat /\ submitted \in Nat
        /\ shown \in Taken \cup {None} /\ pull \in Taken \cup {None, NoPull}
        /\ dead \in BOOLEAN /\ reopened \in BOOLEAN
    BY DEF FramesOK, CardOK, OnceInv
  <2>3. retries \in Nat /\ retrying \in BOOLEAN /\ loading \in BOOLEAN
    <3>1. retries \in {0, 1} /\ retrying \in BOOLEAN /\ loading \in BOOLEAN
      BY Zenon DEF RetryInv
    <3>2. {0, 1} \subseteq Nat
      OBVIOUS
    <3> QED  BY <3>1, <3>2
  <2>4. /\ OnCard => ruled \subseteq BoxesOf(shown) /\ latest \in ruled \cup {None}
        /\ Posting => call.frame \in Taken /\ call.next \in Taken \cup {None, Asked, Unanswered}
    BY DEF CardOK, Following
  <2> QED  BY <2>1, <2>2, <2>3, <2>4 DEF PublicTypeOK
<1> QED  BY <1>1, <1>2, <1>3, PTL DEF PublicSpec
=============================================================================
