------------------------------- MODULE Sessions -------------------------------
(***************************************************************************)
(* Signing in and out of the contributor surface: the state cookie between *)
(* a start and its callback, the session cookie, the tables users and      *)
(* sessions, the check every contributor request passes, and the cron's    *)
(* sweep of what has expired.  One browser, whose tabs share its cookies;  *)
(* Google, which asks for consent and redeems a code once, is external.    *)
(*                                                                         *)
(* A request carries the cookies of the moment it is sent, and the cookies *)
(* of its answer are set when that arrives.                                *)
(***************************************************************************)
EXTENDS Integers, FiniteSets

CONSTANTS
  Tabs,
  Accounts,
  StateTTL,      (* OAUTH_STATE_TTL_SECONDS                                 *)
  SessionTTL,    (* SESSION_TTL_SECONDS                                     *)
  LastTick,      (* bound: the clock stops there                            *)
  MaxFlows,      (* bound: the sign-ins started                             *)
  NoAccount

ASSUME SessionAssumption ==
  /\ StateTTL \in Nat \ {0} /\ SessionTTL \in Nat \ {0}
  /\ LastTick \in Nat /\ MaxFlows \in Nat /\ NoAccount \notin Accounts

VARIABLES
  tick,
  flows,       (* how many sign-ins have started: the last state            *)
  stateJar,    (* the state cookie                                          *)
  sessionJar,  (* the session cookie: the flow that set it, or 0            *)
  tabs,        (* what each tab is doing                                    *)
  users,       (* by google_sub                                             *)
  sessions,    (* by the flow that opened them                              *)
  sweep,       (* the clock the cron read, or Never before it deletes       *)
  crossed      (* history: the flows whose cookie another's answer touched  *)

jars == <<stateJar, sessionJar>>
tables == <<users, sessions>>
session_vars == <<tick, flows, jars, tabs, tables, sweep, crossed>>

Flows == 1..MaxFlows
NotSweeping == -1
NoState == [flow |-> 0, until |-> 0]
Away == [at |-> "away", flow |-> 0, account |-> NoAccount, cookie |-> NoState,
         since |-> 0, carries |-> 0, got |-> "nothing"]
NoRowHere == [account |-> NoAccount, until |-> 0]

\* The browser sends a cookie until its Max-Age is over.
SentState == IF stateJar.until > tick THEN stateJar ELSE NoState

At(t, step) == tabs[t].at = step

-----------------------------------------------------------------------------
(* /start, and Google.                                                     *)

\* Mistake: a state cookie that is there already is kept.
StateKept(flow) == IF SentState # NoState THEN SentState
                   ELSE [flow |-> flow, until |-> tick + StateTTL]

StateSet(flow) == [flow |-> flow, until |-> tick + StateTTL]

\* The answer sets the state cookie, over another tab's.
Start(t) ==
  /\ At(t, "away") /\ flows < MaxFlows
  /\ flows' = flows + 1
  /\ stateJar' = StateSet(flows')
  /\ crossed' = crossed \cup {flow \in Flows : flow = stateJar.flow}
  /\ tabs' = [tabs EXCEPT ![t] = [Away EXCEPT !.at = "at google",
                                               !.flow = flows', !.since = tick]]
  /\ UNCHANGED <<tick, sessionJar, tables, sweep>>

\* Google sends the browser back, with a code or with an error.
Return(t, account) ==
  /\ At(t, "at google")
  /\ tabs' = [tabs EXCEPT ![t] = [@ EXCEPT !.at = "callback", !.account = account,
                                           !.cookie = SentState]]
  /\ UNCHANGED <<tick, flows, jars, tables, sweep, crossed>>

\* The tab is closed at Google's.
Abandon(t) ==
  /\ At(t, "at google")
  /\ tabs' = [tabs EXCEPT ![t] = Away]
  /\ UNCHANGED <<tick, flows, jars, tables, sweep, crossed>>

-----------------------------------------------------------------------------
(* /callback.                                                              *)

\* There is a state, and it is the one that went to Google.
Matches(t) == tabs[t].cookie.flow = tabs[t].flow

Answer(t, got) == tabs' = [tabs EXCEPT ![t] = [@ EXCEPT !.at = "answer", !.got = got]]

\* Declined, or no state, or another's.
CallbackRefuses(t) ==
  /\ At(t, "callback")
  /\ \/ tabs[t].account = NoAccount /\ Answer(t, "declined")
     \/ tabs[t].account # NoAccount /\ ~Matches(t) /\ Answer(t, "no state")
  /\ UNCHANGED <<tick, flows, jars, tables, sweep, crossed>>

\* Google cannot be reached, or rejects the code or the token.
ExchangeFails(t) ==
  /\ At(t, "callback") /\ Matches(t) /\ tabs[t].account # NoAccount
  /\ Answer(t, "not exchanged")
  /\ UNCHANGED <<tick, flows, jars, tables, sweep, crossed>>

\* The code is redeemed, for the verifier in the cookie, and the account is
\* recorded.
RecordUser(t) ==
  /\ At(t, "callback") /\ Matches(t) /\ tabs[t].account # NoAccount
  /\ users' = users \cup {tabs[t].account}
  /\ tabs' = [tabs EXCEPT ![t] = [@ EXCEPT !.at = "insert"]]
  /\ UNCHANGED <<tick, flows, jars, sessions, sweep, crossed>>

\* The session, or an isolate that goes away between the two statements.
OpenSession(t) ==
  /\ At(t, "insert")
  /\ \/ /\ sessions' = [sessions EXCEPT ![tabs[t].flow] =
                          [account |-> tabs[t].account, until |-> tick + SessionTTL]]
        /\ Answer(t, "session")
     \/ UNCHANGED sessions /\ Answer(t, "not exchanged")
  /\ UNCHANGED <<tick, flows, jars, users, sweep, crossed>>

\* Consumed regardless of the outcome: every answer deletes the state cookie
\* that is there by then.
CallbackAnswered(t) ==
  /\ At(t, "answer")
  /\ stateJar' = NoState
  /\ sessionJar' = IF tabs[t].got = "session" THEN tabs[t].flow ELSE sessionJar
  /\ crossed' = crossed \cup {flow \in Flows : flow = stateJar.flow /\ flow # tabs[t].flow}
  /\ tabs' = [tabs EXCEPT ![t] = Away]
  /\ UNCHANGED <<tick, flows, tables, sweep>>

\* The answer is lost: no cookie moves, and the session stays, nobody's.
AnswerLost(t) ==
  /\ At(t, "answer")
  /\ tabs' = [tabs EXCEPT ![t] = Away]
  /\ UNCHANGED <<tick, flows, jars, tables, sweep, crossed>>

-----------------------------------------------------------------------------
(* Signed in: requireUser, logout.                                         *)

\* requireUser: a row, and time left on it.
Accepted(flow) == flow \in Flows /\ sessions[flow].until > tick

Contribute(t) ==
  /\ At(t, "away") /\ sessionJar # 0
  /\ tabs' = [tabs EXCEPT ![t] =
       [Away EXCEPT !.at = IF Accepted(sessionJar) THEN "signed in" ELSE "signed out",
                    !.carries = sessionJar]]
  /\ UNCHANGED <<tick, flows, jars, tables, sweep, crossed>>

Leave(t) ==
  /\ tabs[t].at \in {"signed in", "signed out"}
  /\ tabs' = [tabs EXCEPT ![t] = Away]
  /\ UNCHANGED <<tick, flows, jars, tables, sweep, crossed>>

Logout(t) ==
  /\ At(t, "signed in")
  /\ tabs' = [tabs EXCEPT ![t] = [Away EXCEPT !.at = "logout", !.carries = sessionJar]]
  /\ UNCHANGED <<tick, flows, jars, tables, sweep, crossed>>

\* The row the cookie names goes, if there is one.
LogoutServed(t) ==
  /\ At(t, "logout")
  /\ sessions' = [flow \in Flows |-> IF flow = tabs[t].carries THEN NoRowHere
                                     ELSE sessions[flow]]
  /\ tabs' = [tabs EXCEPT ![t] = [@ EXCEPT !.at = "logged out"]]
  /\ UNCHANGED <<tick, flows, jars, users, sweep, crossed>>

\* The answer deletes the session cookie, or is lost.
LogoutAnswered(t) ==
  /\ At(t, "logged out")
  /\ sessionJar' \in {0, sessionJar}
  /\ tabs' = [tabs EXCEPT ![t] = Away]
  /\ UNCHANGED <<tick, flows, stateJar, tables, sweep, crossed>>

-----------------------------------------------------------------------------
(* The cron.  A failing reap of the leases ends it before the sweep.       *)

SweepBegins ==
  /\ sweep = NotSweeping
  /\ sweep' = tick
  /\ UNCHANGED <<tick, flows, jars, tabs, tables, crossed>>

\* Mistake: what is about to expire is swept too.
SweptEarly(row) == row.until <= sweep + 1

\* reapExpiredSessions: expired before the time it read.
Swept(row) == row.until < sweep

SweepDeletes ==
  /\ sweep # NotSweeping
  /\ sessions' = [flow \in Flows |-> IF Swept(sessions[flow]) THEN NoRowHere
                                     ELSE sessions[flow]]
  /\ sweep' = NotSweeping
  /\ UNCHANGED <<tick, flows, jars, tabs, users, crossed>>

SessionTick ==
  /\ tick < LastTick
  /\ tick' = tick + 1
  /\ UNCHANGED <<flows, jars, tabs, tables, sweep, crossed>>

-----------------------------------------------------------------------------

SessionInit ==
  /\ tick = 0 /\ flows = 0
  /\ stateJar = NoState /\ sessionJar = 0
  /\ tabs = [t \in Tabs |-> Away]
  /\ users = {} /\ sessions = [flow \in Flows |-> NoRowHere]
  /\ sweep = NotSweeping /\ crossed = {}

SessionNext ==
  \/ SessionTick \/ SweepBegins \/ SweepDeletes
  \/ \E t \in Tabs :
       \/ Start(t) \/ Abandon(t)
       \/ \E account \in Accounts \cup {NoAccount} : Return(t, account)
       \/ CallbackRefuses(t) \/ ExchangeFails(t) \/ RecordUser(t) \/ OpenSession(t)
       \/ CallbackAnswered(t) \/ AnswerLost(t)
       \/ Contribute(t) \/ Leave(t) \/ Logout(t) \/ LogoutServed(t) \/ LogoutAnswered(t)

SessionSpec == SessionInit /\ [][SessionNext]_session_vars

-----------------------------------------------------------------------------
(* Properties.                                                             *)

Steps == {"away", "at google", "callback", "insert", "answer",
          "signed in", "signed out", "logout", "logged out"}
Gots == {"nothing", "declined", "no state", "not exchanged", "session"}
States == [flow : 0..MaxFlows, until : Nat]

\* Type correctness.
SessionTypeOK ==
  /\ tick \in 0..LastTick /\ flows \in 0..MaxFlows
  /\ stateJar \in States /\ sessionJar \in 0..MaxFlows
  /\ tabs \in [Tabs -> [at : Steps, flow : 0..MaxFlows,
                        account : Accounts \cup {NoAccount}, cookie : States,
                        since : Nat, carries : 0..MaxFlows, got : Gots]]
  /\ users \subseteq Accounts
  /\ sessions \in [Flows -> [account : Accounts \cup {NoAccount}, until : Nat]]
  /\ sweep \in Nat \cup {NotSweeping} /\ crossed \subseteq Flows

\* A session that requireUser would let through goes only by a logout that
\* carries its cookie: the sweep, whose clock is read before its DELETE and
\* compared otherwise than the request's, takes none.
LiveGoesByLogout ==
  [][\A flow \in Flows :
       Accepted(flow) /\ sessions'[flow] = NoRowHere =>
         \E t \in Tabs : LogoutServed(t) /\ tabs[t].carries = flow]_session_vars

\* A visitor who consented is told of a missing or wrong state only if the
\* state's ten minutes were over, or the answer of another start or callback
\* of the same browser replaced or deleted it: a sign-in that was abandoned, or
\* that failed, never spoils the next by itself.
RefusedOnlyIfCrossed ==
  \A t \in Tabs :
    At(t, "answer") /\ tabs[t].got = "no state" =>
      tabs[t].flow \in crossed \/ tabs[t].since + StateTTL <= tick
=============================================================================
