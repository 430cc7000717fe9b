------------------------------- MODULE DryRuns -------------------------------
(***************************************************************************)
(* Trying a wording before it counts: the dry-runs of one class, from the  *)
(* panel that asks for them, over the API and the worker, to the panel     *)
(* that shows what they found.  The panel looks at one list at a time (the *)
(* runs of the frame picked, or of the whole class), each cached under its *)
(* own key; it polls while the newest run of that list is under way and    *)
(* not otherwise, and asking for a run has the list read again.            *)
(*                                                                         *)
(* The lists are cut at DRYRUN_HISTORY, which no bound here reaches.  A    *)
(* run is under way while its job is pending or claimed, reaped or not, and *)
(* settled when it is done or failed; what it found travels with that.     *)
(***************************************************************************)
EXTENDS Integers, FiniteSets, Sequences

CONSTANTS
  Picked,     (* the frames the panel may have picked                       *)
  MaxTries    (* bound: the dry-runs ever stored                            *)

ASSUME DryRunAssumption == IsFiniteSet(Picked) /\ MaxTries \in Nat

Whole == "whole class"
Views == Picked \cup {Whole}

VARIABLES
  tries,      (* dryruns, with the status of its job                        *)
  view,       (* the list on screen                                         *)
  lists,      (* the cached answer of each list                             *)
  pulls,      (* the request for each list, if one is in flight             *)
  order,      (* the request for a run, if one is in flight                 *)
  asked,      (* history: the runs whose creation the panel was told of     *)
  unheard     (* history: <<run, list>>, no request made since will show it *)

panel == <<view, lists, pulls, order>>
dry_vars == <<tries, panel, asked, unheard>>

NoList == [known |-> FALSE, shown |-> <<>>]
NotPulling == [at |-> "none", shown |-> <<>>]
Pulling == [at |-> "sent", shown |-> <<>>]
NoOrder == [at |-> "none", about |-> Whole, id |-> 0]

Listed(v) == {r \in DOMAIN tries : v = Whole \/ tries[r].about = v}

\* The rows of a list, by the run's id: what SELECT_DRYRUNS joins.
ReadList(v) == [r \in Listed(v) |-> tries[r].status]

NewestShown(list) ==
  CHOOSE r \in DOMAIN list.shown : \A s \in DOMAIN list.shown : s <= r

\* `running`, and the refetchInterval: the newest run of the list alone.
Polled(v) ==
  /\ lists[v].known /\ DOMAIN lists[v].shown # {}
  /\ lists[v].shown[NewestShown(lists[v])] = "under way"

-----------------------------------------------------------------------------
(* The panel.                                                              *)

\* Picking a frame, another mode or another video: the list is read when it
\* comes on screen, unless it is being read.
Look(v) ==
  /\ v # view /\ view' = v
  /\ pulls' = [pulls EXCEPT ![v] = IF @ = NotPulling THEN Pulling ELSE @]
  /\ UNCHANGED <<tries, lists, order, asked, unheard>>

\* The poll's interval, or the window's focus at any time.
Repull ==
  /\ pulls[view] = NotPulling
  /\ pulls' = [pulls EXCEPT ![view] = Pulling]
  /\ UNCHANGED <<tries, view, lists, order, asked, unheard>>

OrderRun ==
  /\ order = NoOrder /\ ~Polled(view)
  /\ order' = [at |-> "sent", about |-> view, id |-> 0]
  /\ UNCHANGED <<tries, view, lists, pulls, asked, unheard>>

\* Mistake: a request in flight is left to answer.
RestartedNever(v) == FALSE

\* invalidateQueries cancels a request in flight only for the list on screen,
\* and only if there is a list to show meanwhile.
Restarted(v) == v = view /\ lists[v].known

\* The 201.  A request that was in flight and goes on may have been read
\* before the run was stored.
OrderAnswered ==
  /\ order.at = "stored"
  /\ LET run == order.id
         restarted == {v \in Views : v = view /\ (pulls[v] = NotPulling \/ Restarted(v))}
     IN /\ pulls' = [v \in Views |-> IF v \in restarted THEN Pulling ELSE pulls[v]]
        /\ unheard' = unheard \cup
             {<<run, v>> : v \in {v \in Views \ restarted : pulls[v] # NotPulling
                                                            /\ (lists[v].known => v # view)}}
        /\ asked' = asked \cup {run}
  /\ order' = NoOrder
  /\ UNCHANGED <<tries, view, lists>>

\* The answer is an error or is lost, the run stored or not: nothing is read.
OrderFails ==
  /\ order # NoOrder
  /\ order' = NoOrder
  /\ UNCHANGED <<tries, view, lists, pulls, asked, unheard>>

PullArrives(v) ==
  /\ pulls[v].at = "read"
  /\ lists' = [lists EXCEPT ![v] = [known |-> TRUE, shown |-> pulls[v].shown]]
  /\ pulls' = [pulls EXCEPT ![v] = NotPulling]
  /\ unheard' = {u \in unheard : u[2] = v => u[1] \notin DOMAIN pulls[v].shown}
  /\ UNCHANGED <<tries, view, order, asked>>

\* The cached list stays, and the panel never looks at the error.
PullFails(v) ==
  /\ pulls[v] # NotPulling
  /\ pulls' = [pulls EXCEPT ![v] = NotPulling]
  /\ unheard' = unheard \cup
       {<<r, v>> : r \in {r \in asked \cap Listed(v) : r \notin DOMAIN lists[v].shown}}
  /\ UNCHANGED <<tries, view, lists, order, asked>>

-----------------------------------------------------------------------------
(* The API.                                                                *)

Stored(about) == Append(tries, [about |-> about, status |-> "under way"])

\* The job and its work definition, in one batch.
StoreRun ==
  /\ order.at = "sent" /\ Len(tries) < MaxTries
  /\ tries' = Stored(order.about)
  /\ order' = [order EXCEPT !.at = "stored", !.id = Len(tries')]
  /\ UNCHANGED <<view, lists, pulls, asked, unheard>>

\* Another page of the same class asks for one.
StoreRunElsewhere(about) ==
  /\ Len(tries) < MaxTries
  /\ tries' = Stored(about)
  /\ UNCHANGED <<panel, asked, unheard>>

ServePull(v) ==
  /\ pulls[v].at = "sent"
  /\ pulls' = [pulls EXCEPT ![v] = [at |-> "read", shown |-> ReadList(v)]]
  /\ UNCHANGED <<tries, view, lists, order, asked, unheard>>

-----------------------------------------------------------------------------
(* The worker and the reaper, as far as a dry-run shows them.              *)

\* Reported and completed, or failed, by the worker or at the reaper's ceiling,
\* and not the oldest first: a run reaped back may end after a later one.
SettleRun(r) ==
  /\ tries[r].status = "under way"
  /\ tries' = [tries EXCEPT ![r].status = "settled"]
  /\ UNCHANGED <<panel, asked, unheard>>

-----------------------------------------------------------------------------

DryInit ==
  /\ tries = <<>>
  /\ view = Whole
  /\ lists = [v \in Views |-> NoList]
  /\ pulls = [v \in Views |-> IF v = Whole THEN Pulling ELSE NotPulling]
  /\ order = NoOrder /\ asked = {} /\ unheard = {}

DryNext ==
  \/ \E v \in Views : Look(v) \/ ServePull(v) \/ PullArrives(v) \/ PullFails(v)
  \/ Repull \/ OrderRun \/ OrderAnswered \/ OrderFails \/ StoreRun
  \/ \E about \in Views : StoreRunElsewhere(about)
  \/ \E r \in DOMAIN tries : SettleRun(r)

DrySpec == DryInit /\ [][DryNext]_dry_vars

-----------------------------------------------------------------------------
(* Properties.                                                             *)

Statuses == {"under way", "settled"}
Shows(rows) ==
  /\ DOMAIN rows \subseteq 1..MaxTries
  /\ \A r \in DOMAIN rows : rows[r] \in Statuses

\* Type correctness.
DryTypeOK ==
  /\ tries \in Seq([about : Views, status : Statuses])
  /\ view \in Views
  /\ \A v \in Views : /\ lists[v].known \in BOOLEAN /\ Shows(lists[v].shown)
                      /\ pulls[v].at \in {"none", "sent", "read"} /\ Shows(pulls[v].shown)
  /\ order \in [at : {"none", "sent", "stored"}, about : Views, id : 0..MaxTries]
  /\ asked \subseteq DOMAIN tries
  /\ unheard \subseteq asked \X Views

\* A run the panel was told is queued, and that belongs to the list on screen,
\* does not stay unsettled there in silence: the list shows how it ended, or is
\* polled, or is being read.  Except a run overtaken by a newer one of the list,
\* which the poll follows instead, and a run whose reading failed or began
\* before it was stored, until the list is read again.
NewestIsWatched ==
  \A r \in asked :
    LET list == lists[view] IN
    (r \in Listed(view) /\ <<r, view>> \notin unheard
       /\ \A s \in DOMAIN list.shown : s <= r)
    => \/ r \in DOMAIN list.shown /\ list.shown[r] = "settled"
       \/ Polled(view)
       \/ pulls[view] # NotPulling
=============================================================================
