------------------------------ MODULE VerdictList ------------------------------
(***************************************************************************)
(* The admin's list of verdicts: a table that is only ever added to, by    *)
(* administrators, contributors and visitors, read newest first, and the   *)
(* dialog that a click on a row opens.                                     *)
(*                                                                         *)
(* The dialog holds the id of the row and looks it up on the page at       *)
(* hand.  It is modal: while it is open, nothing behind it is clicked.     *)
(***************************************************************************)
EXTENDS PagedList

CONSTANTS
  MaxVerdicts,   (* bound: the rows of the table                            *)
  MaxBatch       (* bound: the rows one request adds                        *)

ASSUME VerdictAssumption == MaxVerdicts \in Nat /\ MaxBatch \in Nat

VARIABLE previewed     (* previewedId, 0 for null                          *)

verdict_list == <<list, previewed>>

DialogOpen == previewed \in DOMAIN PageShown.rows

\* submitVerdicts and its like: one batch, with ids above all there are.
Verdicts ==
  /\ \E n \in 1 .. MaxBatch :
       LET last == Cardinality(DOMAIN table) IN
       /\ last + n <= MaxVerdicts
       /\ \E new \in [last + 1 .. last + n -> Marks] :
            table' = [r \in 1 .. last + n |-> IF r <= last THEN table[r] ELSE new[r]]
  /\ UNCHANGED <<screen, client, previewed>>

Preview(r) ==
  /\ ~DialogOpen /\ previewed' = r
  /\ UNCHANGED list

Dismiss ==
  /\ DialogOpen /\ previewed' = 0
  /\ UNCHANGED list

LeaveList == CloseList /\ previewed' = 0

VerdictListInit ==
  /\ table \in UNION {[1 .. n -> Marks] : n \in 0 .. MaxVerdicts}
  /\ ScreenClosed /\ previewed = 0

VerdictListNext ==
  \/ Verdicts
  \/ (OpenList \/ Fetching) /\ UNCHANGED previewed
  \/ ~DialogOpen /\ Paging /\ UNCHANGED previewed
  \/ \E r \in DOMAIN PageShown.rows : Preview(r)
  \/ Dismiss \/ LeaveList

VerdictListSpec == VerdictListInit /\ [][VerdictListNext]_verdict_list

-----------------------------------------------------------------------------

\* VerdictPreviewDialog: "a click on a row" opens it, and the state "no row
\* selected" doubles as "not open".
OpensByClick == [][~DialogOpen /\ DialogOpen' => previewed' # previewed]_verdict_list
=============================================================================
