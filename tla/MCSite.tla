-------------------------------- MODULE MCSite --------------------------------
(* Small instances of the screens and the tables behind them that share    *)
(* nothing with one another, side by side: the labelling pool, an          *)
(* administrator's walk through it, the dry-run panel, sign-in, the public *)
(* sample, and the list of verdicts.  `part` says which one runs; the      *)
(* others stay as they began.                                              *)
EXTENDS AdminWalk, DryRuns, Sessions, PublicSample, VerdictList

CONSTANT me

VARIABLE part

OneUser == {me}
TwoImages == {1, 2}
FirstPublic == {1}
UnevenBoxes == {<<1, 1>>, <<1, 2>>, <<2, 1>>}

TwoTabs == {"left", "right"}
OneAccount == {"visitor"}

\* Nearer to each other than the floor; the first has two boxes.
TwoFrames == {1, 2}
FirstHasTwo == [f \in TwoFrames |-> IF f = 1 THEN 2 ELSE 1]

walk_vars == <<deskScreen, heardHere, heardEver>>
site_vars == <<part, pool, walk_vars, dry_vars, session_vars, public_vars, verdict_list>>

\* The walk begins when one frame has been pre-labelled.
FirstReported ==
  /\ boxes = On(1, Boxes) /\ verdicts = {} /\ trusted = {}
  /\ unruled = [i \in Images |-> Cardinality(On(i, boxes))]
  /\ selection = [i \in Images |-> IF i = 1 THEN "random" ELSE "none"]

SiteInit ==
  /\ part \in {"pool", "desk", "dry runs", "sign-in", "sample", "verdicts"}
  /\ IF part = "desk" THEN FirstReported ELSE PoolInit
  /\ MountInit /\ DryInit /\ SessionInit /\ PublicInit /\ VerdictListInit
  /\ part # "sample" => flagged = {}
  /\ part # "verdicts" => table = <<>>

SiteNext ==
  /\ UNCHANGED part
  /\ \/ /\ part = "pool" /\ PoolNext
        /\ UNCHANGED <<walk_vars, dry_vars, session_vars, public_vars, verdict_list>>
     \/ /\ part = "desk" /\ DeskNext
        /\ UNCHANGED <<dry_vars, session_vars, public_vars, verdict_list>>
     \/ /\ part = "dry runs" /\ DryNext
        /\ UNCHANGED <<pool, walk_vars, session_vars, public_vars, verdict_list>>
     \/ /\ part = "sign-in" /\ SessionNext
        /\ UNCHANGED <<pool, walk_vars, dry_vars, public_vars, verdict_list>>
     \/ /\ part = "sample" /\ PublicNext
        /\ UNCHANGED <<pool, walk_vars, dry_vars, session_vars, verdict_list>>
     \/ /\ part = "verdicts" /\ VerdictListNext
        /\ UNCHANGED <<pool, walk_vars, dry_vars, session_vars, public_vars>>

SiteSpec == SiteInit /\ [][SiteNext]_site_vars
=============================================================================
