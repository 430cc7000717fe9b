------------------------------ MODULE JobTable ------------------------------
(***************************************************************************)
(* The `jobs` table of the D1 database and the SQL statements the API and  *)
(* the reaper run against it, as operators on a table value.  The table is *)
(* a sequence of rows: `id` is AUTOINCREMENT and no statement deletes a    *)
(* row, so the id of a row is its position.                                *)
(*                                                                         *)
(* Left out of a row: traceparent, created_at, updated_at, claimed_at,     *)
(* config_version and the text of failure_reason.  No statement's WHERE    *)
(* reads any of them.                                                      *)
(***************************************************************************)
EXTENDS Integers, Sequences, FiniteSets

CONSTANTS
  Workers,       (* the ids workers send as worker_id                      *)
  NoWorker,      (* claimed_by IS NULL                                     *)
  Videos,        (* the YouTube ids that may be submitted                  *)
  NoVideo,       (* video_id IS NULL: a snapshot job                       *)
  MaxAttempts,   (* MAX_ATTEMPTS of wrangler.toml                          *)
  LeaseStale     (* LEASE_STALE_SECONDS, in ticks of the clock             *)

\* reapOptions refuses any other value of the two thresholds.
ASSUME ThresholdsArePositive ==
  /\ MaxAttempts \in Nat \ {0}
  /\ LeaseStale \in Nat \ {0}

ASSUME NullsAreNoIds ==
  /\ NoWorker \notin Workers
  /\ NoVideo \notin Videos

-----------------------------------------------------------------------------
(* Rows.                                                                   *)

Kinds == {"download", "chunk", "prelabel", "dryrun", "snapshot"}
Statuses == {"pending", "claimed", "done", "failed"}
Modes == {"random", "manual", "diverse"}        \* images.selection_reason
Segments == Nat                                  \* chunks.segment_index
Frames == Videos \X Segments  \* one image stands for those a segment keeps

\* `age` is the time since heartbeat_at, counted no further than the first
\* age the reaper calls stale; NoBeat is heartbeat_at IS NULL.
NoBeat == -1
Ages == {NoBeat} \cup 0 .. LeaseStale + 1

\* `selection` and `frames` are selection_reason and the job's rows of
\* prelabel_images; `failure` says who failed the job, if it failed.
Row == [kind : Kinds, video : Videos \cup {NoVideo},
        status : Statuses, attempts : Nat,
        claimed_by : Workers \cup {NoWorker}, age : Ages,
        failure : {"none", "reported", "exhausted"},
        selection : Modes \cup {"none"}, frames : SUBSET Frames]

\* An inserted row: every column the INSERT does not name has its default.
NewRow(kind, video, selection, frames) ==
  [kind |-> kind, video |-> video, status |-> "pending", attempts |-> 0,
   claimed_by |-> NoWorker, age |-> NoBeat, failure |-> "none",
   selection |-> selection, frames |-> frames]

\* The ids of the rows of one kind for one video.
Of(js, kind, video) == {i \in DOMAIN js : js[i].kind = kind /\ js[i].video = video}

-----------------------------------------------------------------------------
(* Holding a lease.                                                        *)

\* Mistake: no lease in the WHERE.
HeldByAnyone(js, id, w) == id \in DOMAIN js

\* The predicate heartbeat, complete and every report carry.
HeldBy(js, id, w) ==
  /\ id \in DOMAIN js
  /\ js[id].status = "claimed"
  /\ js[id].claimed_by = w

Pending(js) == {i \in DOMAIN js : js[i].status = "pending"}

\* Mistake: ORDER BY id DESC.
NewestPending(js) == {i \in Pending(js) : \A k \in Pending(js) : i >= k}

\* SELECT id ... ORDER BY id LIMIT 1: one row, or none.
OldestPending(js) == {i \in Pending(js) : \A k \in Pending(js) : i <= k}

\* The claim of row `id`, which the handler takes to be the oldest pending.
Claim(js, id, w) ==
  [js EXCEPT ![id] = [@ EXCEPT !.status = "claimed", !.claimed_by = w,
                               !.age = 0, !.attempts = js[id].attempts + 1]]

Renew(js, id) == [js EXCEPT ![id] = [@ EXCEPT !.age = 0]]

\* Mistake: a finished row that still names its holder.
FinishHeld(js, id, status) ==
  [js EXCEPT ![id] = [@ EXCEPT !.status = status, !.age = NoBeat,
                               !.failure = IF status = "failed" THEN "reported"
                                                                ELSE "none"]]

\* The completion: the lease is cleared with the status.
Finish(js, id, status) ==
  [js EXCEPT ![id] = [@ EXCEPT !.status = status, !.claimed_by = NoWorker,
                               !.age = NoBeat,
                               !.failure = IF status = "failed" THEN "reported"
                                                                ELSE "none"]]

\* Mistake: the guard against a second automatic pass left out.
PrelabelDueAgain(js, id) ==
  /\ id \in DOMAIN js
  /\ js[id].kind = "chunk" /\ js[id].status = "done"
  /\ \A c \in Of(js, "chunk", js[id].video) : js[c].status = "done"

\* The second statement of the completion's batch, run on the table the
\* first one left: the video's automatic first pass, once its chunks are done.
PrelabelDue(js, id) ==
  /\ id \in DOMAIN js
  /\ js[id].kind = "chunk" /\ js[id].status = "done"
  /\ \A c \in Of(js, "chunk", js[id].video) : js[c].status = "done"
  /\ Of(js, "prelabel", js[id].video) = {}

EnqueueIfDue(js, id) ==
  IF PrelabelDue(js, id)
    THEN Append(js, NewRow("prelabel", js[id].video, "random", {}))
    ELSE js

-----------------------------------------------------------------------------
(* Time and the reaper.                                                    *)

\* Mistake: a lease on the last attempt is never taken back.
StaleBelowCeiling(row) ==
  row.status = "claimed" /\ row.age > LeaseStale /\ row.attempts < MaxAttempts

\* STALE_LEASE, a heartbeat that is NULL included.
Stale(row) == row.status = "claimed" /\ (row.age = NoBeat \/ row.age > LeaseStale)

\* One tick of the clock, seen by the rows that hold a heartbeat.
Older(row) ==
  IF row.age = NoBeat \/ row.age > LeaseStale THEN row
                                              ELSE [row EXCEPT !.age = @ + 1]

AgeRows(js) == [i \in DOMAIN js |-> Older(js[i])]

Release(row) == [row EXCEPT !.claimed_by = NoWorker, !.age = NoBeat]

\* Mistakes: a status the CHECK of the table does not know; an attempt given
\* back with the lease.
ReclaimedRetired(row) ==
  [Release(row) EXCEPT !.status = IF row.attempts < MaxAttempts
                                    THEN "pending" ELSE "retired"]
ReclaimedRefunding(row) ==
  [Release(row) EXCEPT !.status = "pending", !.attempts = row.attempts - 1]

\* What the reaper makes of a stale row: the two UPDATEs are disjoint on
\* attempts, and neither touches the counter.
Reclaimed(row) ==
  IF row.attempts < MaxAttempts
    THEN [Release(row) EXCEPT !.status = "pending"]
    ELSE [Release(row) EXCEPT !.status = "failed", !.failure = "exhausted"]

Reap(js) == [i \in DOMAIN js |-> IF Stale(js[i]) THEN Reclaimed(js[i]) ELSE js[i]]
=============================================================================
