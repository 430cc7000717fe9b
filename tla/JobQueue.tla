------------------------------ MODULE JobQueue ------------------------------
(***************************************************************************)
(* The job queue: the API's handlers over the D1 database, the cron reaper *)
(* and the Go workers that poll it over HTTP.                              *)
(*                                                                         *)
(* A handler is one step when its writes are one D1 batch, and two when it *)
(* reads the lease first (fan-out and the four reports): the reaper and    *)
(* other handlers run in between.  A request is never retried by its       *)
(* client, but the client may stop waiting for it (a timeout, a cancelled  *)
(* context, a crash) and the API may still serve it later: such a request  *)
(* is a stray, one whose `live` is FALSE.                                  *)
(***************************************************************************)
EXTENDS JobTable

CONSTANTS
  SegmentCounts,  (* how many 60s segments a probed video may have          *)
  SampleBudget,   (* frames the automatic first pass samples, at most       *)
  AdminKinds,     (* the kinds of job an administrator enqueues             *)
  MaxJobs,        (* bound: no job is enqueued by hand past this many rows  *)
  MaxStray        (* bound: strays in flight at once                        *)

ASSUME CountsArePositive ==
  /\ SegmentCounts \subseteq Nat \ {0}
  /\ SampleBudget \in Nat \ {0}
  /\ MaxJobs \in Nat /\ MaxStray \in Nat
  /\ AdminKinds \subseteq {"prelabel", "dryrun", "snapshot"}

VARIABLES
  jobs,     (* the table                                                    *)
  chunks,   (* the chunks table; `reported` is frames_extracted IS NOT NULL *)
  images,   (* selection_reason of each image row, "none" for NULL          *)
  written,  (* history: <<job, attempt>> whose report batch has run         *)
  doomed,   (* history: <<job, attempt>> that ended in a Terminal error     *)
  worker,   (* what each worker is doing: its place in PollOnce, its job    *)
  net       (* requests sent and not yet answered                           *)

vars == <<jobs, chunks, images, written, doomed, worker, net>>
rows == <<chunks, images, written, doomed>>

Chunk == [job : Nat, video : Videos, segment : Segments, reported : BOOLEAN]

-----------------------------------------------------------------------------
(* Workers and requests.                                                   *)

Holding == {"working", "reporting", "reported"}   \* the heartbeat is running

WorkerState == [pc : {"idle", "claiming", "completing"} \cup Holding,
                job : Nat, attempt : Nat]

At(pc, job, attempt) == [pc |-> pc, job |-> job, attempt |-> attempt]
Idle == At("idle", 0, 0)

Request == [op : {"claim", "heartbeat", "report", "complete"},
            worker : Workers, job : Nat, attempt : Nat,
            status : {"none", "done", "failed"},
            segments : Nat, frames : SUBSET Frames,
            checked : BOOLEAN, live : BOOLEAN]

Ask(op, w) ==
  [op |-> op, worker |-> w, job |-> worker[w].job, attempt |-> worker[w].attempt,
   status |-> "none", segments |-> 0, frames |-> {},
   checked |-> FALSE, live |-> TRUE]

Live(w) == {r \in net : r.live /\ r.worker = w}
Beats(w) == {r \in Live(w) : r.op = "heartbeat"}
Strays(n) == {r \in n : ~r.live}

\* What may be in flight once the client of the requests S stops waiting:
\* each of them is lost or becomes a stray.
Cut(n, S) ==
  {m \in {(n \ S) \cup {[r EXCEPT !.live = FALSE] : r \in K} : K \in SUBSET S} :
     Cardinality(Strays(m)) <= MaxStray}

\* The client of r, if there still is one, goes on to `next`.
Answer(r, next) ==
  worker' = IF r.live THEN [worker EXCEPT ![r.worker] = next] ELSE worker

\* r is answered 404: a client still waiting drops the job, its heartbeat
\* with it, and says nothing more.
Refuse(r) ==
  /\ Answer(r, Idle)
  /\ IF r.live THEN net' \in Cut(net \ {r}, Live(r.worker) \ {r})
               ELSE net' = net \ {r}
  /\ UNCHANGED rows

-----------------------------------------------------------------------------
(* The worker.                                                             *)

Poll(w) ==
  /\ worker[w].pc = "idle"
  /\ worker' = [worker EXCEPT ![w].pc = "claiming"]
  /\ net' = net \cup {Ask("claim", w)}
  /\ UNCHANGED <<jobs, rows>>

\* keepLeaseAlive: one heartbeat at a time, while the work runs.
Beat(w) ==
  /\ worker[w].pc \in Holding
  /\ Beats(w) = {}
  /\ net' = net \cup {Ask("heartbeat", w)}
  /\ UNCHANGED <<jobs, rows, worker>>

\* A heartbeat that fails for any reason but 404 or cancellation is logged
\* and the beating goes on.
BeatFails(w) ==
  /\ Beats(w) # {}
  /\ net' \in Cut(net, Beats(w))
  /\ UNCHANGED <<jobs, rows, worker>>

\* Where a frame stands in a pool ordered by timestamp, from 0.
Rank(pool, f) == Cardinality({g \in pool : g[2] < f[2]})

\* The sampler's frames: the whole pool, or every n/budget-th frame of it.
Sample(pool) ==
  LET n == Cardinality(pool) IN
  IF n <= SampleBudget THEN pool
  ELSE {f \in pool : \E i \in 0 .. SampleBudget - 1 :
                       Rank(pool, f) = (i * n) \div SampleBudget}

PoolOf(v) == {f \in DOMAIN images : f[1] = v}

\* The frames a prelabel job runs on: the job's own list, else a sample.
FramesFor(row) ==
  CASE row.kind # "prelabel" -> {}
    [] row.kind = "prelabel" /\ row.frames # {} -> row.frames
    [] OTHER -> Sample(PoolOf(row.video))

\* The work got as far as reporting what it made; every kind of job reports
\* before it returns nil.
SendReport(w) ==
  LET row == jobs[worker[w].job] IN
  /\ worker[w].pc = "working"
  /\ \E n \in IF row.kind = "download" THEN SegmentCounts ELSE {0} :
       net' = net \cup {[Ask("report", w) EXCEPT !.segments = n,
                                                 !.frames = FramesFor(row)]}
  /\ worker' = [worker EXCEPT ![w].pc = "reporting"]
  /\ UNCHANGED <<jobs, rows>>

\* The completion goes out once the heartbeat has stopped.
SendComplete(w, status) ==
  /\ net' \in {n \cup {[Ask("complete", w) EXCEPT !.status = status]} :
                 n \in Cut(net, Live(w))}
  /\ worker' = [worker EXCEPT ![w].pc = "completing"]

\* Mistake: a job completed before its report is answered.
WorkSucceedsUnheard(w) ==
  /\ worker[w].pc \in {"reporting", "reported"}
  /\ SendComplete(w, "done")
  /\ UNCHANGED <<jobs, rows>>

WorkSucceeds(w) ==
  /\ worker[w].pc = "reported"
  /\ SendComplete(w, "done")
  /\ UNCHANGED <<jobs, rows>>

\* An error marked Terminal: an unavailable video, a source file that is not
\* on this box, a missing object.  A snapshot job has none.
WorkIsDoomed(w) ==
  /\ worker[w].pc = "working"
  /\ jobs[worker[w].job].kind # "snapshot"
  /\ SendComplete(w, "failed")
  /\ doomed' = doomed \cup {<<worker[w].job, worker[w].attempt>>}
  /\ UNCHANGED <<jobs, chunks, images, written>>

\* Mistake: an error worth retrying reported as a failure.
LetGoReporting(w) ==
  /\ worker[w].pc \in Holding
  /\ SendComplete(w, "failed")
  /\ UNCHANGED <<jobs, rows>>

\* The worker lets go of whatever it was doing and reports nothing: an error
\* worth retrying, a call that failed or timed out, a shutdown, a crash.
LetGo(w) ==
  /\ worker[w].pc # "idle"
  /\ worker' = [worker EXCEPT ![w] = Idle]
  /\ net' \in Cut(net, Live(w))
  /\ UNCHANGED <<jobs, rows>>

StrayLost(r) ==
  /\ ~r.live
  /\ net' = net \ {r}
  /\ UNCHANGED <<jobs, rows, worker>>

-----------------------------------------------------------------------------
(* The API's handlers.                                                     *)

ClaimGranted(r) ==
  /\ r.op = "claim"
  /\ \E id \in OldestPending(jobs) :
     /\ jobs' = Claim(jobs, id, r.worker)
     /\ Answer(r, At("working", id, jobs[id].attempts + 1))
  /\ net' = net \ {r}
  /\ UNCHANGED rows

ClaimEmpty(r) ==
  /\ r.op = "claim" /\ Pending(jobs) = {}
  /\ Answer(r, Idle)
  /\ net' = net \ {r}
  /\ UNCHANGED <<jobs, rows>>

HeartbeatRenews(r) ==
  /\ r.op = "heartbeat" /\ HeldBy(jobs, r.job, r.worker)
  /\ jobs' = Renew(jobs, r.job)
  /\ net' = net \ {r}
  /\ UNCHANGED <<rows, worker>>

HeartbeatRefused(r) ==
  /\ r.op = "heartbeat" /\ ~HeldBy(jobs, r.job, r.worker)
  /\ Refuse(r)
  /\ UNCHANGED jobs

\* The SELECT every report and the fan-out begin with.
ReportChecked(r) ==
  /\ r.op = "report" /\ ~r.checked
  /\ HeldBy(jobs, r.job, r.worker)
  /\ net' = (net \ {r}) \cup {[r EXCEPT !.checked = TRUE]}
  /\ UNCHANGED <<jobs, rows, worker>>

ReportRefused(r) ==
  /\ r.op = "report" /\ ~r.checked
  /\ ~HeldBy(jobs, r.job, r.worker)
  /\ Refuse(r)
  /\ UNCHANGED jobs

\* The second half, whose batch does not carry the lease.  The 400 for the
\* wrong kind of job cannot happen: the worker reports by its job's kind.
Write(r, kinds) ==
  /\ r.op = "report" /\ r.checked
  /\ jobs[r.job].kind \in kinds
  /\ written' = written \cup {<<r.job, r.attempt>>}
  /\ Answer(r, At("reported", r.job, r.attempt))
  /\ net' = net \ {r}
  /\ UNCHANGED doomed

\* Mistake: the inserts without their NOT EXISTS.
MissingUnguarded(v, n) == 0 .. n - 1

\* The segments for which the fan-out's guarded inserts insert.
Missing(v, n) ==
  {s \in 0 .. n - 1 : ~ \E c \in chunks : c.video = v /\ c.segment = s}

\* Fan-out: a chunk job and its chunks row for each segment that has none.
FanOut(r) ==
  LET v == jobs[r.job].video
      missing == Missing(v, r.segments)
      idOf(s) == Len(jobs) + Cardinality({t \in missing : t <= s})
  IN /\ Write(r, {"download"})
     /\ jobs' = jobs \o [k \in 1 .. Cardinality(missing) |->
                           NewRow("chunk", v, "none", {})]
     /\ chunks' = chunks \cup {[job |-> idOf(s), video |-> v, segment |-> s,
                                reported |-> FALSE] : s \in missing}
     /\ UNCHANGED images

\* The image rows are upserted whoever holds the lease by now, and an
\* existing row keeps its selection_reason; the chunk's counts are written
\* only under the lease.
ReportImages(r) ==
  /\ Write(r, {"chunk"})
  /\ LET mine == {<<c.video, c.segment>> : c \in {d \in chunks : d.job = r.job}} IN
     images' = [f \in DOMAIN images \cup mine |->
                  IF f \in DOMAIN images THEN images[f] ELSE "none"]
  /\ chunks' = IF HeldBy(jobs, r.job, r.worker)
                 THEN {IF c.job = r.job THEN [c EXCEPT !.reported = TRUE] ELSE c :
                         c \in chunks}
                 ELSE chunks
  /\ UNCHANGED jobs

\* Mistakes: a later pass stamps over an earlier one; every pass stamps the
\* literal 'random' that the automatic pass used to.
StampAlways(f, r) == IF f \in r.frames THEN jobs[r.job].selection ELSE images[f]
StampRandom(f, r) ==
  IF f \in r.frames /\ images[f] = "none" THEN "random" ELSE images[f]

\* The stamp is the job's selection_reason, on frames that have none.
Stamp(f, r) ==
  IF f \in r.frames /\ images[f] = "none" THEN jobs[r.job].selection ELSE images[f]

ReportPredictions(r) ==
  /\ Write(r, {"prelabel"})
  /\ images' = [f \in DOMAIN images |-> Stamp(f, r)]
  /\ UNCHANGED <<jobs, chunks>>

\* A dry-run's row is overwritten, a snapshot's is inserted: `written` counts.
ReportArtifact(r) ==
  /\ Write(r, {"dryrun", "snapshot"})
  /\ UNCHANGED <<jobs, chunks, images>>

\* Mistake: the enqueue ahead of the completion it depends on.
CompleteEnqueuesFirst(r) ==
  /\ r.op = "complete" /\ HeldBy(jobs, r.job, r.worker)
  /\ jobs' = Finish(EnqueueIfDue(jobs, r.job), r.job, r.status)
  /\ Answer(r, Idle)
  /\ net' = net \ {r}
  /\ UNCHANGED rows

CompleteAccepted(r) ==
  /\ r.op = "complete" /\ HeldBy(jobs, r.job, r.worker)
  /\ jobs' = EnqueueIfDue(Finish(jobs, r.job, r.status), r.job)
  /\ Answer(r, Idle)
  /\ net' = net \ {r}
  /\ UNCHANGED rows

\* The batch's second statement runs even when its first matched no row.
CompleteRefused(r) ==
  /\ r.op = "complete" /\ ~HeldBy(jobs, r.job, r.worker)
  /\ jobs' = EnqueueIfDue(jobs, r.job)
  /\ Refuse(r)

-----------------------------------------------------------------------------
(* Enqueueing by hand.                                                     *)

\* INSERT ... ON CONFLICT DO NOTHING under idx_jobs_one_download_per_video.
SubmitVideo(v) ==
  /\ Of(jobs, "download", v) = {}
  /\ jobs' = Append(jobs, NewRow("download", v, "none", {}))
  /\ UNCHANGED <<rows, worker, net>>

Enqueue(row) ==
  /\ row.kind \in AdminKinds
  /\ Len(jobs) < MaxJobs
  /\ jobs' = Append(jobs, row)
  /\ UNCHANGED <<rows, worker, net>>

\* A supplementary pass over frames no pass has stamped yet, picked by hand
\* or drawn.
CreatePrelabel(v) ==
  \E mode \in Modes :
    \E frames \in (SUBSET {f \in PoolOf(v) : images[f] = "none"}) \ {{}} :
      Enqueue(NewRow("prelabel", v, mode, frames))

CreateDryRun(v) ==
  /\ PoolOf(v) # {}
  /\ Enqueue(NewRow("dryrun", v, "none", {}))

CreateSnapshot == Enqueue(NewRow("snapshot", NoVideo, "none", {}))

-----------------------------------------------------------------------------
(* Time.                                                                   *)

Tick ==
  /\ \E i \in DOMAIN jobs : Older(jobs[i]) # jobs[i]
  /\ jobs' = AgeRows(jobs)
  /\ UNCHANGED <<rows, worker, net>>

ReapStaleJobs ==
  /\ \E i \in DOMAIN jobs : Stale(jobs[i])
  /\ jobs' = Reap(jobs)
  /\ UNCHANGED <<rows, worker, net>>

-----------------------------------------------------------------------------
(* The specification.                                                      *)

Init ==
  /\ jobs = <<>>
  /\ chunks = {} /\ images = [f \in {} |-> "none"]
  /\ written = {} /\ doomed = {}
  /\ worker = [w \in Workers |-> Idle]
  /\ net = {}

WorkerStep(w) ==
  \/ Poll(w) \/ Beat(w) \/ BeatFails(w) \/ SendReport(w)
  \/ WorkSucceeds(w) \/ WorkIsDoomed(w) \/ LetGo(w)

Handle(r) ==
  \/ ClaimGranted(r) \/ ClaimEmpty(r)
  \/ HeartbeatRenews(r) \/ HeartbeatRefused(r)
  \/ ReportChecked(r) \/ ReportRefused(r)
  \/ FanOut(r) \/ ReportImages(r) \/ ReportPredictions(r) \/ ReportArtifact(r)
  \/ CompleteAccepted(r) \/ CompleteRefused(r)

Next ==
  \/ \E w \in Workers : WorkerStep(w)
  \/ \E r \in net : Handle(r) \/ StrayLost(r)
  \/ \E v \in Videos : SubmitVideo(v) \/ CreatePrelabel(v) \/ CreateDryRun(v)
  \/ CreateSnapshot
  \/ Tick
  \/ ReapStaleJobs

Spec == Init /\ [][Next]_vars

\* The worker's loop keeps polling and its work ends; a call is answered or
\* times out (requestTimeout, reportTimeout); the cron fires.  An outage of
\* the API ends: claims that are sent again and again are not all lost.
Fairness ==
  /\ \A w \in Workers :
       /\ WF_vars(Poll(w))
       /\ WF_vars(SendReport(w) \/ WorkSucceeds(w))
       /\ WF_vars(LetGo(w) \/ \E r \in Live(w) : r.op # "heartbeat" /\ Handle(r))
  /\ SF_vars(\E r \in net : r.live /\ ClaimGranted(r))
  /\ WF_vars(Tick)
  /\ WF_vars(ReapStaleJobs)

FairSpec == Spec /\ Fairness

-----------------------------------------------------------------------------
(* Safety.                                                                 *)

\* Type correctness.
TypeOK ==
  /\ jobs \in Seq(Row)
  /\ chunks \subseteq Chunk
  /\ DOMAIN images \subseteq Frames
  /\ images \in [DOMAIN images -> Modes \cup {"none"}]
  /\ written \subseteq Nat \X Nat /\ doomed \subseteq Nat \X Nat
  /\ worker \in [Workers -> WorkerState]
  /\ net \subseteq Request

\* The columns of a lease agree, whatever order claims, completions and the
\* reaper ran in: a row names a holder and has a heartbeat exactly while it
\* is claimed, one waiting has an attempt left, and only an exhausted one
\* was failed by the reaper.
LeaseOK(row) ==
  /\ row.status = "claimed" <=> row.claimed_by # NoWorker
  /\ row.status = "claimed" <=> row.age # NoBeat
  /\ row.status = "failed" <=> row.failure # "none"
  /\ row.status = "pending" => row.attempts < MaxAttempts
  /\ row.status # "pending" => row.attempts \in 1 .. MaxAttempts
  /\ row.failure = "exhausted" => row.attempts = MaxAttempts

LeaseConsistent == \A i \in DOMAIN jobs : LeaseOK(jobs[i])

Believes(w) == worker[w].pc \in Holding \cup {"completing"}

\* Two workers may work on one job at once, a reaped one's and its
\* successor's, but never on the same attempt of it; and while the newest
\* attempt is claimed, the lease is that worker's.
AttemptExclusive ==
  \A w \in Workers : Believes(w) =>
    LET mine == worker[w] IN
    /\ mine.job \in DOMAIN jobs
    /\ mine.attempt \in 1 .. jobs[mine.job].attempts
    /\ (jobs[mine.job].status = "claimed" /\ jobs[mine.job].attempts = mine.attempt)
         => jobs[mine.job].claimed_by = w
    /\ \A x \in Workers \ {w} :
         Believes(x) => <<worker[x].job, worker[x].attempt>> # <<mine.job, mine.attempt>>

\* A job is done only if what one of its attempts made has been stored, even
\* though the report and the completion are separate calls that may be
\* refused, lost or served late.
DoneHasReport ==
  \A i \in DOMAIN jobs : jobs[i].status = "done" =>
    \E a \in 1 .. jobs[i].attempts : <<i, a>> \in written

\* A job fails because an attempt met a Terminal error or because all of
\* them were spent, never because of an error worth retrying.
TransientNeverFails ==
  \A i \in DOMAIN jobs : jobs[i].status = "failed" =>
    \/ jobs[i].failure = "exhausted"
    \/ \E a \in 1 .. jobs[i].attempts : <<i, a>> \in doomed

\* A row that is there changes neither what it asks for nor an outcome, and
\* its attempts are counted by the claim alone.
RowStep(old, new) ==
  /\ old.status \in {"done", "failed"} => new = old
  /\ <<new.kind, new.video, new.selection, new.frames>>
       = <<old.kind, old.video, old.selection, old.frames>>
  /\ new.attempts # old.attempts =>
       /\ old.status = "pending" /\ new.status = "claimed"
       /\ new.attempts = old.attempts + 1

\* A job that has ended stays as it ended, whatever late heartbeats, reports
\* and completions still arrive for it, and no row is ever dropped.
OutcomeNotOverturned ==
  [][/\ DOMAIN jobs \subseteq DOMAIN jobs'
     /\ \A i \in DOMAIN jobs : RowStep(jobs[i], jobs'[i])]_vars

-----------------------------------------------------------------------------
(* The pipeline of a video.                                                *)

\* Every chunks row belongs to a chunk job of its video, every chunk job has
\* one, and no segment has two: the claim would retire a job without one.
ChunkPairing ==
  /\ \A c \in chunks : c.job \in Of(jobs, "chunk", c.video)
  /\ \A i \in DOMAIN jobs : jobs[i].kind = "chunk" => \E c \in chunks : c.job = i
  /\ \A c, d \in chunks : c # d => c.job # d.job /\ <<c.video, c.segment>> # <<d.video, d.segment>>

Chunked(v) ==
  /\ Of(jobs, "chunk", v) # {}
  /\ \A c \in Of(jobs, "chunk", v) : jobs[c].status = "done"

\* No interleaving of completions misses that the last chunk is done: the
\* video then has a prelabel job.
LastChunkEnqueues == \A v \in Videos : Chunked(v) => Of(jobs, "prelabel", v) # {}

\* Nor do two of them both enqueue the automatic pass.
AutomaticPassOnce ==
  \A v \in Videos :
    Cardinality({i \in Of(jobs, "prelabel", v) : jobs[i].frames = {}}) <= 1

\* An image row stays, and its selection_reason is written once: neither a
\* re-run chunk, a late report nor another pass changes the stamp.
StampWriteOnce ==
  [][\A f \in DOMAIN images :
       /\ f \in DOMAIN images'
       /\ images[f] # "none" => images'[f] = images[f]]_vars

\* A stamp says how the frame was chosen: some pass of the video that chose
\* it so has reported it.
StampHasSource ==
  \A f \in DOMAIN images : images[f] # "none" =>
    \E i \in Of(jobs, "prelabel", f[1]) :
      /\ jobs[i].selection = images[f]
      /\ jobs[i].frames = {} \/ f \in jobs[i].frames
      /\ \E a \in 1 .. jobs[i].attempts : <<i, a>> \in written

-----------------------------------------------------------------------------
(* Refinement and liveness.                                                *)

Phase(row) == CASE row.status = "pending" -> "waiting"
                [] row.status = "claimed" -> "running"
                [] OTHER -> row.status

life == [i \in DOMAIN jobs |-> [phase |-> Phase(jobs[i]), tries |-> jobs[i].attempts]]

Lifecycle == INSTANCE JobLifecycle WITH MaxTries <- MaxAttempts, life <- life

\* The queue keeps the promise of JobLifecycle: oldest first, at most
\* MaxAttempts starts, and no end undone.
KeepsLifecycle == Lifecycle!Spec

\* The queue drains, again and again if more is enqueued: a crashed worker, a
\* lost completion or a doomed attempt strands no job.
JobsSettle == []<>(\A i \in DOMAIN jobs : jobs[i].status \in {"done", "failed"})

\* A submitted video gets its prelabel job, unless one of its jobs failed.
VideoIsPrelabelled ==
  \A v \in Videos :
    (Of(jobs, "download", v) # {}) ~>
      \/ Of(jobs, "prelabel", v) # {}
      \/ \E i \in DOMAIN jobs : jobs[i].video = v /\ jobs[i].status = "failed"

-----------------------------------------------------------------------------
(* What the repository's comments say of the queue, and it does not do.    *)

\* "A snapshot job runs once and its row is written once" (reportSnapshot's
\* description): no snapshot job inserts two snapshots rows.
SnapshotWrittenOnce ==
  \A i \in Of(jobs, "snapshot", NoVideo) :
    Cardinality({x \in written : x[1] = i}) <= 1

\* A supplementary pass "adds work on top of" the automatic one "rather than
\* replacing anything" the completion enqueues (admin-prelabel.ts): a video
\* whose chunks are done has its automatic pass.
AutomaticPassNotReplaced ==
  \A v \in Videos : Chunked(v) => \E i \in Of(jobs, "prelabel", v) : jobs[i].frames = {}

\* The write-once guard "should never actually have to fire for a request
\* that came through here" (admin-prelabel.ts): a supplementary pass that is
\* done has stamped each of its frames.
SupplementaryStampsAll ==
  \A v \in Videos : \A i \in Of(jobs, "prelabel", v) :
    jobs[i].status = "done" => \A f \in jobs[i].frames : images[f] = jobs[i].selection
=============================================================================
