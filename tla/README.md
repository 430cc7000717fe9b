# A TLA+ model of crowdmon

Crowdmon turns submitted videos into labelled frames. A Cloudflare Worker (the API,
TypeScript over a D1 database) keeps a job queue; Go workers at home poll it over HTTP,
download the video, cut it into one-minute chunks, extract and deduplicate frames and
run a detector over a sample of them; a cron takes back the jobs of workers that went
silent; administrators and contributors rule on the detector's boxes in a web app.

This directory models the parts of the program whose correctness depends on the order of
steps taken by several processes (the job queue with its workers, the pools of boxes
that wait for a ruling and the screens that walk through them, sign-in, the class
roster, the worker's disk, the evaluation data and the snapshots made of it) and the
algorithms whose correctness is arithmetic. It checks them with TLC on small instances,
and proves with TLAPS every safety property that a passing run checks, for all
instances; one of them, `WalkRulesAll`, under a hypothesis.

## Inventory

| Part | State | Operations | Talks to |
| --- | --- | --- | --- |
| Job queue API (`routes/jobs.ts`) | `jobs`, `chunks`, `images`, `predictions`, `dryruns`, `snapshots` | claim, heartbeat, fan-out, four reports, complete | workers (HTTP), D1 |
| Reaper and cron (`reaper.ts`, `scheduled.ts`) | none of its own | re-queue or retire stale leases, sweep sessions | D1 |
| Worker runner and loop (`worker/runner.go`, `loop.go`) | the job in hand, its heartbeat | poll, beat, complete, let go | the API |
| Worker pipeline (`worker/pipeline.go`, `queue/queue.go`) | files of the job | download, chunk, prelabel, dry-run, snapshot | the API, R2, yt-dlp, ffmpeg, the detector |
| Frame sampler (`sample/sample.go`) | none | every n/budget-th frame | the API |
| Video submission (`routes/videos.ts`) | `videos`, one download job each | submit | D1 |
| Supplementary passes (`routes/admin-prelabel.ts`, `selection.ts`) | `prelabel_images` | enqueue a pass over chosen frames | D1 |
| Dry-runs, snapshots (`admin-dryruns.ts`, `admin-snapshots.ts`) | their rows | enqueue | D1 |
| Verdicts and labelling pools (`admin-verdicts.ts`, `admin-labelling.ts`, `contribute.ts`, `public.ts`) | `verdicts`, `images.unruled_admin`, a client's cursor | batch, submit, re-rule | the web app |
| Ground truth and evaluation (`admin-ground-truth.ts`, `admin-eval.ts`, `worker/eval`) | `ground_truth`, `ground_truth_exhaustive` | draw, delete, mark, list what is unmarked, score | the annotation screen, the eval command, snapshots |
| Snapshot build (`jobs.ts`, `snapshot/builder.go`) | objects and a manifest under the job's prefix, `snapshots` | read the dataset in four batches, copy, write the manifest, report | the API, R2 |
| Classes and prompts (`admin-classes.ts`, `prompt-version.ts`) | `classes` | create, reword, activate, retire | the roster page, prelabel jobs |
| Contributor accounts (`auth.ts`, `session.ts`, `session-reaper.ts`) | `users`, `sessions`, two cookies | start, callback, check, logout, sweep | Google, the cron, several tabs |
| Source-video store (`video/store.go`) | files on the worker's disk | download, find, prune | the pipeline |
| Frame extraction and upload (`frames/`) | objects in the bucket | extract, deduplicate, upload | the pipeline, R2 |
| Public sample (`admin-images.ts`, `public.ts`, `PublicVerify.tsx`) | `images.public_sample`, the visitor's card and two caches | flag, draw, prefetch, rule, submit | administrators, visitors |
| Contributor screen (`ContributeVerify.tsx`, `SwipeCard.tsx`, `queries.ts`) | fetched pages, the index into the walk, staged rulings | fetch ahead, swipe, undo, submit, start over | the API |
| Admin's labelling screen (`LabellingSession.tsx`) | a cached batch, what has been ruled since | stage, submit, next batch | the API |
| Annotation screen (`GroundTruthSession.tsx`) | the batch, the place in it, writes in flight | walk, draw, delete, mark | the API |
| Dry-run panel (`DryRunPanel.tsx`) | one cached list a frame, a poll | look, order a run | the API |
| Admin's list of verdicts (`listVerdictsHandler`, `Annotations.tsx`) | a filter, an offset, a cached page for each, the previewed id | filter, turn, preview | everybody who rules |
| Admin's frame grid (`admin-video-images.ts`, `VideoDetail.tsx`) | the same, and the ticked frames | filter, turn, tick, order a pass | supplementary passes, the pipeline |
| Algorithms (`segmentsFor`, `sample.go`, `dedup.go`, `selection.ts`, `eval.go`) | none | cut, draw, deduplicate, pick, score | their callers |

The hard behaviour is in the first seven rows. No call is retried by its client, but a
client gives up on a call after a timeout and the API may serve it long after; a worker
may crash or lose its network at any point; the reaper hands its job to somebody else
while it may still be working; the lease is checked in one statement and used in
another; and what a video needs next is found out by whichever completion happens to be
the last. What makes these parts correct is listed under *Properties* below; the
hazards, each at its line, are in `PROJECT.json`.

Labelling has its own: a counter denormalised from two tables by two writers, a pool
whose membership hangs on who is trusted now, a cursor that wraps around a shrinking and
growing pool, reads that are not one transaction, and a client that keeps a walk of its
own over pages of different ages.

The smaller parts have one hazard each, mostly of the same kind: something is read, time
passes, and it is used. A screen filters a cached batch by what it has sent since, or
walks a list that its own writes shorten; a poll stops while something is still under
way; a list is paged by offset while it grows or shrinks; two tabs share a cookie; a spacing check and its write are two statements; a
rewording reads, counts and writes back; an export reads what annotators are writing;
a download prunes what a chunk job is about to need. A dead build leaves objects under
the prefix it will use again. And an off-by-one in a cut or a draw would lose frames in
silence.

## Modules

| Module | What it is |
| --- | --- |
| `JobTable` | the `jobs` table as a sequence of rows, and each SQL statement over it as an operator |
| `JobQueue` | the handlers, the workers, the requests between them and the cron, as actions; all properties |
| `JobLifecycle` | the abstract specification: what the queue promises of a job, with no leases, workers or messages |
| `JobQueueProofs` | theorems about `JobQueue`: its types, its leases, its outcomes, that it implements `JobLifecycle`, attempts at a job and what ends one |
| `JobPipelineProofs` | extends `JobQueueProofs`: chunks, the automatic pass, stamps |
| `LabellingPool` | the tables of the labelling pools, their three writers and the two readings of them |
| `ContributeWalk` | extends `LabellingPool` with one contributor's screen, its page query and the batch endpoint read by read |
| `AdminWalk` | extends `LabellingPool` with the administrator's labelling screen and its endpoint |
| `PublicSample` | the flags of the public sample and one visitor's page |
| `Sessions` | sign-in, the session check, logout and the sweep, for the tabs of one browser |
| `DryRuns` | the dry-run panel, its lists and the runs behind them |
| `PagedList` | a filtered list read a page at a time: the handler's batch, the query cache, the screen |
| `VerdictList` | extends `PagedList` with the table of verdicts and the preview dialog |
| `FrameGrid` | extends `PagedList` with a video's frames, the three pass buttons, the enqueue and the passes |
| `SourceStore` | the worker's disk, the bucket and the jobs that use them |
| `PromptVersions` | the roster, its updates statement by statement, and the versions stamped on boxes |
| `GroundTruth` | the annotation tables, their writers and readers |
| `GroundTruthWalk` | extends `GroundTruth` with the annotation screen |
| `Evaluation` | extends `GroundTruth` with verdicts, the snapshot's reads, its build and its report |
| `Sampling` | segments, the systematic draw, deduplication and the farthest-point draw, as functions |
| `Scoring` | average precision, as a function |
| `LabellingPoolProofs` | theorems about `LabellingPool`, `AdminWalk` and `ContributeWalk` |
| `VisitorsProofs` | theorems about `Sessions` and `PublicSample` |
| `ClassesProofs` | theorems about `PromptVersions`, `DryRuns` and `VerdictList` |
| `FramesProofs` | theorems about `SourceStore`, `Sampling` and `FrameGrid` |
| `EvaluationProofs` | theorems about `Evaluation` and `GroundTruthWalk` |
| `DatasetProofs` | theorems about hashes in `Sampling`, about `Scoring`, the types of `GroundTruthWalk`, and `MCDataset` put together |
| `MCJobQueue`, `MCContributeWalk` | the model values and small sets their runs share |
| `MCSite`, `MCDataset` | the parts that share nothing, side by side in one run: what stands behind the screens, and what makes and uses the dataset |

### State and code

* `jobs[i]` is the row with `id = i`; ids are AUTOINCREMENT and rows are never deleted.
  `age` stands for `heartbeat_at`: the time since the last beat, counted in ticks up to
  `LeaseStale + 1`, with `NoBeat` for NULL. `claimed_at`, `updated_at`, `traceparent`
  and `config_version` are left out: nothing reads them back into a decision. `failure`
  keeps which of the two writers of `failure_reason` wrote it.
* `frames` of a row is its `prelabel_images`: the frames named when it was enqueued,
  empty for the automatic pass.
* `chunks` is the table; `reported` is `frames_extracted IS NOT NULL`. `images` maps the
  frames that have a row to their `selection_reason`. A segment yields one frame: what
  is at stake is whether a row is there and how it is stamped.
* `worker[w]` is where `PollOnce` stands in worker `w`, with the job and the attempt it
  believes in. `net` holds the requests not yet answered. A request whose client has
  stopped waiting (`live = FALSE`) is a *stray*: it may be served at any later time, or
  lost.
* `written` and `doomed` are history: which attempt of which job had its report stored,
  and which ended in a Terminal error. No action reads them.

A handler whose writes are one statement or one D1 batch is one action. Fan-out and the
reports first SELECT the lease and then run a batch that does not carry it, so they are
two (`ReportChecked`, then the write), and anything may happen in between.
`createPrelabelHandler` also reads before it writes, but an image that is stamped
between the two is the same as a pass enqueued before the stamp and run after it, which
the model has; so it is one step here, and two in `FrameGrid`. The same holds for the sampler's read of the pool,
which may be stale by the time of the report: the report is delivered with delay.

Some code is unreachable in these states and is left out: `failUnrunnable` retires a
chunk job without its chunks row, which `ChunkPairing` shows never exists; the 400s for
a report of the wrong kind need a worker that reports what it was not given. A 400 for a
malformed report is `WorkIsDoomed`. The `videos` row that `submitVideoHandler` writes
has no reader in the model.

The pool and the walk:

* An image is its `shuffle_key`, a random 53-bit number taken to be distinct, so that
  the order of the pool is the order of the integers. A box is its image and a number.
  What a verdict says, and how often, no query of a pool reads, so `verdicts` is a set
  of pairs of a box and who ruled on it; a second ruling adds nothing to it.
* `unruled` is `images.unruled_admin`, `selection` is `images.selection_reason`,
  `trusted` the users promoted by hand. `WaitsForAdmin` is `UNRULED_BOX`, the definition
  the counter stands for, and `ContributorPool` the WHERE of the page query.
* The writers read before their batch whether the boxes exist on the image and whether
  the frame is public; boxes are never deleted, so each is one step. (`public_sample` is
  a constant here.) A submission may name any of a frame's boxes.
* `pages` are the pages of the infinite query, `index` is `frameIndex`, one higher. A
  page is a set of frames: they come in the order of their keys, those that `wrapped`
  after all others (`Precedes`), so the set and the wrap fix the list. `Walk` is the
  `useMemo` that flattens the pages, as a set of places, each a page and a frame of it;
  `Ahead` says which places come before one, and `Place` which one the index names.
  `card` is the mounted `SwipeCard`, keyed on the frame (`Mounted`). `fetch` is the fetch in flight: its endpoint reads the page, the
  wrap and the boxes in three steps, between which everybody else may write.
* The query cache belongs to a library; it is modelled from how the screen uses it. An
  invalidation fetches as many pages as are held, from no cursor, each with the cursor
  the new page before it returned, and replaces them together; `fetchNextPage` cancels a
  refetch; a refetch cancels a fetch of the next page. `startOver` awaits the first page
  before it resets the index; the reset is taken with the reset of the pages, as nothing
  is shown in between.
* `owed` is history: the boxes that waited when the walk was opened and that the
  contributor has not ruled on. No action reads it.
* Everybody else acts through `Elsewhere`: `Others` are the accounts that rule in a run.

The administrator's screen (`AdminWalk`):

* `held` is the batch in the query cache, its frames and boxes as sets, since they come
  in the order of the frames' numbers (`Placed` puts the least on the card); `finished` the component's `ruled` map, and the
  card shows the first frame of the batch with a box not in it. The `done` set of the
  component has no writer and is left out, and so is a missing-object report in flight,
  which only keeps buttons disabled. The cache outlives the component (`Remount`); its
  collection after five minutes without a screen is not modelled.
* The endpoint reads frames and count in one transaction and the boxes after it, with
  others ruling in between. `heardHere` and `heardEver` are history.

The public sample (`PublicSample`): a frame is its timestamp. `nexts` is the prefetch
cache, one entry a frame, `shown` the frame on the card. The retry after a broken image,
the alert that replaces the card and the submission that moves on by what an older
render knew are there; the rate limit and the URL's signature are failed requests.

Sign-in (`Sessions`): a flow is one start; its state, its verifier and its session carry
its number. A request carries the cookies of when it is sent, its answer sets cookies
when it arrives, and it may be lost. The callback's two statements, and the cron's clock
and DELETE, are separate steps. Google is external: it may consent, decline or fail, and
redeems a code once.

Dry-runs (`DryRuns`): the panel shows one list at a time; each list is cached with the
fetch that may be in flight for it. Which fetches an invalidation cancels is modelled
from how the panel uses the query library. `DRYRUN_HISTORY` is not reached.

The paged lists (`PagedList`, `VerdictList`, `FrameGrid`): a row is its place in the
order of its table, the id of a verdict or the second of a frame, and `table` gives each
its mark, what a filter goes by: the stamp of a frame, or of a verdict whatever a filter
picks by (six filters that combine are one set of marks). A filter is a set of marks;
"none", the unsampled frames, is a mark like the others. The handlers read the page and
its count in one batch, so an answer is a page and a total of one instant. `asks` holds
the fetches in flight, `cache` the latest answers by key; a mounted page is asked for
again when the window gets the focus. The dialog is modal. A pass is stored in
`passes` until it reports; what became of its job in between is `JobQueue`'s, and two
passes alike are one, as the second stamps nothing. A request for a pass reads its
frames in one step and stores the job in a later one, with the pipeline's reports in
between. Videos, verdict states of a frame and the pool's count above the grid are left
out.

The store (`SourceStore`): a file is absent, partial or whole, with the time it was
written; `prune` runs at the start of each download, and deletes what has expired or,
when a file will not go, only some of it, which fails nothing. A run is a sequence of
steps that may die between any two, and an upload may fail with any part of it stored.
Leases are `JobQueue`'s.

Classes (`PromptVersions`): a version is a day and a suffix over an alphabet of
`Letters`; wordings are opaque. Each statement of an update is a step; the row it will
write is made when it reads the old one, with the version of that day. `stamped` keeps
with each stored box the wording that really found it, which the code does not store.

Ground truth: boxes of one class on one image are counted, since nothing reads more of
them in these modules. In `GroundTruthWalk`, `page` is the query's data, `batch` what
the component froze of it; `writes` are the calls in flight, of which `busy` sees the
latest of each kind only. In `Evaluation` each image has one prediction, so a verdict
names an image; `log` is the verdicts table in id order; the batches of `snapshotSource`
are four steps, the copies one step each. `examined` is history.

The algorithms (`Sampling`, `Scoring`) have no steps: each initial state is a case, and
TLC goes through all of them. A hash is the set of its one bits. An IoU is a number of
tenths, given with the case: geometry is left out, and so are detections of other
classes. A precision is a whole number of `Parts`, of which every rank is a divisor, so
that no fraction is rounded. `Matched`, `Total`, `KeptOf` and `Diverse` unroll the loops
of the code as recursive functions, a round of the loop an operator of its own.

### Reading notes

* `failUnrunnable` leaves `claimed_by` and `heartbeat_at` set on the row it fails,
  unlike every other way out of `claimed`.
* A comment in `claimJobHandler` speaks of a dry-run created by two separate statements;
  `createDryRunHandler` uses one batch.
* The lease names a worker, not an attempt. If a worker's first attempt is reaped and a
  stray claim of the same worker then takes the job again, a late completion of the
  first attempt closes the second. `DoneHasReport` shows that this is harmless: that
  first attempt's report was stored.

## Properties

Safety, in `JobQueue` (with one `TypeOK` per module):

* `TypeOK`: type correctness.
* `LeaseConsistent`: the columns of a lease agree, and the attempts stay in bounds.
* `AttemptExclusive`: two workers may work on one job at once but never on one attempt
  of it, and the newest claimed attempt is its holder's.
* `DoneHasReport`: a job is done only if a report of it was stored.
* `TransientNeverFails`: a job fails from a Terminal error or spent attempts only.
* `ChunkPairing`: chunk jobs and chunks rows are paired, a segment has one.
* `LastChunkEnqueues`, `AutomaticPassOnce`: whichever completion is last, a chunked
  video has a prelabel job, and at most one automatic one.
* `StampHasSource`: a stamp comes from a pass that chose the frame that way.

Actions:

* `OutcomeNotOverturned`: an ended job stays as it ended, no row is dropped, a row's
  request never changes and only claims count attempts.
* `StampWriteOnce`: an image row stays and its stamp never changes.

Refinement and liveness:

* `KeepsLifecycle`: the queue implements `JobLifecycle` (oldest first, at most
  `MaxAttempts` starts, an end is an end), under a mapping that keeps of every row its
  phase and its attempts.
* `JobsSettle`: the queue drains, so every job ends. `VideoIsPrelabelled`: a submitted
  video gets its prelabel job, unless one of its jobs failed.

In `LabellingPool`:

* `PoolTypeOK`: type correctness; the counter is never negative.
* `CounterExact`: `unruled_admin` is the number of boxes without an admin's verdict,
  through re-rulings and reports of re-run jobs.
* `LeavesByWeight`, an action property: a frame leaves the contributors' pool only by a
  ruling that counts, or because somebody's rulings came to count.

In `ContributeWalk`:

* `EvalNeverRuled`: the contributor is led to no frame of the evaluation split, though a
  page is read, wrapped, shown and submitted at different times. Of others nothing is
  said: the submission endpoint takes any frame.
* `WalkRulesAll`: when the walk says that nothing new is left, every box that waited
  when it was opened has been ruled on by the contributor or settled by others.
* `FrameHasBoxes`: a frame that is shown has something to rule on (it may not; below).
* `WalkEnds`: a walk ends, in a pool its own rulings do not shrink and that wraps for
  ever, unless it stops at a frame with nothing to rule on.

In the screens and what stands behind them:

* `AskedOnce` (`AdminWalk`): while the screen is mounted, no box whose ruling was
  accepted comes back with live buttons. `verdicts` is append-only, so a second click
  would be a second row; the order of refresh and clearing in `nextBatch` is what
  prevents it.
* `NothingLeftIsTrue` (`AdminWalk`): when the screen says that nothing is left, every box
  that waited when its batch was read has an administrator's verdict.
* `NewestIsWatched` (`DryRuns`): the newest run that the panel was told is queued, of the
  list on screen, is shown settled, or polled, or being read. The exceptions are in the
  definition.
* `LiveGoesByLogout` (`Sessions`): a session that a request would accept is deleted only
  by a logout that carries its cookie, though the sweep reads its clock before it
  deletes.
* `RefusedOnlyIfCrossed` (`Sessions`): a visitor who consented is refused for want of the
  right state only when it expired or another flow's answer touched the cookie.
* `SpacedUnlessOverlapped` (`PublicSample`): two flagged frames nearer than the floor were
  flagged by requests that overlapped.
* `OnceUnlessReopened` (`PublicSample`): one appearance of a frame is submitted twice only
  if the visitor reopened its card.

In what makes and uses the dataset:

* `RowsHaveObjects` (`SourceStore`): each image row has its object, whatever dies.
* `DoomedByAgeAlone` (`SourceStore`): a chunk finds its video gone only when a whole `TTL`
  has passed since the video was fetched.
* `OneWordingUnlessRaced` (`PromptVersions`): the boxes of one version of a class were
  found by one wording, unless two updates of that class overlapped.
* `AdoptsFresh` (`GroundTruthWalk`): a batch that was let go is not walked again, unless
  a fetch has failed since.
* `ScoredWasExamined` (`Evaluation`): a scored frame was, at one instant, marked for every
  class of the roster it is scored against.
* `SplitsHold` (`Evaluation`): no image is exported in both splits, and each is in the one
  its stamp says, though the halves are read at different times.
* `ManifestIsWhole` (`Evaluation`): a manifest names only objects that are there, and a
  listed snapshot has one.
* `AdminLabelStands` (`Evaluation`): after an administrator's ruling only an
  administrator's ruling changes a label.
* `CoveredOnce`, `DrawnAcross` (`Sampling`): the segments yield each second once; the
  systematic draw has its budget of distinct frames, spread over the whole video.
* `MeanOfBestPrecisions` (`Scoring`): the area under the curve is, for each box of ground
  truth, the best precision at which as many are recalled, in every tie and empty case.

In the lists of `PagedList`:

* `LabelIsTrue`: "x to y of total" numbers the rows under it: the page begins inside the
  list that total counts and has as many rows as the line says. It holds of the verdicts,
  a list that only grows, and not of the frames under a filter (below).
* `RowsFit` (`FrameGrid`): each frame shown is of the filter chosen, whatever filter its
  page was asked under, and a stamp that is shown is the stamp the frame bears.
* `OpensByClick` (`VerdictList`), `LearnsFromGrid` (`FrameGrid`): what two comments say,
  and the code does not do (below).

Some definitions are proved, and no run checks them: `ActiveWithin` (the active classes
exceed their ceiling by fewer than the updates in flight at once), `DroppedAreNear` (a
frame is dropped for being near the last one kept), `HalfAsSpreadAsAny` (the greedy draw
is at least half as spread as any), `StricterIsNoBetter` (no detector scores better at a
stricter overlap), `MarkFollowsBoxes` (no frame is marked as examined over a box still
on its way), `SettledIffWon` (the export and the contributors' pool agree on which
rulings count), `HeldStill`, `ExtractsWhole`, `TitleStands`, `FollowsItselfOnlyIfAlone`,
`RetriedOnce`, and the type invariants of the parts of `site`.

## Runs

Runs of `MCJobQueue`:

| Run | Shows | Bounds |
| --- | --- | --- |
| `lease` | the lease protocol with two workers, late claims, beats and completions: types, `LeaseConsistent`, `AttemptExclusive`, `DoneHasReport`, `OutcomeNotOverturned` | 2 workers, 2 snapshot jobs (no video), 2 attempts, 1 stray |
| `rerun` | a video from its submission to its automatic pass, its jobs re-run after a reap: `ChunkPairing`, `TransientNeverFails`, `LastChunkEnqueues`, `KeepsLifecycle`, and `VideoIsPrelabelled` under fairness | 1 worker, 1 video, 1 or 2 segments, 2 attempts |
| `late` | requests served late, a completion after another attempt completed the same chunk among them: `AutomaticPassOnce`, and `JobsSettle` under fairness | 1 worker, 1 segment, 2 attempts, 1 stray |
| `stamps` | overlapping passes: `StampHasSource`, `StampWriteOnce` | drawn and hand-picked passes beside the automatic one, 1 or 2 segments |
| `snapshot_twice`, `pass_replaced` | what two comments say, and the code does not do (below) | as needed |

Runs of `MCContributeWalk`, with two frames unless said otherwise:

| Run | Shows | Bounds |
| --- | --- | --- |
| `walk_company` | others rule on the frames ahead and submissions fail: `WalkRulesAll`, and `WalkEnds` under fairness | 1 box a frame, pages of 1, an admin and another contributor |
| `walk_refetch` | pages that wrap and are fetched anew: `EvalNeverRuled` | 1 or 2 boxes a frame, pages of 2, images that fail to load; reports and promotion go on |
| `walk_skips` | `WalkRulesAll` with images that fail to load (a finding) | 3 frames, pages of 2 |

Runs of several parts that share nothing. The variable `part`, chosen at the start, says
which one moves; the state space is the sum of the parts', and each property is about
one of them.

| Run | Part | Bounds |
| --- | --- | --- |
| `site` | the labelling pool: `CounterExact`, `LeavesByWeight` | 2 frames of 2 and 1 boxes; an admin, a visitor, a contributor who may be promoted |
| | the admin's screen: `AskedOnce`, `NothingLeftIsTrue` | the same frames, a batch of 1, one orphaned call |
| | the dry-run panel: `NewestIsWatched` | 2 runs, 1 frame to pick beside the whole class |
| | sign-in: `LiveGoesByLogout`, `RefusedOnlyIfCrossed` | 2 tabs, 2 flows, 1 account; a state lives 1 tick, a session 2, the clock runs to 4 |
| | the public sample: `SpacedUnlessOverlapped`, `OnceUnlessReopened` | 2 frames nearer than the floor, 2 overlapping flags, 2 calls |
| | the list of verdicts: `LabelIsTrue` | 2 kinds of verdict, the default filter and all, pages of 2, 4 verdicts, 2 pages kept |
| `dataset` | the disk: `RowsHaveObjects`, `DoomedByAgeAlone` | 2 videos of 1 chunk and 1 frame, 2 attempts, 4 claims, a TTL of 1, a clock to 2 |
| | cutting and drawing: `CoveredOnce`, `DrawnAcross` | every duration to 13 with segments of 3, every pool and budget to 13 |
| | the roster: `OneWordingUnlessRaced` | 1 class, 3 wordings, 2 screens, 2 overlapping updates of 3, 2 letters, 2 days |
| | an annotation sitting: `AdoptsFresh` | 2 frames, 1 class, pages of 2, 1 call in flight, a second annotator |
| | a snapshot: `ScoredWasExamined`, `SplitsHold`, `ManifestIsWhole`, `AdminLabelStands` | 2 frames, 1 class, 1 job, 2 runs, 2 writes by others, a contributor who may be trusted from the start |
| | scoring: `MeanOfBestPrecisions` | every list of up to 3 detections and 2 truths on 2 images, IoUs of 0, 5 and 7 tenths, 2 confidences; 60 parts |
| | the frame grid: `RowsFit` | 1 frame, all frames or the unsampled, 2 passes asked for beside the automatic one, 2 pages kept |
| | all of these but the two algorithms: `DatasetTypeOK` | as above |
| `eval_torn` | `NegativesAreVouched` in the snapshot part alone (a finding) | 4 writes by others |

**Bounds.** `MaxJobs` stops enqueueing by hand; the jobs the code enqueues itself are
bounded by `SegmentCounts`. `MaxStray` bounds the strays in flight, and `net` is a set,
so two identical strays count as one: serving one of them twice would need the client to
send twice, which no client does, except that a worker may abandon two claims; with
`MaxStray = 1` the runs cover one late call of each kind at every point, and the proofs
have no such bound. Ages stop at `LeaseStale + 1`, above which no comparison changes.
Two attempts are the least at which a job is handed over, re-run and retired; two
workers the least that race; two segments the least at which one completion is not the
last. Whose completion it is does not matter to the table, so one worker that takes the
chunks in either order and re-runs them is enough for `LastChunkEnqueues`. `TwoWorkers`
are symmetric (`WorkerSymmetry`) in `lease`, which checks no liveness.

Two frames are the least of which one lies behind the cursor; three the least at which a
page fetched anew can move a frame under the index past one that was not ruled on. Two
boxes are the least at which a frame is partly ruled on, as in `walk_refetch`; in
`walk_company` the last ruling of a frame is its first. `Boxes` lists what the detector
may find. Pages of one are fetched over and over while the pool changes; a page of two
can hold a frame from above the cursor and one from below, the least at which one could
repeat. `MaxPages` is one more than there are frames: each page but the last brings a
new one, and the walk drains at the first that does not, before the guard can stop it.
`WalkEnds` would fail otherwise.

A page of two with four rows has a row that moves from one page to the next. `MaxKeys`
counts the pages kept and asked for together: two are the page at hand and the one
before. Of the grid one frame is enough in `dataset`: `RowsFit` is about one row at a
time, and a pass asked for and the automatic one overlap on that frame in every order.
`GridStranded.cfg` has two frames and pages of one, the least of which the second page
can vanish. None of these bounds is in the theorems.

In `site` and `dataset`, two of a thing are the least of which one can be overtaken: two
tabs share one state cookie, two runs make one the newest, two flags cross, two videos
are needed for a download to prune the source of another's pending chunk. Three
updates (an activation and two rewordings from two screens, to a second and a third
wording) are the least that name two wordings by one version, which is what
`OneWordingUnlessRaced` excepts; two letters make a suffix grow. A clock runs at least a
tick beyond the longest lifetime that is compared. Two runs are
the least of which one finds what another left half-copied, two writes by others the
least that mark a frame and take the mark back, or that set an administrator's ruling
and a contributor's against each other; `eval_torn` needs four, a mark and a box set and
undone, and has one frame and one run. The theorems of `EvaluationProofs` have none of
these bounds. Thirteen is four segments of three and one second more, and reaches
budgets that divide the pool, do not, and exceed it. Three detections and two boxes are
the least at which a false positive stands between two true ones, so that the curve dips
and its envelope does not; two images the least at which a detection meets a box that is
not its to claim.

**Deadlock.** Checked in the runs of `MCJobQueue` and `MCContributeWalk`. The parts of
`site`, `dataset` and `eval_torn` come to rest when their clocks and counters are spent,
so those configurations say `CHECK_DEADLOCK FALSE`. In the others an idle worker polls
and a busy one can always let go, so the queue never comes to rest, an administrator can
always rule again, and a walk that is over can be started over.

**Fairness.** `Loop.Run` polls for as long as the process runs: weak fairness of `Poll`.
A job's work ends, in success or by its worker letting go: weak fairness of the steps
towards the completion. Each call carries a timeout (`requestTimeout`, `reportTimeout`),
so it is answered or given up: weak fairness of their disjunction, with no promise that
it is answered. Time passes and the cron fires. The one strong assumption is that claims
sent again and again are not all lost: an outage of the API ends. Nothing is assumed of
heartbeats, strays, administrators, or of the worker succeeding.

For the walk, `ContributeWalk`'s `Fairness` says that React's effects run and fetches
are answered (weak, of `Open`, `Fetching`, `FetchMore`); that the contributor keeps
ruling, and does not take the same rulings back for ever (weak of `Rule`, strong of a
ruling that completes the frame); that of a frame whose submission failed one box is
taken back, which is the only way to send it again; and that submissions do not all fail
(strong of `Serve` and `Advance`). Nobody is assumed to start over, and nothing of the
others.

**Mutants.** Each property of a passing run is checked against an operator marked
`Mistake:` in the module: the code with one plausible slip (a dropped guard, a wrong
comparison, an order swapped). TLC finds the property violated.

## Findings

* `snapshot_twice`: a snapshot job whose report was served and whose completion was lost
  is reaped and re-run, and inserts a second `snapshots` row; the route's description
  says its "row is written once".
* `pass_replaced`: a supplementary pass queued after a first chunk reported its images,
  but before the last chunk completed, makes the auto-enqueue find a prelabel job and
  skip the automatic pass; `admin-prelabel.ts` says it adds work "rather than replacing
  anything" of the automatic pass.
* `walk_skips`: when an image fails to load, every page is fetched anew from the bottom
  of the pool and `frameIndex` stays. A trusted contributor's rulings have left the pool
  meanwhile, so frames move down under the index and as many are skipped; the guard
  against repeats then counts them as seen, and the screen says that nothing new is
  left.
* `eval_torn`: the evaluation half of a snapshot is three reads. A frame that is examined
  at the second, and whose mark is then taken back and box deleted, is exported with no
  label, as a true negative; the comment says that a label array is empty only because
  the frame was examined for every class.

### Other divergences

Met on the way, each shown by a definition that TLC finds violated when a configuration
checks it, and none of them part of a run:

* Overlapping passes (`JobQueueOverlap.cfg`, `SupplementaryStampsAll`). The enqueue checks
  stamps, not queued passes. Two passes over one frame both go through and the later
  one's guarded UPDATE skips it; the comment says the guard "should never actually have
  to fire".
* The empty frame (`WalkEmptyFrame.cfg`, `FrameHasBoxes`). The contributor's batch reads
  its frames and their boxes separately. An admin's ruling in between leaves a frame
  without boxes, which the screen says "cannot occur here"; such a frame is never
  submitted, and there is no other way past it.
* The dialog that comes back (`VerdictReopens.cfg`, `OpensByClick` in `VerdictList`). Newer
  verdicts push the previewed row off its page; the next read closes the dialog and
  leaves its id behind, and turning to the page where the row is now opens the dialog
  again, with no "click on a row".
* The stranded grid (`GridStranded.cfg`, `LabelIsTrue` over `FrameGrid`). Under the filter
  "not yet sampled" a pass shrinks the list below the page at hand. The grid is empty
  under a line such as "2–1 of 1", and has no pager if what is left fits one page. The
  comments say that the total follows the filter "so pagination stays correct" and does
  not "strand the operator on an empty grid".
* The tick that stays (`GridSelection.cfg`, `LearnsFromGrid` in `FrameGrid`). A frame ticked
  before a pass stamped it keeps its tick in a box that is greyed out, and is sent with
  the next click, to be refused; the comment says that an operator "learns that from the
  grid instead of from an error after clicking".
* A remount asks again (`AskedOnceEver` in `AdminWalk`). `queries.ts` keeps the batch with
  an infinite staleTime so that "a remount inside one sitting continues where it was";
  the set of what was ruled on is the component's, and is gone.
* A frame swapped on the public card (`FrameHeld` in `PublicSample`): an answer asked for
  before the visitor moved on may arrive after it, and replaces the frame then shown.
* Two wordings under one version (`VersionNamesOneWording` in `PromptVersions`): two
  overlapping rewordings of one class read the same version and both give the next one
  out. `OneWordingUnlessRaced` shows that only overlapping updates lead there.

## Proofs

Every theorem holds for any value of the constants, however many workers, videos,
frames, users or calls: no bound of a configuration enters, and the only assumptions are
those the modules name (`QueueAssumption`, `PoolAssumption` and so on), but for one
hypothesis, of `WalkMissesNothing`, given below. Each inductive invariant was first
checked by TLC, as an invariant of the run its property belongs to. Where a proof needs
the least of some numbers (the first box left, the oldest job, the next place of a walk)
it takes the least counterexample, from the well-foundedness of the naturals. So does
what is said of a loop of n rounds: `Climb` (what holds of 0, and of each number if of
the one before, holds to the end), `Recursion` (a function computed from the value
before exists) and `OneFunction` (there is one) do the work of induction, which the
library's theorems offer only through an operator parameter.

**The queue** (`JobQueueProofs`): `TypeCorrect`, `LeasesAgree`, `OutcomesStand`, and the
refinement `QueueKeepsLifecycle`.

Neither `TypeOK` nor `LeaseConsistent` is inductive. A worker that believes it holds job
7 sends requests about row 7, and the row must exist for the handler's assignment to
mean anything; a row enters `Claim` with an attempt left only because waiting rows do.
The invariant `IInv` has four parts: every row is well typed and its lease columns agree
(`TableOK`), the other tables are typed (`RowsOK`), and workers (`WorkersOK`) and
requests (`NetOK`) name rows that exist. The lemmas follow the program: one per SQL
statement on the table (`Claim`, `Renew`, `Finish`, `EnqueueIfDue`, `Reap`, `AgeRows`)
says that it keeps `TableOK`, drops no row and takes each row by a `RowStep`; one per
action says that it keeps `IInv`. `OutcomesStand` reads the same lemmas as an action
property.

The refinement mapping `life` forgets all of a row but its phase and its attempts. A
claim maps to a start, and to the start of the oldest because the subquery of the claim
picks it (`ClaimStarts`); a completion to an end (`CompletionEnds`), which may bring the
automatic pass with it; a fan-out to the arrival of as many jobs as chunks were missing;
the reaper's two statements to giving up, for the rows re-queued and those retired
together (`ReaperGivesUp`); heartbeats, ticks, refusals and lost messages to nothing.

**Attempts** (`JobQueueProofs`): `AttemptsExclude`, `DoneIsReported`, `FailedForGood`.
Nothing in the API says which request belongs to which attempt. `AttemptsInv` ties the
three places an attempt is remembered in: `CallsOK` says that the one call a worker
waits for is about the attempt the worker is at, `RecordsOK` that a completion is about
an attempt whose report was stored, or which met a Terminal error, whoever sends it and
however late.

**The pipeline** (`JobPipelineProofs`): `ChunksPair`, `LastChunkIsHeard`,
`OneAutomaticPass`, `StampsHaveSources`, `StampsWrittenOnce`. `PipelineInv` is about the
table alone: a chunk job has its chunks row and no segment two (`ChunkPairing`), a video
all of whose chunks are done has its pass (`PassDue`), and a video has one automatic pass
at most (`OnePass`). That a completion cannot close the last chunk without the second
statement of the same batch seeing it is `DueIsEnqueued`; that a refused completion
enqueues too, without doing so twice, is `RefusedEnqueues`. `StampsInv` adds where a
report in flight gets its frames: they are those its job may stamp (`AsksFit`), and a
job's own list is of frames of its video (`FramesFit`).

**The labelling pool** (`LabellingPoolProofs`): `PoolTypeCorrect`, `CounterStaysExact`,
`PoolLeavesByWeight`. The type of the counter follows from its exactness: a decrement
leaves a natural number only because the boxes it counts are among those counted before.
So `PoolInv` takes the two together, with `Stamped`: a frame that has a box has a stamp,
because one batch writes both. `LeavesByWeight` needs it, since a pass that could stamp
a frame already in the pool as `random` would take it out.

**The administrator's screen** (`LabellingPoolProofs`): `AskedOnlyOnce`,
`NothingLeftStands`. `DeskInv` says of the batch on screen that it has every frame that
waited when it was read or counts more than it has (`HeldOK`), of the card that it is
what is left of the batch (`CardOK`), and of the sets that they filter what was heard
(`HeardOK`), except behind the alert, where they may have been cleared over a batch that
is old: no card is shown there, and only a fresh batch takes the alert away.

**The contributor's walk** (`LabellingPoolProofs`): `WalkTypeCorrect`, `EvalStaysUnruled`,
`WalkMissesNothing`. The first two follow from `WalkInv`: whatever the screen holds, has
asked for or has sent is of frames stamped for training, which no later stamp undoes.

`WalkMissesNothing` is the longest argument here. A pending box (owed, and neither ruled
on nor settled) is, by `CoverInv`, on every page that shows its frame, and the frame is
not behind the walk's place; if no page shows it yet, it lies beyond the cursor that the
next fetch will send (`Beyond`), and a fetch in flight that has read its frames has it
among them or stopped short of it (`Read`). The lemmas are about the walk as an order:
places are ranked without gaps (`Ranks`, `NoGap`), and a page put at the end lengthens
the walk and moves nothing (`WalkLonger`). At the end of the walk nothing is beyond the
cursor, so a pending box would have a place of its own that the index has not reached,
and `NoGap` gives the card that would be shown. The theorem assumes `~UrlsExpire`: no
page is fetched anew. It has to: the run `walk_skips` shows the property violated when
pages are.

`DeskTypeCorrect` and `WalkTypeCorrect` are the types of the two screens.

**Visitors** (`VisitorsProofs`): `LiveStays`, `RefusedForCause`, `AlwaysSpaced`,
`SubmittedOnce`, `AloneIfFollowingItself`, and the types `SessionTypeCorrect` and
`PublicTypeCorrect`. `LiveStays` needs that the sweep's clock is never ahead
of the clock; `RefusedForCause` that a tab's flow, while its state lives and nobody
crossed it, is the one in the jar or in the request (`StateKnown`), and that no two tabs
are in one flow (`OwnFlows`). `AlwaysSpaced` needs what a request that has read and not
written knows: its frame is clear of every flagged one except those flagged since, which
overlapped it (`RequestsSpaced`). `SubmittedOnce`, `AloneIfFollowingItself` and
`RetriedAtMostOnce` follow from what a visitor's card and caches hold.

**Classes, the dry-run panel and the list of verdicts** (`ClassesProofs`):
`VersionsTell`, `ActiveStaysWithin`, `NewestWatched`, `ListLabelHolds`, with
`PromptTypeCorrect` and `DryTypeCorrect`. A version of a class never comes back because
each is newer than the last in an order the code does not state: by day, then by the
length of the suffix, then letter by letter (`Older`). The suffixes are compared at the
last letter that differs, and the successor is shown to be greater by the least
counterexample. `PromptInv` says of every box, on its way or stored, that its class has
its wording now or a newer version, unless the class was raced, and of every update
under way that the row it will write has the class's version and wording or a newer
version, with the same exception. The bound on the active
classes is not inductive, for an update counts in one step and writes in a later one:
`Ceiling` bounds, in its place, the classes that are active or that an update on its way
will still write active (`Due`). Only an update that finds room adds to them, and then
the active ones are below the limit and the others due are at most one for each of the
other updates. `DryInv` adds to `NewestIsWatched` that what a request has read shows
every run the panel was told of, but those held against it (`ReadsShowAsked`).
`ListLabelHolds` says of every answer kept or on its way that it is of a page that began
inside the list when it was read, or of the first page, and has the rows its total
implies: the offset of the screen is only ever turned to what an answer promised, and
the verdicts, with ids that grow and rows that stay, keep the promise. The count of a
page is that of an interval of ranks, which the lemmas on ranks of a finite set give.

**Frames** (`FramesProofs`): `RowsAlwaysHaveObjects`, `DoomedOnlyByAge`,
`AlwaysExtractsWhole`, `TitlesStand`, `StoreTypeCorrect`. `StoreInv` says where the run stands: a run that
reports has uploaded what it kept (`SentFirst`), a chunk job exists only once its video
was fetched (`FetchedFirst`), and a fetched video that is gone is older than its limit
(`GoneByAge`). `CutsCoverOnce` and `DrawsSpread` are about `Sampling`, for every
duration, segment, pool and budget. Multiplication by a variable is outside the prover's
arithmetic, so the lemmas on multiples and quotients come first, from the distributive
law. `FramesShownFit` and `GridTypeCorrect` are about the grid: a page is kept under the
filter it was asked with, and a stamp in a page kept or on its way is one the frame
still bears, because a pass stamps only frames that have none.

**Evaluation and the annotation screen** (`EvaluationProofs`): `EvaluationTypeCorrect`,
`ScoredWasSeen` (while a
run reads, what is vouched for now is remembered), `ManifestsAreWhole` (what a run
counts as copied is in the bucket, and what a dead run left stays there),
`AdminHasTheWord` (after an administrator's ruling, the last of theirs wins, wherever
the others stand in the table), `SplitsStand` (an image that was ruled on is stamped,
and a stamp does not change, so the halves cannot meet). `BatchIsFresh` needs that a page
let go is marked as old until a fetch answers or fails (`PageKnown`); `FrameStays` needs
no invariant. `MarksFollowBoxes` needs to know of the calls in flight that `busy` sees
the latest of each kind, wherever the earlier ones stand in the queue. `SettledHasWinner`
is that the order by rank and age of the exporter's query always has a greatest ruling
among those that count: the least counterexample again, on the table's ids.

**What is picked, and the dataset as a whole** (`DatasetProofs`): `DroppedStayNear`,
`DrawHalfAsSpread`, `MeansOfBest`, `StricterNeverBetter`, `SittingTypeCorrect`,
`DatasetTypeCorrect`, `DatasetHolds`.

`DroppedStayNear` carries through the loop of `Dedup` that each frame looked at is kept
or near the last one kept before it (`Deduped`). `DrawHalfAsSpread` carries through the
rounds of `selectDiverse` that there is a distance r such that no two picks are nearer
than r and no frame of the pool farther than r from all of them and the reference
(`Spaced`); the next pick keeps it with the r it is picked at (`PickIs`). At the end
each frame is within r of fewer picks than the budget, so of any other choice of that
many frames two are within r of one pick, and within 2r of each other
(`SpreadBounded`), unless one is within r of the reference.

`MeansOfBest` shows that areaUnderCurve, with its two fixed ends, its backward envelope
and its sum over steps of recall, comes to the sum over the boxes of the best precision
at which as many are recalled. The ranking exists because a finite
set under a strict total order can be arranged (`Arranged`, `RankedIs`); the number of true positives climbs by at most one a rank (`ExactIs`); and
a step of the curve adds to the area exactly what its box adds to the sum (`AreaIs`,
`Telescoped`). `StricterNeverBetter` compares the matchings at two thresholds: what is
claimed at the higher by a detection is claimed at the lower by it or an earlier one
(`CoveredNext`), hence no fewer true positives at any rank (`FewerTruePositives`), and
no worse a best precision (`BestsGrow`).

`SittingTypeCorrect` is the type of the annotation screen and of the tables it writes:
no count of boxes goes below zero however deletions overlap, and the worklist in its
order is a list of frames of the pool (`InOrderIs`). `DatasetHolds` is about `MCDataset`
itself: everything the run `dataset` checks holds of the composed specification, for
every value of its constants. Each part, while the others stand still, runs as its own
specification says (`StoreRuns`, `ClassesRun`, `GridRuns`, `SnapshotsRun`, and so on);
a part that does not run keeps what holds of its first state.

**Checked by TLC only.** What is out of the prover's reach is liveness (`JobsSettle`,
`VideoIsPrelabelled`, `WalkEnds`: TLAPS proves nothing about fairness or ENABLED).
`WalkRulesAll` is proved where no page is fetched anew, and otherwise checked. `MCSite`
puts its parts together as `MCDataset` does; each of its properties is proved of the
part's own specification, and the composition is only checked.

## Not modelled

Where a box lies, and the drags and nudges that adjust one; missing-object reports; the
admin's statistics, the list of jobs and a video's header, and the capped counts on the
contributor's screen; a failed fetch of a contributor's page, which ends the walk in an
alert; a reload of the page that Google sends the visitor back to; a demotion (`trusted`
set back by hand); retention of cached queries by time; reads with
no effect. URL parsing, media decoding, perceptual hashing of pixels, the detector and
its boxes, and IoU geometry are functions of data that no property here tells apart.
Telemetry, configuration, rate limits, validation schemas, generated types, deployment
and the look of the web app keep no state that these modules read. `PROJECT.json` lists
every component with its reason.

## Plan

1. Missing-object reports and the frames they hide, across `AdminWalk` and the reads of a
   snapshot; a class retired while a pass that names it runs, in `JobQueue`.
2. `WalkRulesAll` for pages fetched anew from a pool that only grows, where it should
   still hold: a second hypothesis under which `WalkMissesNothing` could be stated.
3. Liveness of the screens: that a sitting with a shrinking worklist comes to its end,
   and that a run the panel polls is shown as settled.
4. The back-off of the worker's loop and the swipe reducer, as functions in `Sampling`'s
   manner.
5. `MCSite` put together as in `DatasetHolds`.
