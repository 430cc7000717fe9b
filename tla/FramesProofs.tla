----------------------------- MODULE FramesProofs -----------------------------
(***************************************************************************)
(* Theorems about SourceStore, for any videos, chunks and frames, any TTL  *)
(* and any number of claims; about Sampling, for any length of a segment   *)
(* and of a video; and about FrameGrid, for any frames, filters and page   *)
(* size, and however many passes.                                          *)
(***************************************************************************)
EXTENDS SourceStore, Sampling, FrameGrid, FunctionTheorems, FiniteSetTheorems, TLAPS

-----------------------------------------------------------------------------
(* THE STORE OF SOURCE VIDEOS.                                             *)

\* The parts of a run.
RunShapes ==
  [at : Downloads \cup Extractions, job : DiskJobs,
   title : {"none", "known"}, kept : SUBSET Frames]

Files == [kind : {"none", "part", "whole"}, written : Int]

\* The worker is idle or runs a job that was claimed, a download through the
\* steps of a download and a chunk through those of a chunk.
RunOK ==
  run # Unoccupied =>
    /\ run \in RunShapes
    /\ status[run.job] # "absent"
    /\ run.at \in Downloads \ {"complete"} => IsDownload(run.job)
    /\ run.at \in Extractions \ {"complete"} => ~IsDownload(run.job)

DiskOK ==
  /\ clock \in Nat
  /\ disk \in [Videos -> Files]
  /\ fetched \in [Videos -> Int]
  /\ status \in [DiskJobs -> {"absent", "pending", "running", "lost",
                             "done", "failed", "no source"}]
  /\ titles \in [Videos -> {"none", "known"}]

\* A whole file is as old as its fetch, and one that is gone has aged out.
GoneByAge ==
  \A v \in Videos :
    /\ HasSource(v) => disk[v].written = fetched[v] /\ fetched[v] # Never
    /\ ~HasSource(v) /\ fetched[v] # Never => fetched[v] + TTL <= clock

\* Whatever is to be cut from a video, or has been, was fetched first.
FetchedFirst ==
  /\ Step("fan out") => fetched[VideoOf(run.job)] # Never
  /\ \A j \in DiskJobs :
       ~IsDownload(j) /\ status[j] # "absent" => fetched[VideoOf(j)] # Never

\* What is about to be reported is in the bucket.
SentFirst == Step("report") => KeysOf(run.kept) \subseteq objects

\* The inductive invariant.
StoreInv ==
  DiskOK /\ RunOK /\ GoneByAge /\ FetchedFirst
    /\ ExtractsWhole /\ SentFirst /\ RowsHaveObjects

USE DEF IsDownload, VideoOf

\* A job belongs to a video.
LEMMA JobOfVideo ==
  ASSUME NEW j \in DiskJobs
  PROVE  VideoOf(j) \in Videos
BY DEF DiskJobs

\* A step is one step of the running job, which is then not idle.
LEMMA Occupied ==
  ASSUME RunOK, NEW step, Step(step), step # "idle"
  PROVE  /\ run # Unoccupied /\ run \in RunShapes
         /\ run.job \in DiskJobs /\ VideoOf(run.job) \in Videos
BY JobOfVideo DEF RunOK, Step, Unoccupied, RunShapes

\* What is put on the disk is a file.
LEMMA FilesAre ==
  ASSUME clock \in Nat
  PROVE  NoFile \in Files /\ File("part") \in Files /\ File("whole") \in Files
BY DEF NoFile, File, Files, Never

-----------------------------------------------------------------------------
(* The invariant holds at first, and is kept.                              *)

\* Nothing is there yet.
LEMMA StoreBegins == StoreInit => StoreInv
<1> SUFFICES ASSUME StoreInit PROVE StoreInv
  OBVIOUS
<1> USE DEF StoreInit
<1>1. DiskOK
  BY FilesAre DEF DiskOK, Never
<1>2. RunOK
  BY DEF RunOK
<1>3. GoneByAge
  BY DEF GoneByAge, HasSource, NoFile
<1>4. FetchedFirst
  BY DEF FetchedFirst, Step, Unoccupied
<1>5. ExtractsWhole /\ SentFirst /\ RowsHaveObjects
  BY DEF ExtractsWhole, SentFirst, RowsHaveObjects, Step, Unoccupied
<1> QED  BY <1>1, <1>2, <1>3, <1>4, <1>5 DEF StoreInv

\* The worker, the disk and the bucket as they are: only the jobs change, and
\* no chunk is inserted and no job taken out.
LEMMA OnlyJobs ==
  ASSUME StoreInv, UNCHANGED <<clock, disk, fetched, run, titles, bucket>>,
         status' \in [DiskJobs -> {"absent", "pending", "running", "lost",
                                   "done", "failed", "no source"}],
         \A j \in DiskJobs : status[j] # "absent" => status'[j] # "absent",
         \A j \in DiskJobs : ~IsDownload(j) /\ status'[j] # "absent" => status[j] # "absent"
  PROVE  StoreInv'
<1>1. DiskOK'
  BY DEF StoreInv, DiskOK
<1>2. RunOK'
  BY DEF StoreInv, RunOK, RunShapes
<1>3. GoneByAge'
  BY DEF StoreInv, GoneByAge, HasSource
<1>4. FetchedFirst'
  BY DEF StoreInv, FetchedFirst, Step
<1>5. ExtractsWhole' /\ SentFirst' /\ RowsHaveObjects'
  BY DEF StoreInv, ExtractsWhole, SentFirst, RowsHaveObjects, Step, KeysOf, bucket
<1> QED  BY <1>1, <1>2, <1>3, <1>4, <1>5 DEF StoreInv

\* Time passes.
LEMMA TickKeeps == StoreInv /\ StoreTick => StoreInv'
<1> SUFFICES ASSUME StoreInv, StoreTick PROVE StoreInv'
  OBVIOUS
<1> USE DEF StoreTick, jobs, bucket
<1>0. clock \in Nat /\ clock' = clock + 1 /\ clock' \in Nat
  <2>1. clock \in Nat
    BY DEF StoreInv, DiskOK
  <2> QED  BY <2>1
<1>1. DiskOK'
  <2>1. UNCHANGED <<disk, fetched, status, titles>>
    OBVIOUS
  <2> QED  BY <1>0, <2>1 DEF StoreInv, DiskOK
<1>2. RunOK'
  BY DEF StoreInv, RunOK, RunShapes
<1>3. GoneByAge'
  <2>1. UNCHANGED <<disk, fetched>>
    OBVIOUS
  <2>2. ASSUME NEW v \in Videos, fetched[v] + TTL <= clock
        PROVE  fetched[v] + TTL <= clock'
    <3>1. fetched[v] \in Int /\ TTL \in Nat
      BY SourceAssumption DEF StoreInv, DiskOK
    <3> QED  BY <1>0, <2>2, <3>1
  <2> QED  BY <2>1, <2>2 DEF StoreInv, GoneByAge, HasSource
<1>4. FetchedFirst'
  BY DEF StoreInv, FetchedFirst, Step
<1>5. ExtractsWhole' /\ SentFirst' /\ RowsHaveObjects'
  BY DEF StoreInv, ExtractsWhole, SentFirst, RowsHaveObjects, Step, KeysOf
<1> QED  BY <1>1, <1>2, <1>3, <1>4, <1>5 DEF StoreInv

\* A submission inserts a download, which is no chunk.
LEMMA SubmitKeeps ==
  ASSUME StoreInv, NEW v \in Videos, SubmitSource(v)
  PROVE  StoreInv'
<1>1. <<v, 0>> \in DiskJobs /\ IsDownload(<<v, 0>>)
  BY DEF DiskJobs
<1>2. status' = [status EXCEPT ![<<v, 0>>] = "pending"]
  BY DEF SubmitSource
<1> QED
  BY <1>1, <1>2, OnlyJobs DEF SubmitSource, StoreInv, DiskOK

\* The reaper gives a job back or gives it up.
LEMMA ReapKeeps ==
  ASSUME StoreInv, NEW j \in DiskJobs, ReapLost(j)
  PROVE  StoreInv'
<1>1. status[j] = "lost" /\ \E s \in {"pending", "failed"} : status' = [status EXCEPT ![j] = s]
  BY DEF ReapLost
<1> QED
  BY <1>1, OnlyJobs DEF ReapLost, StoreInv, DiskOK

\* A claim sets the worker to the first step of its kind of job.
LEMMA TakeKeeps ==
  ASSUME StoreInv, NEW j \in DiskJobs, TakeOldest(j)
  PROVE  StoreInv'
<1>1. status[j] = "pending" /\ status' = [status EXCEPT ![j] = "running"]
  BY DEF TakeOldest, Oldest, Pending
<1>2. \A k \in DiskJobs : status'[k] # "absent" <=> status[k] # "absent"
  BY <1>1 DEF StoreInv, DiskOK
<1>3. run' = [at |-> IF IsDownload(j) THEN "prune" ELSE "locate", job |-> j,
              title |-> "none", kept |-> {}]
  BY DEF TakeOldest, Running
<1>4. DiskOK'
  BY <1>1 DEF StoreInv, DiskOK, TakeOldest
<1>5. RunOK'
  BY <1>1, <1>2, <1>3 DEF RunOK, RunShapes, Downloads, Extractions, StoreInv, DiskOK
<1>6. GoneByAge'
  BY DEF StoreInv, GoneByAge, HasSource, TakeOldest
<1>7. FetchedFirst'
  <2>1. run'.at # "fan out"
    BY <1>3
  <2>2. fetched' = fetched
    BY DEF TakeOldest
  <2> QED  BY <1>2, <2>1, <2>2 DEF StoreInv, FetchedFirst, Step
<1>8. ExtractsWhole' /\ SentFirst' /\ RowsHaveObjects'
  BY <1>3 DEF StoreInv, ExtractsWhole, SentFirst, RowsHaveObjects, Step, TakeOldest, bucket
<1> QED  BY <1>4, <1>5, <1>6, <1>7, <1>8 DEF StoreInv

-----------------------------------------------------------------------------
(* The steps of a run.                                                     *)

\* How a run may end, whatever it leaves on the disk and in the bucket.
LEMMA RunEndKeeps ==
  ASSUME StoreInv, run # Unoccupied,
         NEW outcome \in {"lost", "done", "failed", "no source"}, EndRun(outcome),
         UNCHANGED <<clock, fetched, titles>>,
         disk' \in [Videos -> Files],
         GoneByAge', rows' \subseteq objects'
  PROVE  StoreInv'
<1>1. run' = Unoccupied /\ status' = [status EXCEPT ![run.job] = outcome]
  BY DEF EndRun
<1>2. run.job \in DiskJobs /\ status[run.job] # "absent"
  BY DEF StoreInv, RunOK, RunShapes
<1>3. \A k \in DiskJobs : status'[k] # "absent" <=> status[k] # "absent"
  BY <1>1, <1>2 DEF StoreInv, DiskOK
<1>4. DiskOK'
  BY <1>1, <1>2 DEF StoreInv, DiskOK
<1>5. RunOK'
  BY <1>1 DEF RunOK
<1>6. FetchedFirst'
  BY <1>1, <1>3 DEF StoreInv, FetchedFirst, Step, Unoccupied
<1>7. ExtractsWhole' /\ SentFirst' /\ RowsHaveObjects'
  BY <1>1 DEF ExtractsWhole, SentFirst, RowsHaveObjects, Step, Unoccupied
<1> QED  BY <1>4, <1>5, <1>6, <1>7 DEF StoreInv

\* A run that ends and leaves the disk and the bucket alone.
LEMMA EndsQuietly ==
  ASSUME StoreInv, run # Unoccupied,
         NEW outcome \in {"lost", "done", "failed", "no source"}, EndRun(outcome),
         UNCHANGED <<clock, disk, fetched, titles, bucket>>
  PROVE  StoreInv'
<1>1. disk' \in [Videos -> Files]
  BY DEF StoreInv, DiskOK
<1>2. GoneByAge'
  BY DEF StoreInv, GoneByAge, HasSource
<1>3. rows' \subseteq objects'
  BY DEF StoreInv, RowsHaveObjects, bucket
<1> QED  BY <1>1, <1>2, <1>3, RunEndKeeps

\* A run that moves to another step of its kind of job.
LEMMA GoesOn ==
  ASSUME StoreInv, run # Unoccupied, UNCHANGED status,
         run' \in RunShapes, run'.job = run.job,
         run'.at \in Downloads \ {"complete"} => IsDownload(run.job),
         run'.at \in Extractions \ {"complete"} => ~IsDownload(run.job)
  PROVE  RunOK'
BY DEF StoreInv, RunOK

\* Moving changes the step alone.
LEMMA Proceeding ==
  ASSUME StoreInv, NEW step, Step(step), step # "idle",
         NEW to \in Downloads \cup Extractions, Proceed(to)
  PROVE  /\ run' \in RunShapes /\ run'.at = to
         /\ run'.job = run.job /\ run'.kept = run.kept /\ run'.title = run.title
BY Occupied DEF StoreInv, Proceed, RunShapes

\* A run that moves and leaves the disk alone, to a step that asks nothing of
\* what was fetched, found or sent.
LEMMA MovesQuietly ==
  ASSUME StoreInv, run # Unoccupied, RunOK', UNCHANGED <<clock, disk, fetched, status>>,
         titles' \in [Videos -> {"none", "known"}],
         run'.at \notin {"fan out", "extract", "report"},
         rows' \subseteq objects'
  PROVE  StoreInv'
<1>1. DiskOK'
  BY DEF StoreInv, DiskOK
<1>2. GoneByAge'
  BY DEF StoreInv, GoneByAge, HasSource
<1>3. FetchedFirst'
  BY DEF StoreInv, FetchedFirst, Step
<1>4. ExtractsWhole' /\ SentFirst' /\ RowsHaveObjects'
  BY DEF ExtractsWhole, SentFirst, RowsHaveObjects, Step
<1> QED  BY <1>1, <1>2, <1>3, <1>4 DEF StoreInv

\* Pruning deletes only what has aged out.
LEMMA PruneKeeps == StoreInv /\ PruneStore => StoreInv'
<1> SUFFICES ASSUME StoreInv, PruneStore PROVE StoreInv'
  OBVIOUS
<1>0. PICK gone \in SUBSET {v \in Videos : Expired(disk[v])} :
        disk' = [v \in Videos |-> IF v \in gone THEN NoFile ELSE disk[v]]
  BY DEF PruneStore
<1>1. /\ Step("prune") /\ Proceed("fetch")
      /\ UNCHANGED <<clock, fetched, status, titles, objects, rows>>
  BY DEF PruneStore, jobs, bucket
<1>2. run # Unoccupied /\ run \in RunShapes
  BY <1>1, Occupied DEF StoreInv
<1>3. run' \in RunShapes /\ run'.at = "fetch" /\ run'.job = run.job
  BY <1>1, Proceeding DEF Downloads
<1>4. IsDownload(run.job)
  BY <1>1, <1>2 DEF StoreInv, RunOK, Step, Downloads
<1>5. RunOK'
  BY <1>1, <1>2, <1>3, <1>4, GoesOn DEF Extractions
<1>6. DiskOK'
  BY <1>0, <1>1, FilesAre DEF StoreInv, DiskOK
<1>7. GoneByAge'
  <2>1. SUFFICES ASSUME NEW v \in Videos
                 PROVE  /\ HasSource(v)' => disk'[v].written = fetched[v] /\ fetched[v] # Never
                        /\ ~HasSource(v)' /\ fetched[v] # Never => fetched[v] + TTL <= clock
    BY <1>0, <1>1 DEF GoneByAge
  <2>2. /\ fetched[v] \in Int /\ clock \in Nat /\ disk[v].written \in Int /\ TTL \in Nat
        /\ HasSource(v) => disk[v].written = fetched[v] /\ fetched[v] # Never
        /\ ~HasSource(v) /\ fetched[v] # Never => fetched[v] + TTL <= clock
    BY SourceAssumption DEF StoreInv, DiskOK, Files, GoneByAge
  <2>3. CASE v \in gone
    <3>1. disk'[v].kind = "none" /\ disk[v].written <= clock - TTL
      BY <1>0, <2>3 DEF Expired, NoFile
    <3>2. HasSource(v) => fetched[v] + TTL <= clock
      BY <2>2, <3>1
    <3> QED  BY <1>1, <2>2, <3>1, <3>2 DEF HasSource
  <2>4. CASE v \notin gone
    BY <1>0, <1>1, <2>2, <2>4 DEF HasSource
  <2> QED  BY <2>3, <2>4
<1>8. FetchedFirst'
  BY <1>1, <1>3 DEF StoreInv, FetchedFirst, Step
<1>9. ExtractsWhole' /\ SentFirst' /\ RowsHaveObjects'
  BY <1>1, <1>3 DEF StoreInv, ExtractsWhole, SentFirst, RowsHaveObjects, Step
<1> QED  BY <1>5, <1>6, <1>7, <1>8, <1>9 DEF StoreInv

\* A download that finds its file.
LEMMA SkipKeeps == StoreInv /\ FetchSkipped => StoreInv'
<1> SUFFICES ASSUME StoreInv, FetchSkipped PROVE StoreInv'
  OBVIOUS
<1>1. /\ Step("fetch") /\ HasSource(VideoOf(run.job)) /\ Proceed("fan out")
      /\ UNCHANGED <<clock, disk, fetched, status, titles, objects, rows>>
  BY DEF FetchSkipped, jobs, bucket
<1>2. run # Unoccupied /\ run \in RunShapes /\ VideoOf(run.job) \in Videos
  BY <1>1, Occupied DEF StoreInv
<1>3. run' \in RunShapes /\ run'.at = "fan out" /\ run'.job = run.job
  BY <1>1, Proceeding DEF Downloads
<1>4. IsDownload(run.job)
  BY <1>1, <1>2 DEF StoreInv, RunOK, Step, Downloads
<1>5. RunOK'
  BY <1>1, <1>2, <1>3, <1>4, GoesOn DEF Extractions
<1>6. DiskOK' /\ GoneByAge'
  BY <1>1 DEF StoreInv, DiskOK, GoneByAge, HasSource
<1>7. FetchedFirst'
  BY <1>1, <1>2, <1>3 DEF StoreInv, FetchedFirst, GoneByAge
<1>8. ExtractsWhole' /\ SentFirst' /\ RowsHaveObjects'
  BY <1>1, <1>3 DEF StoreInv, ExtractsWhole, SentFirst, RowsHaveObjects, Step
<1> QED  BY <1>5, <1>6, <1>7, <1>8 DEF StoreInv

\* A download that fetches its video.
LEMMA FetchKeeps == StoreInv /\ FetchCompletes => StoreInv'
<1> SUFFICES ASSUME StoreInv, FetchCompletes PROVE StoreInv'
  OBVIOUS
<1> DEFINE v == VideoOf(run.job)
<1>1. /\ Step("fetch") /\ run' = [run EXCEPT !.at = "fan out", !.title = "known"]
      /\ disk' = [disk EXCEPT ![v] = File("whole")]
      /\ fetched' = [fetched EXCEPT ![v] = clock]
      /\ UNCHANGED <<clock, status, titles, objects, rows>>
  BY DEF FetchCompletes, jobs, bucket
<1>2. run # Unoccupied /\ run \in RunShapes /\ v \in Videos
  BY <1>1, Occupied DEF StoreInv
<1>3. run' \in RunShapes /\ run'.at = "fan out" /\ run'.job = run.job
  BY <1>1, <1>2 DEF RunShapes, Downloads
<1>4. IsDownload(run.job)
  BY <1>1, <1>2 DEF StoreInv, RunOK, Step, Downloads
<1>5. RunOK'
  BY <1>1, <1>2, <1>3, <1>4, GoesOn DEF Extractions
<1>6. clock \in Nat /\ clock # Never
  <2>1. clock \in Nat
    BY DEF StoreInv, DiskOK
  <2> QED  BY <2>1 DEF Never
<1>7. disk'[v].kind = "whole" /\ disk'[v].written = clock /\ fetched'[v] = clock
  BY <1>1, <1>2 DEF StoreInv, DiskOK, File
<1>8. \A w \in Videos : w # v => disk'[w] = disk[w] /\ fetched'[w] = fetched[w]
  BY <1>1 DEF StoreInv, DiskOK
<1>9. DiskOK'
  <2>1. disk' \in [Videos -> Files]
    BY <1>1, <1>2, <1>6, FilesAre DEF StoreInv, DiskOK
  <2>2. fetched' \in [Videos -> Int]
    <3>1. fetched \in [Videos -> Int]
      BY DEF StoreInv, DiskOK
    <3>2. clock \in Int
      BY <1>6
    <3> QED  BY <1>1, <3>1, <3>2
  <2> QED  BY <1>1, <2>1, <2>2 DEF StoreInv, DiskOK
<1>10. GoneByAge'
  BY <1>1, <1>6, <1>7, <1>8 DEF StoreInv, GoneByAge, HasSource
<1>11. FetchedFirst'
  BY <1>1, <1>3, <1>6, <1>7, <1>8, JobOfVideo DEF StoreInv, FetchedFirst
<1>12. ExtractsWhole' /\ SentFirst' /\ RowsHaveObjects'
  BY <1>1, <1>3 DEF StoreInv, ExtractsWhole, SentFirst, RowsHaveObjects, Step
<1> QED  BY <1>5, <1>9, <1>10, <1>11, <1>12 DEF StoreInv

\* A download that leaves a .part.
LEMMA BreakKeeps == StoreInv /\ FetchBreaks => StoreInv'
<1> SUFFICES ASSUME StoreInv, FetchBreaks PROVE StoreInv'
  OBVIOUS
<1> DEFINE v == VideoOf(run.job)
<1>1. /\ Step("fetch") /\ ~HasSource(v) /\ EndRun("lost")
      /\ disk' = [disk EXCEPT ![v] = File("part")]
      /\ UNCHANGED <<clock, fetched, titles, objects, rows>>
  BY DEF FetchBreaks, bucket
<1>2. run # Unoccupied /\ v \in Videos
  BY <1>1, Occupied DEF StoreInv
<1>3. disk' \in [Videos -> Files]
  BY <1>1, <1>2, FilesAre DEF StoreInv, DiskOK
<1>4. GoneByAge'
  BY <1>1, <1>2 DEF StoreInv, DiskOK, GoneByAge, HasSource, File
<1>5. rows' \subseteq objects'
  BY <1>1 DEF StoreInv, RowsHaveObjects
<1> QED  BY <1>1, <1>2, <1>3, <1>4, <1>5, RunEndKeeps

\* A fan-out inserts the chunks of a video that has been fetched.
LEMMA FanOutKeeps == StoreInv /\ FanOut => StoreInv'
<1> SUFFICES ASSUME StoreInv, FanOut PROVE StoreInv'
  OBVIOUS
<1> DEFINE v == VideoOf(run.job)
<1>1. /\ Step("fan out") /\ Proceed("complete")
      /\ titles' = [titles EXCEPT ![v] = Retitled(@, run.title)]
      /\ status' = [j \in DiskJobs |-> IF j \in Uncut(v) THEN "pending" ELSE status[j]]
      /\ UNCHANGED <<clock, disk, fetched, objects, rows>>
  BY DEF FanOut, bucket
<1>2. run # Unoccupied /\ run \in RunShapes /\ run.job \in DiskJobs /\ v \in Videos
  BY <1>1, Occupied DEF StoreInv
<1>3. run' \in RunShapes /\ run'.at = "complete" /\ run'.job = run.job
  BY <1>1, Proceeding DEF Downloads
<1>4. \A j \in DiskJobs :
        /\ status[j] # "absent" => status'[j] # "absent"
        /\ status[j] = "absent" /\ status'[j] # "absent" => VideoOf(j) = v
  BY <1>1 DEF Uncut
<1>5. RunOK'
  BY <1>2, <1>3, <1>4 DEF StoreInv, RunOK
<1>6. DiskOK'
  <2>1. titles' \in [Videos -> {"none", "known"}]
    BY <1>1, <1>2 DEF StoreInv, DiskOK, Retitled, RunShapes
  <2>2. status' \in [DiskJobs -> {"absent", "pending", "running", "lost",
                                  "done", "failed", "no source"}]
    BY <1>1 DEF StoreInv, DiskOK
  <2> QED  BY <1>1, <2>1, <2>2 DEF StoreInv, DiskOK
<1>7. GoneByAge'
  BY <1>1 DEF StoreInv, GoneByAge, HasSource
<1>8. FetchedFirst'
  BY <1>1, <1>3, <1>4 DEF StoreInv, FetchedFirst, Step
<1>9. ExtractsWhole' /\ SentFirst' /\ RowsHaveObjects'
  BY <1>1, <1>3 DEF StoreInv, ExtractsWhole, SentFirst, RowsHaveObjects, Step
<1> QED  BY <1>5, <1>6, <1>7, <1>8, <1>9 DEF StoreInv

\* A chunk finds its source, or is retired.
LEMMA LocateKeeps == StoreInv /\ ChunkLocates => StoreInv'
<1> SUFFICES ASSUME StoreInv, ChunkLocates PROVE StoreInv'
  OBVIOUS
<1>1. Step("locate") /\ UNCHANGED <<clock, disk, fetched, titles, bucket>>
  BY DEF ChunkLocates
<1>2. run # Unoccupied /\ run \in RunShapes
  BY <1>1, Occupied DEF StoreInv
<1>3. ~IsDownload(run.job)
  BY <1>1, <1>2 DEF StoreInv, RunOK, Step, Extractions
<1>4. CASE HasSource(VideoOf(run.job)) /\ Proceed("extract") /\ UNCHANGED jobs
  <2>1. run' \in RunShapes /\ run'.at = "extract" /\ run'.job = run.job
    BY <1>1, <1>4, Proceeding DEF Extractions
  <2>2. RunOK'
    BY <1>2, <1>3, <1>4, <2>1, GoesOn DEF Downloads, jobs
  <2>3. DiskOK' /\ GoneByAge'
    BY <1>1, <1>4 DEF StoreInv, DiskOK, GoneByAge, HasSource, jobs
  <2>4. FetchedFirst'
    BY <1>1, <1>4, <2>1 DEF StoreInv, FetchedFirst, Step, jobs
  <2>5. ExtractsWhole' /\ SentFirst' /\ RowsHaveObjects'
    BY <1>1, <1>4, <2>1
       DEF StoreInv, ExtractsWhole, SentFirst, RowsHaveObjects, Step, HasSource, bucket
  <2> QED  BY <2>2, <2>3, <2>4, <2>5 DEF StoreInv
<1>5. CASE EndRun("no source")
  BY <1>1, <1>2, <1>5, EndsQuietly
<1> QED  BY <1>4, <1>5 DEF ChunkLocates

\* Extraction and deduplication touch nothing but the run.
LEMMA ExtractKeeps == StoreInv /\ ChunkExtracts => StoreInv'
<1> SUFFICES ASSUME StoreInv, ChunkExtracts PROVE StoreInv'
  OBVIOUS
<1>1. PICK kept \in SUBSET Frames : run' = [run EXCEPT !.at = "upload", !.kept = kept]
  BY DEF ChunkExtracts
<1>2. Step("extract") /\ UNCHANGED <<clock, disk, fetched, status, titles, objects, rows>>
  BY DEF ChunkExtracts, jobs, bucket
<1>3. run # Unoccupied /\ run \in RunShapes
  BY <1>2, Occupied DEF StoreInv
<1>4. ~IsDownload(run.job)
  BY <1>2, <1>3 DEF StoreInv, RunOK, Step, Extractions
<1>5. run' \in RunShapes /\ run'.at = "upload" /\ run'.job = run.job
  BY <1>1, <1>3 DEF RunShapes, Extractions
<1>6. RunOK'
  BY <1>2, <1>3, <1>4, <1>5, GoesOn DEF Downloads
<1>7. rows' \subseteq objects' /\ titles' \in [Videos -> {"none", "known"}]
  BY <1>2 DEF StoreInv, RowsHaveObjects, DiskOK
<1> QED  BY <1>2, <1>3, <1>5, <1>6, <1>7, MovesQuietly

\* Only a whole upload goes on to the report.
LEMMA UploadKeeps == StoreInv /\ ChunkUploads => StoreInv'
<1> SUFFICES ASSUME StoreInv, ChunkUploads PROVE StoreInv'
  OBVIOUS
<1>1. Step("upload") /\ UNCHANGED <<clock, disk, fetched, titles, rows>>
  BY DEF ChunkUploads
<1>2. run # Unoccupied /\ run \in RunShapes
  BY <1>1, Occupied DEF StoreInv
<1>3. ~IsDownload(run.job)
  BY <1>1, <1>2 DEF StoreInv, RunOK, Step, Extractions
<1>4. rows \subseteq objects
  BY DEF StoreInv, RowsHaveObjects
<1>5. CASE /\ objects' = objects \cup KeysOf(run.kept)
           /\ Proceed("report") /\ UNCHANGED jobs
  <2>1. /\ run' \in RunShapes /\ run'.at = "report"
        /\ run'.job = run.job /\ run'.kept = run.kept
    BY <1>1, <1>5, Proceeding DEF Extractions
  <2>2. RunOK'
    BY <1>2, <1>3, <1>5, <2>1, GoesOn DEF Downloads, jobs
  <2>3. DiskOK' /\ GoneByAge'
    BY <1>1, <1>5 DEF StoreInv, DiskOK, GoneByAge, HasSource, jobs
  <2>4. FetchedFirst'
    BY <1>1, <1>5, <2>1 DEF StoreInv, FetchedFirst, Step, jobs
  <2>5. SentFirst'
    BY <1>5, <2>1 DEF SentFirst, KeysOf
  <2>6. ExtractsWhole' /\ RowsHaveObjects'
    BY <1>1, <1>4, <1>5, <2>1 DEF ExtractsWhole, RowsHaveObjects, Step
  <2> QED  BY <2>2, <2>3, <2>4, <2>5, <2>6 DEF StoreInv
<1>6. CASE /\ \E keys \in SUBSET KeysOf(run.kept) : objects' = objects \cup keys
           /\ EndRun("lost")
  <2>1. disk' \in [Videos -> Files] /\ GoneByAge'
    BY <1>1 DEF StoreInv, DiskOK, GoneByAge, HasSource
  <2>2. rows' \subseteq objects'
    BY <1>1, <1>4, <1>6
  <2> QED  BY <1>1, <1>2, <1>6, <2>1, <2>2, RunEndKeeps
<1> QED  BY <1>5, <1>6 DEF ChunkUploads

\* The rows of a report have their objects.
LEMMA ReportKeeps == StoreInv /\ ChunkReports => StoreInv'
<1> SUFFICES ASSUME StoreInv, ChunkReports PROVE StoreInv'
  OBVIOUS
<1>1. Step("report") /\ UNCHANGED <<clock, disk, fetched, titles, objects>>
  BY DEF ChunkReports
<1>2. run # Unoccupied /\ run \in RunShapes
  BY <1>1, Occupied DEF StoreInv
<1>3. KeysOf(run.kept) \subseteq objects /\ rows \subseteq objects
  BY <1>1 DEF StoreInv, SentFirst, RowsHaveObjects
<1>4. CASE rows' = rows \cup KeysOf(run.kept) /\ Proceed("complete") /\ UNCHANGED jobs
  <2>1. run' \in RunShapes /\ run'.at = "complete" /\ run'.job = run.job
    BY <1>1, <1>4, Proceeding DEF Extractions
  <2>2. RunOK'
    BY <1>2, <1>4, <2>1, GoesOn DEF jobs
  <2>3. rows' \subseteq objects' /\ titles' \in [Videos -> {"none", "known"}]
    BY <1>1, <1>3, <1>4 DEF StoreInv, DiskOK
  <2> QED  BY <1>1, <1>2, <1>4, <2>1, <2>2, <2>3, MovesQuietly DEF jobs
<1>5. CASE EndRun("failed") /\ UNCHANGED rows
  BY <1>1, <1>2, <1>5, EndsQuietly DEF bucket
<1> QED  BY <1>4, <1>5 DEF ChunkReports

\* The other ways a run ends.
LEMMA EndingsKeep ==
  ASSUME StoreInv, RunDies \/ RunCompletes \/ DownloadDoomed
  PROVE  StoreInv'
<1>1. run # Unoccupied
  BY Occupied DEF StoreInv, RunDies, RunCompletes, DownloadDoomed
<1>2. \E outcome \in {"lost", "done", "failed"} : EndRun(outcome)
  BY DEF RunDies, RunCompletes, DownloadDoomed
<1>3. UNCHANGED <<clock, disk, fetched, titles, bucket>>
  BY DEF RunDies, RunCompletes, DownloadDoomed
<1> QED  BY <1>1, <1>2, <1>3, EndsQuietly

\* Every step keeps the invariant.
LEMMA StoreKeeps == StoreInv /\ [StoreNext]_store => StoreInv'
<1> SUFFICES ASSUME StoreInv, [StoreNext]_store PROVE StoreInv'
  OBVIOUS
<1>1. CASE UNCHANGED store
  BY <1>1, OnlyJobs DEF store, jobs, bucket, StoreInv, DiskOK
<1>2. CASE StoreNext
  BY <1>2, TickKeeps, SubmitKeeps, TakeKeeps, ReapKeeps, EndingsKeep, PruneKeeps, SkipKeeps,
     FetchKeeps, BreakKeeps, FanOutKeeps, LocateKeeps, ExtractKeeps, UploadKeeps, ReportKeeps
     DEF StoreNext
<1> QED  BY <1>1, <1>2

LEMMA StoreInvariant == StoreSpec => []StoreInv
BY StoreBegins, StoreKeeps, PTL DEF StoreSpec

-----------------------------------------------------------------------------
(* The theorems.                                                           *)

\* Each image row has its object, whatever dies and whenever.
THEOREM RowsAlwaysHaveObjects == StoreSpec => []RowsHaveObjects
<1>1. StoreInv => RowsHaveObjects
  BY DEF StoreInv
<1> QED  BY <1>1, StoreInvariant, PTL

\* What a chunk extracts from is a whole video.
THEOREM AlwaysExtractsWhole == StoreSpec => []ExtractsWhole
<1>1. StoreInv => ExtractsWhole
  BY DEF StoreInv
<1> QED  BY <1>1, StoreInvariant, PTL

\* Only locating a chunk's source retires a job for want of one, and a source
\* that was fetched and is gone has aged out.
LEMMA DoomedStep ==
  ASSUME StoreInv, [StoreNext]_store, NEW j \in DiskJobs,
         status'[j] = "no source", status[j] # "no source"
  PROVE  fetched[VideoOf(j)] # Never /\ fetched[VideoOf(j)] + TTL <= clock
<1>1. \A k \in DiskJobs, s \in {"pending", "running", "lost", "done", "failed"} :
        status' = [status EXCEPT ![k] = s] => FALSE
  BY DEF StoreInv, DiskOK
<1>2. status' # status
  OBVIOUS
<1>3. StoreNext
  BY <1>2 DEF store, jobs
<1>4. ~(StoreTick \/ PruneStore \/ FetchSkipped \/ FetchCompletes \/ ChunkExtracts)
  BY <1>2 DEF StoreTick, PruneStore, FetchSkipped, FetchCompletes, ChunkExtracts, jobs
<1>5. ASSUME NEW v \in Videos, SubmitSource(v) PROVE FALSE
  <2>1. <<v, 0>> \in DiskJobs
    BY DEF DiskJobs
  <2> QED  BY <1>1, <1>5, <2>1 DEF SubmitSource
<1>6. ASSUME NEW k \in DiskJobs, TakeOldest(k) \/ ReapLost(k) PROVE FALSE
  BY <1>1, <1>6 DEF TakeOldest, ReapLost
<1>7. ~FanOut
  BY DEF FanOut
<1>8. ASSUME NEW s \in {"lost", "done", "failed"}, EndRun(s), run # Unoccupied PROVE FALSE
  <2>1. run.job \in DiskJobs
    BY <1>8 DEF StoreInv, RunOK, RunShapes
  <2> QED  BY <1>1, <1>8, <2>1 DEF EndRun
<1>9. ~(RunDies \/ RunCompletes \/ FetchBreaks \/ DownloadDoomed)
  BY <1>8, Occupied DEF StoreInv, RunDies, RunCompletes, FetchBreaks, DownloadDoomed
<1>10. ~(ChunkUploads \/ ChunkReports)
  BY <1>2, <1>8, Occupied DEF StoreInv, ChunkUploads, ChunkReports, jobs
<1>11. ChunkLocates
  BY <1>3, <1>4, <1>5, <1>6, <1>7, <1>9, <1>10 DEF StoreNext
<1>12. Step("locate") /\ ~HasSource(VideoOf(run.job)) /\ EndRun("no source")
  BY <1>2, <1>11 DEF ChunkLocates, jobs
<1>13. run # Unoccupied /\ run.job \in DiskJobs /\ VideoOf(run.job) \in Videos
  BY <1>12, Occupied DEF StoreInv
<1>14. ~IsDownload(run.job) /\ status[run.job] # "absent"
  BY <1>12, <1>13 DEF StoreInv, RunOK, Step, Extractions
<1>15. j = run.job
  BY <1>12, <1>13 DEF EndRun, StoreInv, DiskOK
<1>16. fetched[VideoOf(j)] # Never
  BY <1>14, <1>15 DEF StoreInv, FetchedFirst
<1> QED  BY <1>12, <1>13, <1>15, <1>16 DEF StoreInv, GoneByAge

\* A chunk job is retired for want of its video only by age.
THEOREM DoomedOnlyByAge == StoreSpec => DoomedByAgeAlone
<1>1. StoreInv /\ [StoreNext]_store =>
        [\A j \in DiskJobs : status'[j] = "no source" /\ status[j] # "no source" =>
           fetched[VideoOf(j)] # Never /\ fetched[VideoOf(j)] + TTL <= clock]_store
  BY DoomedStep
<1> QED  BY <1>1, StoreInvariant, PTL DEF StoreSpec, DoomedByAgeAlone

\* A fan-out forgets no title, and nothing else touches one.
LEMMA TitleStep ==
  ASSUME StoreInv, [StoreNext]_store, NEW v \in Videos, titles[v] = "known"
  PROVE  titles'[v] = "known"
<1>1. CASE FanOut
  <2>1. titles' = [titles EXCEPT ![VideoOf(run.job)] = Retitled(@, run.title)]
    BY <1>1 DEF FanOut
  <2>2. run.title \in {"none", "known"}
    BY <1>1, Occupied DEF FanOut, StoreInv, RunShapes
  <2> QED  BY <2>1, <2>2 DEF Retitled, StoreInv, DiskOK
<1>2. CASE ~FanOut
  <2>1. titles' = titles
    BY <1>2 DEF StoreNext, store, StoreTick, SubmitSource, TakeOldest, ReapLost, RunDies,
       RunCompletes, PruneStore, FetchSkipped, FetchCompletes, FetchBreaks, DownloadDoomed,
       ChunkLocates, ChunkExtracts, ChunkUploads, ChunkReports
  <2> QED  BY <2>1
<1> QED  BY <1>1, <1>2

\* A title once stored is never lost.
THEOREM TitlesStand == StoreSpec => TitleStands
<1>1. StoreInv /\ [StoreNext]_store =>
        [\A v \in Videos : titles[v] = "known" => titles'[v] = "known"]_store
  BY TitleStep
<1> QED  BY <1>1, StoreInvariant, PTL DEF StoreSpec, TitleStands

-----------------------------------------------------------------------------
(* Types.                                                                  *)

Dates == Nat \cup {Never}

\* What the invariant above does not say of the types.
Recorded ==
  /\ disk \in [Videos -> [kind : {"none", "part", "whole"}, written : Dates]]
  /\ fetched \in [Videos -> Dates]
  /\ born \in [DiskJobs -> Nat] /\ attempts \in [DiskJobs -> Nat]
  /\ objects \subseteq Keys /\ rows \subseteq Keys

LEMMA FilesAreDated ==
  ASSUME clock \in Nat
  PROVE  /\ NoFile \in [kind : {"none", "part", "whole"}, written : Dates]
         /\ \A kind \in {"part", "whole"} :
              File(kind) \in [kind : {"none", "part", "whole"}, written : Dates]
BY DEF NoFile, File, Dates

\* The jobs that have been inserted can be counted, and so can a video's that
\* have not.
LEMMA JobsAreCounted ==
  ASSUME NEW S \in SUBSET DiskJobs
  PROVE  Cardinality(S) \in Nat
<1>1. IsFiniteSet(Chunks \cup {0}) /\ IsFiniteSet(Videos)
  BY SourceAssumption, FS_EmptySet, FS_AddElement
<1>2. IsFiniteSet(DiskJobs)
  BY <1>1, FS_Product DEF DiskJobs
<1> QED  BY <1>2, FS_Subset, FS_CardinalityType

\* Where the frames of a chunk are kept.
LEMMA KeysAre ==
  ASSUME StoreInv, run # Unoccupied, ~IsDownload(run.job)
  PROVE  KeysOf(run.kept) \subseteq Keys
<1>1. run.job \in DiskJobs /\ run.kept \subseteq Frames
  BY DEF StoreInv, RunOK, RunShapes
<1>2. run.job[1] \in Videos /\ run.job[2] \in Chunks
  BY <1>1 DEF DiskJobs
<1> QED  BY <1>1, <1>2 DEF KeysOf, Keys

LEMMA ClockTells == StoreInv => clock \in Nat
BY Zenon DEF StoreInv, DiskOK

LEMMA RecordedBegins == StoreInit => Recorded
<1> SUFFICES ASSUME StoreInit PROVE Recorded
  OBVIOUS
<1>1. clock \in Nat
  BY DEF StoreInit
<1> QED  BY <1>1, FilesAreDated DEF StoreInit, Recorded, Dates

\* The disk and the dates of what was fetched.
LEMMA FilesStayDated ==
  ASSUME StoreInv, Recorded, [StoreNext]_store
  PROVE  /\ disk' \in [Videos -> [kind : {"none", "part", "whole"}, written : Dates]]
         /\ fetched' \in [Videos -> Dates]
<1>0. clock \in Nat
  BY ClockTells
<1>1. CASE UNCHANGED <<disk, fetched>>
  BY <1>1 DEF Recorded
<1>2. CASE PruneStore
  BY <1>0, <1>2, FilesAreDated DEF PruneStore, Recorded
<1>3. CASE FetchCompletes
  <2>1. VideoOf(run.job) \in Videos
    BY <1>3, Occupied DEF StoreInv, FetchCompletes
  <2>2. clock \in Dates
    BY <1>0 DEF Dates
  <2> QED  BY <1>0, <1>3, <2>1, <2>2, FilesAreDated DEF FetchCompletes, Recorded
<1>4. CASE FetchBreaks
  <2>1. VideoOf(run.job) \in Videos
    BY <1>4, Occupied DEF StoreInv, FetchBreaks
  <2> QED  BY <1>0, <1>4, <2>1, FilesAreDated DEF FetchBreaks, Recorded
<1>5. ASSUME StoreNext, ~PruneStore, ~FetchCompletes, ~FetchBreaks
      PROVE  UNCHANGED <<disk, fetched>>
  <2>1. \/ \E v \in Videos : SubmitSource(v)
        \/ \E j \in DiskJobs : TakeOldest(j) \/ ReapLost(j)
        \/ StoreTick \/ RunDies \/ RunCompletes \/ FetchSkipped \/ DownloadDoomed \/ FanOut
        \/ ChunkLocates \/ ChunkExtracts \/ ChunkUploads \/ ChunkReports
    BY <1>5 DEF StoreNext
  <2>2. ASSUME NEW v \in Videos, SubmitSource(v) PROVE UNCHANGED <<disk, fetched>>
    BY <2>2 DEF SubmitSource
  <2>3. ASSUME NEW j \in DiskJobs, TakeOldest(j) \/ ReapLost(j) PROVE UNCHANGED <<disk, fetched>>
    BY <2>3 DEF TakeOldest, ReapLost
  <2>4. StoreTick \/ RunDies \/ RunCompletes \/ FanOut => UNCHANGED <<disk, fetched>>
    BY Zenon DEF StoreTick, RunDies, RunCompletes, FanOut
  <2>5. FetchSkipped \/ DownloadDoomed => UNCHANGED <<disk, fetched>>
    BY Zenon DEF FetchSkipped, DownloadDoomed
  <2>6. ChunkLocates \/ ChunkExtracts \/ ChunkUploads \/ ChunkReports => UNCHANGED <<disk, fetched>>
    BY Zenon DEF ChunkLocates, ChunkExtracts, ChunkUploads, ChunkReports
  <2> QED  BY <2>1, <2>2, <2>3, <2>4, <2>5, <2>6
<1> QED  BY <1>1, <1>2, <1>3, <1>4, <1>5 DEF store

\* The ids and the attempts of the jobs.
LEMMA NumbersStay ==
  ASSUME StoreInv, Recorded, [StoreNext]_store
  PROVE  born' \in [DiskJobs -> Nat] /\ attempts' \in [DiskJobs -> Nat]
<1>0. born \in [DiskJobs -> Nat] /\ attempts \in [DiskJobs -> Nat]
  BY DEF Recorded
<1>1. Newest \in Nat
  BY JobsAreCounted DEF Newest
<1>2. CASE UNCHANGED <<born, attempts>>
  BY <1>0, <1>2
<1>3. ASSUME NEW v \in Videos, SubmitSource(v) PROVE UNCHANGED attempts /\ born' \in [DiskJobs -> Nat]
  <2>1. Newest + 1 \in Nat
    BY <1>1
  <2> QED  BY <1>0, <1>3, <2>1 DEF SubmitSource
<1>4. ASSUME NEW j \in DiskJobs, TakeOldest(j)
      PROVE  UNCHANGED born /\ attempts' \in [DiskJobs -> Nat]
  <2>1. attempts[j] + 1 \in Nat
    BY <1>0
  <2> QED  BY <1>0, <1>4, <2>1 DEF TakeOldest
<1>5. CASE FanOut
  <2> DEFINE v == VideoOf(run.job)
             Rank(j) == Cardinality({k \in Uncut(v) : k[2] <= j[2]})
  <2>1. \A j \in DiskJobs : Rank(j) \in Nat
    <3>1. \A j \in DiskJobs : {k \in Uncut(v) : k[2] <= j[2]} \in SUBSET DiskJobs
      BY DEF Uncut
    <3> QED  BY <3>1, JobsAreCounted
  <2>2. /\ born' = [j \in DiskJobs |-> IF j \in Uncut(v) THEN Newest + Rank(j) ELSE born[j]]
        /\ UNCHANGED attempts
    BY <1>5, Zenon DEF FanOut
  <2> HIDE DEF Rank
  <2>3. \A j \in DiskJobs : Newest + Rank(j) \in Nat
    BY <1>1, <2>1
  <2> QED  BY <1>0, <2>2, <2>3
<1>6. ASSUME StoreNext, ~FanOut, \A v \in Videos : ~SubmitSource(v),
             \A j \in DiskJobs : ~TakeOldest(j)
      PROVE  UNCHANGED <<born, attempts>>
  <2>1. \/ \E j \in DiskJobs : ReapLost(j)
        \/ StoreTick \/ RunDies \/ RunCompletes \/ PruneStore
        \/ FetchSkipped \/ FetchCompletes \/ FetchBreaks \/ DownloadDoomed
        \/ ChunkLocates \/ ChunkExtracts \/ ChunkUploads \/ ChunkReports
    BY <1>6 DEF StoreNext
  <2>2. ASSUME NEW outcome, EndRun(outcome) PROVE UNCHANGED <<born, attempts>>
    BY <2>2 DEF EndRun
  <2>3. ASSUME NEW j \in DiskJobs, ReapLost(j) PROVE UNCHANGED <<born, attempts>>
    BY <2>3 DEF ReapLost
  <2>4. StoreTick \/ RunDies \/ RunCompletes \/ PruneStore => UNCHANGED <<born, attempts>>
    BY <2>2 DEF StoreTick, RunDies, RunCompletes, PruneStore, jobs
  <2>5. FetchSkipped \/ FetchCompletes => UNCHANGED <<born, attempts>>
    BY Zenon DEF FetchSkipped, FetchCompletes, jobs
  <2>6. FetchBreaks \/ DownloadDoomed => UNCHANGED <<born, attempts>>
    BY <2>2, Zenon DEF FetchBreaks, DownloadDoomed
  <2>7. ChunkLocates => UNCHANGED <<born, attempts>>
    BY <2>2, Zenon DEF ChunkLocates, jobs
  <2>8. ChunkExtracts \/ ChunkUploads \/ ChunkReports => UNCHANGED <<born, attempts>>
    BY <2>2, Zenon DEF ChunkExtracts, ChunkUploads, ChunkReports, jobs
  <2> QED  BY <2>1, <2>3, <2>4, <2>5, <2>6, <2>7, <2>8
<1> QED  BY <1>0, <1>2, <1>3, <1>4, <1>5, <1>6 DEF store

\* The objects in the bucket and the rows of images.
LEMMA KeysStay ==
  ASSUME StoreInv, Recorded, [StoreNext]_store
  PROVE  objects' \subseteq Keys /\ rows' \subseteq Keys
<1>0. objects \subseteq Keys /\ rows \subseteq Keys
  BY DEF Recorded
<1>1. CASE UNCHANGED <<objects, rows>>
  BY <1>0, <1>1
<1>2. CASE ChunkUploads \/ ChunkReports
  <2>1. run # Unoccupied /\ ~IsDownload(run.job)
    BY <1>2, Occupied DEF StoreInv, RunOK, ChunkUploads, ChunkReports, Step, Extractions
  <2>2. KeysOf(run.kept) \subseteq Keys
    BY <2>1, KeysAre
  <2> QED  BY <1>0, <1>2, <2>2 DEF ChunkUploads, ChunkReports
<1>3. ASSUME StoreNext, ~ChunkUploads, ~ChunkReports PROVE UNCHANGED <<objects, rows>>
  <2>1. \/ \E v \in Videos : SubmitSource(v)
        \/ \E j \in DiskJobs : TakeOldest(j) \/ ReapLost(j)
        \/ StoreTick \/ RunDies \/ RunCompletes \/ PruneStore \/ FetchSkipped \/ FetchCompletes
        \/ FetchBreaks \/ DownloadDoomed \/ FanOut \/ ChunkLocates \/ ChunkExtracts
    BY <1>3 DEF StoreNext
  <2>2. ASSUME NEW v \in Videos, SubmitSource(v) PROVE UNCHANGED <<objects, rows>>
    BY <2>2 DEF SubmitSource, bucket
  <2>3. ASSUME NEW j \in DiskJobs, TakeOldest(j) \/ ReapLost(j) PROVE UNCHANGED <<objects, rows>>
    BY <2>3 DEF TakeOldest, ReapLost, bucket
  <2>4. StoreTick \/ RunDies \/ RunCompletes \/ PruneStore \/ FanOut => UNCHANGED <<objects, rows>>
    BY Zenon DEF StoreTick, RunDies, RunCompletes, PruneStore, FanOut, bucket
  <2>5. FetchSkipped \/ FetchCompletes => UNCHANGED <<objects, rows>>
    BY Zenon DEF FetchSkipped, FetchCompletes, bucket
  <2>6. FetchBreaks \/ DownloadDoomed => UNCHANGED <<objects, rows>>
    BY Zenon DEF FetchBreaks, DownloadDoomed, bucket
  <2>7. ChunkLocates \/ ChunkExtracts => UNCHANGED <<objects, rows>>
    BY Zenon DEF ChunkLocates, ChunkExtracts, bucket
  <2> QED  BY <2>1, <2>2, <2>3, <2>4, <2>5, <2>6, <2>7
<1> QED  BY <1>1, <1>2, <1>3 DEF store

\* Type correctness of the store, its jobs and the bucket.
THEOREM StoreTypeCorrect == StoreSpec => []StoreTypeOK
<1>1. StoreInv /\ Recorded /\ [StoreNext]_store => Recorded'
  BY FilesStayDated, NumbersStay, KeysStay DEF Recorded, Dates
<1>2. ASSUME StoreInv, Recorded PROVE StoreTypeOK
  <2>1. run \in Runs
    <3>1. CASE run = Unoccupied
      BY <3>1 DEF Runs
    <3>2. CASE run \in RunShapes
      <4>1. run = Running(run.job, run.at, run.title, run.kept)
        BY <3>2 DEF RunShapes, Running
      <4>2. /\ run.job \in DiskJobs /\ run.at \in Downloads \cup Extractions
            /\ run.title \in {"none", "known"} /\ run.kept \in SUBSET Frames
        BY <3>2 DEF RunShapes
      <4> QED  BY <4>1, <4>2 DEF Runs
    <3> QED  BY <1>2, <3>1, <3>2 DEF StoreInv, RunOK
  <2>2. /\ clock \in Nat /\ titles \in [Videos -> {"none", "known"}]
        /\ status \in [DiskJobs -> {"absent", "pending", "running", "lost",
                                    "done", "failed", "no source"}]
    BY <1>2, Zenon DEF StoreInv, DiskOK
  <2> QED  BY <1>2, <2>1, <2>2, Zenon DEF Recorded, Dates, StoreTypeOK
<1> QED  BY <1>1, <1>2, RecordedBegins, StoreInvariant, PTL DEF StoreSpec

-----------------------------------------------------------------------------
(* SAMPLING.                                                               *)

-----------------------------------------------------------------------------
(* Multiples and quotients.                                                *)

LEMMA TimesGrows ==
  ASSUME NEW a \in Nat, NEW b \in Nat, NEW s \in Nat, a <= b
  PROVE  a * s <= b * s
<1>1. PICK c \in Nat : b = a + c
  <2>1. b - a \in Nat /\ b = a + (b - a)
    OBVIOUS
  <2> QED  BY <2>1
<1>2. c * s \in Nat /\ a * s \in Nat
  OBVIOUS
<1>3. (a + c) * s = a * s + c * s
  OBVIOUS
<1> QED  BY <1>1, <1>2, <1>3

\* The quotient of a natural number, and what is left of it.
LEMMA Quotient ==
  ASSUME NEW a \in Nat, NEW s \in Nat \ {0}
  PROVE  /\ a \div s \in Nat
         /\ (a \div s) * s <= a /\ a < (a \div s) * s + s
OBVIOUS

LEMMA NextMultiple ==
  ASSUME NEW k \in Nat, NEW s \in Nat
  PROVE  (k + 1) * s = k * s + s
OBVIOUS

LEMMA TimesCancels ==
  ASSUME NEW a \in Nat, NEW b \in Nat, NEW s \in Nat, a * s < b * s
  PROVE  a < b
<1>1. a * s \in Nat /\ b * s \in Nat
  OBVIOUS
<1>2. b <= a => b * s <= a * s
  BY TimesGrows
<1> QED  BY <1>1, <1>2

-----------------------------------------------------------------------------
(* Cutting.                                                                *)

\* As many segments as begin before the end of the video.
LEMMA CountFits ==
  ASSUME NEW d \in Nat \ {0}
  PROVE  /\ SegmentCount(d) \in Nat \ {0}
         /\ (SegmentCount(d) - 1) * SegmentSeconds < d
         /\ d <= SegmentCount(d) * SegmentSeconds
<1> DEFINE s == SegmentSeconds
<1> DEFINE n == (d + s - 1) \div s
<1>1. s \in Nat \ {0}
  BY SamplingAssumption
<1> HIDE DEF s
<1>2. d + s - 1 \in Nat
  BY <1>1
<1>3. n \in Nat /\ n * s <= d + s - 1 /\ d + s - 1 < n * s + s
  BY <1>1, <1>2, Quotient
<1> HIDE DEF n
<1>4. n * s \in Nat
  BY <1>1, <1>3
<1>5. d <= n * s
  BY <1>1, <1>3, <1>4
<1>6. n # 0
  <2>1. 0 * s = 0
    BY <1>1
  <2> QED  BY <1>5, <2>1
<1>7. PICK m \in Nat : n = m + 1
  <2>1. n - 1 \in Nat /\ n = (n - 1) + 1
    BY <1>3, <1>6
  <2> QED  BY <2>1
<1>8. m * s < d
  <2>1. n * s = m * s + s /\ m * s \in Nat
    BY <1>1, <1>7, NextMultiple
  <2> QED  BY <1>1, <1>3, <2>1
<1>9. n - 1 = m
  BY <1>7
<1> QED  BY <1>3, <1>5, <1>6, <1>8, <1>9 DEF SegmentCount, n, s

\* What a chunk extracts: from where it starts to where it ends.
LEMMA SecondsBetween ==
  ASSUME NEW k \in Nat, NEW e \in Nat, SegmentStart(k) < e
  PROVE  SecondsOf(k, e - SegmentStart(k)) = {x \in Nat : SegmentStart(k) <= x /\ x < e}
<1> DEFINE b == SegmentStart(k)
<1>1. b \in Nat
  BY SamplingAssumption DEF SegmentStart
<1>2. SecondsOf(k, e - b) = {b + i : i \in 0..(e - b - 1)}
  BY DEF SecondsOf
<1>3. b < e
  OBVIOUS
<1> HIDE DEF b
<1>4. ASSUME NEW x \in Nat, b <= x, x < e PROVE x \in {b + i : i \in 0..(e - b - 1)}
  <2>1. x - b \in 0..(e - b - 1) /\ x = b + (x - b)
    BY <1>1, <1>4
  <2> QED  BY <2>1
<1>5. ASSUME NEW i \in 0..(e - b - 1) PROVE b + i \in Nat /\ b <= b + i /\ b + i < e
  BY <1>1, <1>3, <1>5
<1>6. {b + i : i \in 0..(e - b - 1)} = {x \in Nat : b <= x /\ x < e}
  BY <1>4, <1>5
<1> QED  BY <1>2, <1>6 DEF b

\* Each second of the video is of one chunk.
LEMMA CutCovers ==
  ASSUME NEW d \in Nat \ {0}
  PROVE  LET chunks == 0..(SegmentCount(d) - 1)
             SecondsCut(k) == SecondsOf(k, SegmentEnd(k, d) - SegmentStart(k))
         IN /\ \A k \in chunks : SegmentStart(k) < SegmentEnd(k, d)
            /\ UNION {SecondsCut(k) : k \in chunks} = 0..(d - 1)
            /\ \A j, k \in chunks : j # k => SecondsCut(j) \cap SecondsCut(k) = {}
<1> DEFINE s == SegmentSeconds
<1> DEFINE n == SegmentCount(d)
<1> DEFINE Cut(k) == SecondsOf(k, SegmentEnd(k, d) - SegmentStart(k))
<1>1. s \in Nat \ {0} /\ n \in Nat \ {0} /\ (n - 1) * s < d /\ d <= n * s
  BY CountFits, SamplingAssumption
<1>2. ASSUME NEW k \in 0..(n - 1)
      PROVE  /\ k \in Nat /\ k * s \in Nat /\ k * s < d
             /\ SegmentStart(k) = k * s /\ SegmentEnd(k, d) = Lesser(k * s + s, d)
  <2> HIDE DEF s, n
  <2>1. k \in Nat /\ k <= n - 1 /\ n - 1 \in Nat
    BY <1>1
  <2>2. k * s <= (n - 1) * s
    BY <1>1, <2>1, TimesGrows
  <2>3. k * s \in Nat /\ (n - 1) * s \in Nat
    BY <1>1, <2>1
  <2> QED  BY <1>1, <2>1, <2>2, <2>3 DEF SegmentStart, SegmentEnd, s
<1> HIDE DEF s, n
<1>3. ASSUME NEW k \in 0..(n - 1)
      PROVE  /\ SegmentEnd(k, d) \in Nat /\ SegmentStart(k) < SegmentEnd(k, d)
             /\ SegmentEnd(k, d) <= d /\ SegmentEnd(k, d) <= k * s + s
  BY <1>1, <1>2 DEF Lesser
<1>4. ASSUME NEW k \in 0..(n - 1)
      PROVE  Cut(k) = {x \in Nat : k * s <= x /\ x < SegmentEnd(k, d)}
  BY <1>2, <1>3, SecondsBetween
<1> HIDE DEF Cut
<1>5. ASSUME NEW x \in 0..(d - 1) PROVE \E k \in 0..(n - 1) : x \in Cut(k)
  <2> DEFINE q == x \div s
  <2>1. q \in Nat /\ q * s <= x /\ x < q * s + s
    BY <1>1, Quotient
  <2> HIDE DEF q
  <2>2. q * s \in Nat /\ n * s \in Nat
    BY <1>1, <2>1
  <2>3. q < n
    <3>1. q * s < n * s
      BY <1>1, <2>1, <2>2
    <3> QED  BY <1>1, <2>1, <3>1, TimesCancels
  <2>4. q \in 0..(n - 1)
    BY <1>1, <2>1, <2>3
  <2>5. SegmentEnd(q, d) = Lesser(q * s + s, d)
    BY <1>2, <2>4
  <2>6. x < SegmentEnd(q, d)
    BY <2>1, <2>5 DEF Lesser
  <2> QED  BY <1>4, <2>1, <2>4, <2>6
<1>6. ASSUME NEW k \in 0..(n - 1), NEW x \in Cut(k) PROVE x \in 0..(d - 1)
  <2>1. x \in Nat /\ x < SegmentEnd(k, d)
    BY <1>4
  <2> QED  BY <1>3, <2>1
<1>7. UNION {Cut(k) : k \in 0..(n - 1)} = 0..(d - 1)
  BY <1>5, <1>6
<1>8. ASSUME NEW j \in 0..(n - 1), NEW k \in 0..(n - 1), j < k PROVE Cut(j) \cap Cut(k) = {}
  <2>1. j + 1 <= k /\ j + 1 \in Nat /\ k \in Nat /\ j \in Nat
    BY <1>8
  <2>2. (j + 1) * s <= k * s
    BY <1>1, <2>1, TimesGrows
  <2>3. (j + 1) * s = j * s + s
    <3>1. j \in Nat /\ s \in Nat
      BY <1>1, <2>1
    <3> QED  BY <3>1, NextMultiple
  <2>4. SegmentEnd(j, d) <= k * s
    <3>1. SegmentEnd(j, d) \in Nat /\ SegmentEnd(j, d) <= j * s + s
      BY <1>3
    <3>2. j * s + s <= k * s
      BY <2>2, <2>3, Zenon
    <3>3. j * s + s \in Nat /\ k * s \in Nat
      BY <1>1, <2>1
    <3> QED  BY <3>1, <3>2, <3>3
  <2>5. ASSUME NEW x \in Cut(j), x \in Cut(k) PROVE FALSE
    <3>1. x \in Nat /\ x < SegmentEnd(j, d) /\ k * s <= x
      BY <1>4, <2>5
    <3> QED  BY <1>2, <1>3, <2>4, <3>1
  <2> QED  BY <2>5
<1>9. \A j, k \in 0..(n - 1) : j # k => Cut(j) \cap Cut(k) = {}
  <2> SUFFICES ASSUME NEW j \in 0..(n - 1), NEW k \in 0..(n - 1), j # k
               PROVE  Cut(j) \cap Cut(k) = {}
    OBVIOUS
  <2>1. j < k \/ k < j
    OBVIOUS
  <2> QED  BY <1>8, <2>1
<1> QED  BY <1>3, <1>7, <1>9 DEF n, Cut

\* A case that was made, of cutting or of anything else.
Case == sampling \in Cuts \cup Draws \cup Dedups \cup Picks

LEMMA CaseCovered == Case => CoveredOnce
<1> SUFFICES ASSUME Case, Of("cut") PROVE CoveredOnce
  BY DEF CoveredOnce
<1>1. sampling \in Cuts
  BY DEF Case, Of, Draws, Dedups, Picks
<1>2. sampling.duration \in Nat \ {0}
  BY <1>1, SamplingAssumption DEF Cuts
<1> QED  BY <1>2, CutCovers DEF CoveredOnce

\* Every second of a video is extracted by exactly one of its chunks.
THEOREM CutsCoverOnce == SamplingSpec => []CoveredOnce
<1>1. SamplingInit => Case
  BY DEF SamplingInit, Case
<1>2. Case /\ [SamplingNext]_sampling => Case'
  BY DEF SamplingNext, Case
<1> QED  BY <1>1, <1>2, CaseCovered, PTL DEF SamplingSpec

-----------------------------------------------------------------------------
(* The systematic draw.                                                    *)

\* The draws are apart, and within the pool.
LEMMA DrawsApart ==
  ASSUME NEW n \in Nat, NEW budget \in Nat \ {0}, budget < n,
         NEW i \in 0..(budget - 1), NEW j \in 0..(budget - 1), i < j
  PROVE  DrawnIndex(i, n, budget) < DrawnIndex(j, n, budget)
<1> DEFINE a == (i * n) \div budget
<1> DEFINE b == (j * n) \div budget
<1>1. i \in Nat /\ j \in Nat /\ i + 1 \in Nat /\ i + 1 <= j
  OBVIOUS
<1>2. i * n \in Nat /\ j * n \in Nat
  BY <1>1
<1>3. i * n + n <= j * n
  <2>1. (i + 1) * n <= j * n
    BY <1>1, TimesGrows
  <2>2. (i + 1) * n = i * n + n
    BY <1>1, NextMultiple
  <2> QED  BY <2>1, <2>2
<1>4. a \in Nat /\ a * budget <= i * n
  BY <1>2, Quotient
<1>5. b \in Nat /\ j * n < b * budget + budget
  BY <1>2, Quotient
<1> HIDE DEF a, b
<1>6. a * budget < b * budget
  <2>1. a * budget \in Nat /\ b * budget \in Nat
    BY <1>4, <1>5
  <2> QED  BY <1>2, <1>3, <1>4, <1>5, <2>1
<1>7. a < b
  BY <1>4, <1>5, <1>6, TimesCancels
<1> QED  BY <1>7 DEF DrawnIndex, a, b

LEMMA DrawsWithin ==
  ASSUME NEW n \in Nat, NEW budget \in Nat \ {0}, budget < n, NEW i \in 0..(budget - 1)
  PROVE  DrawnIndex(i, n, budget) \in 0..(n - 1)
<1> DEFINE a == (i * n) \div budget
<1>1. i \in Nat /\ i + 1 \in Nat /\ i + 1 <= budget /\ i * n \in Nat /\ budget \in Nat
  OBVIOUS
<1>2. a \in Nat /\ a * budget <= i * n
  BY <1>1, Quotient
<1> HIDE DEF a
<1>3. i * n + n <= budget * n
  <2>1. (i + 1) * n <= budget * n
    BY <1>1, TimesGrows
  <2>2. (i + 1) * n = i * n + n
    BY <1>1, NextMultiple
  <2> QED  BY <2>1, <2>2
<1>4. a * budget < n * budget
  <2>1. a * budget \in Nat /\ budget * n \in Nat /\ n * budget = budget * n /\ n > 0
    BY <1>2
  <2> QED  BY <1>1, <1>2, <1>3, <2>1
<1>5. a < n
  BY <1>1, <1>2, <1>4, TimesCancels
<1> QED  BY <1>2, <1>5 DEF DrawnIndex, a

\* A stride covers what one draw leaves before the next.
LEMMA StrideCovers ==
  ASSUME NEW n \in Nat, NEW budget \in Nat \ {0}
  PROVE  /\ (n + budget - 1) \div budget \in Nat
         /\ n <= ((n + budget - 1) \div budget) * budget
<1> DEFINE stride == (n + budget - 1) \div budget
<1>1. n + budget - 1 \in Nat
  OBVIOUS
<1>2. stride \in Nat /\ n + budget - 1 < stride * budget + budget
  BY <1>1, Quotient
<1> HIDE DEF stride
<1>3. stride * budget \in Nat
  BY <1>2
<1> QED  BY <1>2, <1>3 DEF stride

\* Before every second there is a draw less than a stride away.
LEMMA DrawNear ==
  ASSUME NEW n \in Nat, NEW budget \in Nat \ {0}, budget < n, NEW t \in 0..(n - 1)
  PROVE  \E i \in 0..(budget - 1) :
           /\ DrawnIndex(i, n, budget) <= t
           /\ t < DrawnIndex(i, n, budget) + (n + budget - 1) \div budget
<1> DEFINE upTo == (t + 1) * budget - 1
<1> DEFINE i == upTo \div n
<1> DEFINE drawn == (i * n) \div budget
<1> DEFINE stride == (n + budget - 1) \div budget
<1>1. t \in Nat /\ t + 1 \in Nat /\ t + 1 <= n /\ n \in Nat \ {0} /\ budget \in Nat
  OBVIOUS
<1>2. (t + 1) * budget = t * budget + budget /\ t * budget \in Nat
  BY <1>1, NextMultiple
<1>3. upTo \in Nat /\ upTo = t * budget + budget - 1
  BY <1>2
<1> HIDE DEF upTo
<1>4. i \in Nat /\ i * n <= upTo /\ upTo < i * n + n
  BY <1>1, <1>3, Quotient
<1> HIDE DEF i
<1>5. i * n \in Nat
  BY <1>1, <1>4
<1>6. drawn \in Nat /\ drawn * budget <= i * n /\ i * n < drawn * budget + budget
  BY <1>5, Quotient
<1>7. stride \in Nat /\ n <= stride * budget
  BY StrideCovers
<1> HIDE DEF drawn, stride
<1>8. drawn * budget \in Nat /\ stride * budget \in Nat
  BY <1>1, <1>6, <1>7
<1>9. i < budget
  <2>1. (t + 1) * budget <= n * budget
    BY <1>1, TimesGrows
  <2>2. n * budget = budget * n /\ budget * n \in Nat
    BY <1>1
  <2>3. i * n < budget * n
    BY <1>1, <1>2, <1>3, <1>4, <1>5, <2>1, <2>2
  <2> QED  BY <1>1, <1>4, <2>3, TimesCancels
<1>10. drawn < t + 1
  <2>1. drawn * budget < (t + 1) * budget
    BY <1>1, <1>2, <1>3, <1>4, <1>5, <1>6, <1>8
  <2> QED  BY <1>1, <1>6, <2>1, TimesCancels
<1>11. t < drawn + stride
  <2>1. (drawn + stride) * budget = drawn * budget + stride * budget
    BY <1>1, <1>6, <1>7
  <2>2. t * budget < drawn * budget + stride * budget
    BY <1>1, <1>2, <1>3, <1>4, <1>5, <1>6, <1>7, <1>8
  <2>3. drawn + stride \in Nat
    BY <1>6, <1>7
  <2> QED  BY <1>1, <2>1, <2>2, <2>3, TimesCancels
<1>12. i \in 0..(budget - 1)
  BY <1>1, <1>4, <1>9
<1>13. DrawnIndex(i, n, budget) <= t
  BY <1>1, <1>6, <1>10 DEF DrawnIndex, drawn
<1>14. t < DrawnIndex(i, n, budget) + (n + budget - 1) \div budget
  BY <1>11 DEF DrawnIndex, drawn, stride
<1> QED  BY <1>12, <1>13, <1>14

LEMMA DrawSpreads ==
  ASSUME NEW n \in Nat \ {0}, NEW budget \in Nat \ {0}
  PROVE  LET drawn == Sampled(n, budget)
             stride == (n + budget - 1) \div budget
         IN /\ drawn \subseteq 0..(n - 1) /\ 0 \in drawn
            /\ Cardinality(drawn) = Lesser(n, budget)
            /\ \A t \in 0..(n - 1) : \E d \in drawn : d <= t /\ t < d + stride
<1> DEFINE drawn == Sampled(n, budget)
<1> DEFINE stride == (n + budget - 1) \div budget
<1>1. CASE n <= budget
  <2>1. drawn = 0..(n - 1)
    BY <1>1 DEF Sampled
  <2>2. Cardinality(0..(n - 1)) = n
    <3>1. 0 \in Int /\ n - 1 \in Int /\ ~(0 > n - 1) /\ n - 1 - 0 + 1 = n
      OBVIOUS
    <3> QED  BY <3>1, FS_Interval, Zenon
  <2>3. Lesser(n, budget) = n
    BY <1>1 DEF Lesser
  <2>4. stride \in Nat /\ stride > 0
    <3>1. stride \in Nat /\ n <= stride * budget
      BY StrideCovers
    <3> HIDE DEF stride
    <3>2. stride = 0 => stride * budget = 0
      OBVIOUS
    <3> QED  BY <3>1, <3>2
  <2>5. 0 \in 0..(n - 1)
    OBVIOUS
  <2> HIDE DEF stride
  <2>6. \A t \in 0..(n - 1) : t <= t /\ t < t + stride
    BY <2>4
  <2> QED  BY <2>1, <2>2, <2>3, <2>5, <2>6 DEF stride
<1>2. CASE budget < n
  <2> DEFINE f == [i \in 0..(budget - 1) |-> DrawnIndex(i, n, budget)]
  <2>1. drawn = {DrawnIndex(i, n, budget) : i \in 0..(budget - 1)}
    BY <1>2 DEF Sampled
  <2>2. \A i \in 0..(budget - 1) : DrawnIndex(i, n, budget) \in 0..(n - 1)
    BY <1>2, DrawsWithin
  <2>3. 0 \in drawn
    <3>1. 0 \in 0..(budget - 1)
      OBVIOUS
    <3>2. DrawnIndex(0, n, budget) = 0
      BY DEF DrawnIndex
    <3> QED  BY <2>1, <3>1, <3>2
  <2>4. ASSUME NEW i \in 0..(budget - 1), NEW j \in 0..(budget - 1), f[i] = f[j] PROVE i = j
    <3>1. DrawnIndex(i, n, budget) = DrawnIndex(j, n, budget)
      BY <2>4
    <3>2. DrawnIndex(i, n, budget) \in Nat
      BY <2>2
    <3>3. i < j => DrawnIndex(i, n, budget) < DrawnIndex(j, n, budget)
      BY <1>2, DrawsApart
    <3>4. j < i => DrawnIndex(j, n, budget) < DrawnIndex(i, n, budget)
      BY <1>2, DrawsApart
    <3> QED  BY <3>1, <3>2, <3>3, <3>4
  <2>5. f \in [0..(budget - 1) -> drawn] /\ \A d \in drawn : \E i \in 0..(budget - 1) : f[i] = d
    BY <2>1
  <2>6. f \in Bijection(0..(budget - 1), drawn)
    BY <2>4, <2>5, Fun_IsBij
  <2>7. ExistsBijection(0..(budget - 1), drawn)
    BY <2>6 DEF ExistsBijection
  <2>8. Cardinality(drawn) = Cardinality(0..(budget - 1))
    <3>1. IsFiniteSet(0..(budget - 1))
      BY FS_Interval
    <3> QED  BY <2>7, <3>1, FS_Bijection
  <2>9. Cardinality(0..(budget - 1)) = budget
    <3>1. 0 \in Int /\ budget - 1 \in Int /\ ~(0 > budget - 1) /\ budget - 1 - 0 + 1 = budget
      OBVIOUS
    <3> QED  BY <3>1, FS_Interval, Zenon
  <2>10. Lesser(n, budget) = budget
    BY <1>2 DEF Lesser
  <2>11. \A t \in 0..(n - 1) : \E d \in drawn : d <= t /\ t < d + stride
    BY <1>2, <2>1, DrawNear
  <2> QED  BY <2>1, <2>2, <2>3, <2>8, <2>9, <2>10, <2>11
<1> QED  BY <1>1, <1>2

LEMMA CaseDrawn == Case => DrawnAcross
<1> SUFFICES ASSUME Case, Of("draw") PROVE DrawnAcross
  BY DEF DrawnAcross
<1>1. sampling \in Draws
  BY DEF Case, Of, Cuts, Dedups, Picks
<1>2. sampling.pool \in Nat \ {0} /\ sampling.budget \in Nat \ {0}
  BY <1>1, SamplingAssumption DEF Draws
<1> QED  BY <1>2, DrawSpreads DEF DrawnAcross

\* The systematic draw is its budget of frames, and leaves no stretch undrawn.
THEOREM DrawsSpread == SamplingSpec => []DrawnAcross
<1>1. SamplingInit => Case
  BY DEF SamplingInit, Case
<1>2. Case /\ [SamplingNext]_sampling => Case'
  BY DEF SamplingNext, Case
<1> QED  BY <1>1, <1>2, CaseDrawn, PTL DEF SamplingSpec

-----------------------------------------------------------------------------
(* THE GRID OF FRAMES.                                                     *)

\* A page agrees with its filter and, on what is stamped, with the table.
Fits(page, k, frames) ==
  \A r \in DOMAIN page.rows :
    /\ r \in DOMAIN frames /\ page.rows[r] \in k[1]
    /\ page.rows[r] # "none" => frames[r] = page.rows[r]

Fit(pages, frames) ==
  /\ DOMAIN pages \subseteq PageKeys
  /\ \A k \in DOMAIN pages : PageOK(pages[k]) /\ Fits(pages[k], k, frames)

GridTable == DOMAIN table \subseteq Seconds /\ \A r \in DOMAIN table : table[r] \in Marks

PassShapes == [reason : Reasons, frames : SUBSET Seconds]

AskedTyped ==
  /\ selected \subseteq Seconds /\ adrift \subseteq RequestShapes
  /\ request \in RequestShapes \cup {NoRequest}
  /\ passes \subseteq PassShapes
  /\ extracted \in BOOLEAN /\ passed \in BOOLEAN /\ sent \in Nat

\* The inductive invariant: every page that is kept or on its way fits, for
\* no stamp is ever taken back.
GridInv ==
  /\ GridTable /\ Key \in PageKeys /\ open \in BOOLEAN
  /\ Fit(cache, table) /\ Fit(asks, table) /\ AskedTyped

-----------------------------------------------------------------------------
(* Pages.                                                                  *)

LEMMA GridIsFinite ==
  ASSUME GridTable
  PROVE  IsFiniteSet(DOMAIN table) /\ \A f : Cardinality(Matching(f)) \in Nat
<1>1. IsFiniteSet(DOMAIN table)
  BY GridAssumption, FS_Subset DEF GridTable
<1>2. ASSUME NEW f PROVE Cardinality(Matching(f)) \in Nat
  <2>1. Matching(f) \in SUBSET DOMAIN table
    BY DEF Matching
  <2> QED  BY <1>1, <2>1, FS_Subset, FS_CardinalityType
<1> QED  BY <1>1, <1>2

LEMMA AnswerFits ==
  ASSUME GridTable, NEW k \in PageKeys
  PROVE  PageOK(PageAnswer(k[1], k[2])) /\ Fits(PageAnswer(k[1], k[2]), k, table)
<1> DEFINE page == PageAnswer(k[1], k[2])
<1>1. /\ page.total = Cardinality(Matching(k[1])) /\ DOMAIN page.rows = PageOf(k[1], k[2])
      /\ \A r \in PageOf(k[1], k[2]) : page.rows[r] = table[r]
  BY DEF PageAnswer
<1>2. \A r \in PageOf(k[1], k[2]) : r \in DOMAIN table /\ table[r] \in k[1]
  BY DEF PageOf, Matching
<1>3. \A r \in PageOf(k[1], k[2]) : r \in Nat /\ table[r] \in Marks
  BY <1>2, GridAssumption DEF GridTable
<1> HIDE DEF page
<1>4. PageOK(page)
  BY <1>1, <1>3, GridIsFinite DEF PageOK
<1>5. Fits(page, k, table)
  BY <1>1, <1>2 DEF Fits
<1> QED  BY <1>4, <1>5 DEF page

LEMMA UnreadFits == \A k, frames : PageOK(Unread) /\ Fits(Unread, k, frames)
BY DEF PageOK, Fits, Unread

LEMMA WithFits ==
  ASSUME NEW pages, NEW frames, Fit(pages, frames), NEW k \in PageKeys,
         NEW page, PageOK(page), Fits(page, k, frames)
  PROVE  Fit(With(pages, k, page), frames)
BY DEF Fit, With

LEMMA WithoutFits ==
  ASSUME NEW pages, NEW frames, Fit(pages, frames), NEW k
  PROVE  Fit(Without(pages, k), frames)
BY DEF Fit, Without

LEMMA AskFits ==
  ASSUME NEW k \in PageKeys, NEW frames, Fit(asks, frames), AskFor(k)
  PROVE  Fit(asks', frames)
<1>1. asks' = asks \/ asks' = With(asks, k, Unread)
  BY DEF AskFor
<1> QED  BY <1>1, UnreadFits, WithFits

\* Frames come, and stamps, and none goes.
LEMMA LaterFits ==
  ASSUME NEW pages, NEW frames, NEW later, Fit(pages, frames),
         \A r \in DOMAIN frames :
           r \in DOMAIN later /\ (frames[r] # "none" => later[r] = frames[r])
  PROVE  Fit(pages, later)
<1>1. \A k \in DOMAIN pages : Fits(pages[k], k, later)
  BY DEF Fit, Fits
<1> QED  BY <1>1 DEF Fit

LEMMA ShownFits ==
  ASSUME GridInv
  PROVE  PageOK(PageShown) /\ Fits(PageShown, Key, table)
<1>1. CASE open /\ Key \in DOMAIN cache
  BY <1>1 DEF PageShown, GridInv, Fit
<1>2. CASE ~(open /\ Key \in DOMAIN cache)
  BY <1>2, UnreadFits DEF PageShown
<1> QED  BY <1>1, <1>2

-----------------------------------------------------------------------------
(* Steps.                                                                  *)

LEMMA GridBegins == GridInit => GridInv
<1> SUFFICES ASSUME GridInit PROVE GridInv
  OBVIOUS
<1>1. table = <<>> /\ cache = <<>> /\ asks = <<>> /\ open = FALSE
  BY DEF GridInit, ScreenClosed
<1>2. Key \in PageKeys
  BY ListAssumption DEF GridInit, ScreenClosed, Key, PageKeys
<1>3. GridTable /\ Fit(cache, table) /\ Fit(asks, table)
  BY <1>1 DEF GridTable, Fit
<1>4. AskedTyped
  BY DEF GridInit, AskedTyped
<1> QED  BY <1>1, <1>2, <1>3, <1>4 DEF GridInv

\* Whatever leaves the table alone.
LEMMA QuietGrid ==
  ASSUME GridInv, table' = table, Key' \in PageKeys, open' \in BOOLEAN,
         Fit(cache', table), Fit(asks', table), AskedTyped'
  PROVE  GridInv'
BY DEF GridInv, GridTable

\* What only the list does.
LEMMA GridListKeeps ==
  ASSUME GridInv, OpenList \/ CloseList \/ Fetching \/ Paging, AskedTyped'
  PROVE  GridInv'
<1>1. /\ GridTable /\ Key \in PageKeys /\ open \in BOOLEAN
      /\ Fit(cache, table) /\ Fit(asks, table)
  BY DEF GridInv
<1>2. \A k \in DOMAIN asks : k \in PageKeys /\ PageOK(asks[k]) /\ Fits(asks[k], k, table)
  BY <1>1 DEF Fit
<1>3. ASSUME NEW k \in DOMAIN asks, Serve(k) PROVE GridInv'
  <2> DEFINE page == PageAnswer(k[1], k[2])
  <2>1. PageOK(page) /\ Fits(page, k, table)
    BY <1>1, <1>2, <1>3, AnswerFits
  <2>2. /\ asks' = [asks EXCEPT ![k] = page] /\ cache' = cache
        /\ table' = table /\ Key' = Key /\ open' = open
    BY <1>3 DEF Serve, screen, Key
  <2> HIDE DEF page
  <2>3. asks' = With(asks, k, page)
    BY <1>3, <2>2 DEF With
  <2>4. Fit(asks', table)
    BY <1>1, <1>2, <1>3, <2>1, <2>3, WithFits
  <2> QED  BY <1>1, <2>2, <2>4, QuietGrid
<1>4. ASSUME NEW k \in DOMAIN asks, Arrive(k) PROVE GridInv'
  <2>1. /\ cache' = With(cache, k, asks[k]) /\ asks' = Without(asks, k)
        /\ table' = table /\ Key' = Key /\ open' = open
    BY <1>4 DEF Arrive, screen, Key
  <2>2. Fit(cache', table)
    BY <1>1, <1>2, <1>4, <2>1, WithFits
  <2>3. Fit(asks', table)
    BY <1>1, <2>1, WithoutFits
  <2> QED  BY <1>1, <2>1, <2>2, <2>3, QuietGrid
<1>5. ASSUME NEW k \in DOMAIN asks, Lost(k) PROVE GridInv'
  <2>1. /\ asks' = Without(asks, k) /\ cache' = cache
        /\ table' = table /\ Key' = Key /\ open' = open
    BY <1>5 DEF Lost, screen, Key
  <2>2. Fit(asks', table)
    BY <1>1, <2>1, WithoutFits
  <2> QED  BY <1>1, <2>1, <2>2, QuietGrid
<1>6. ASSUME NEW k \in DOMAIN cache, Evicted(k) PROVE GridInv'
  <2>1. /\ cache' = Without(cache, k) /\ asks' = asks
        /\ table' = table /\ Key' = Key /\ open' = open
    BY <1>6 DEF Evicted, screen, Key
  <2>2. Fit(cache', table)
    BY <1>1, <2>1, WithoutFits
  <2> QED  BY <1>1, <2>1, <2>2, QuietGrid
<1>7. ASSUME NEW k \in PageKeys, AskFor(k), table' = table, Key' = k, open' \in BOOLEAN,
             cache' = cache
      PROVE  GridInv'
  <2>1. Fit(asks', table)
    BY <1>1, <1>7, AskFits
  <2> QED  BY <1>1, <1>7, <2>1, QuietGrid
<1>8. CASE LookAgain
  <2>1. AskFor(Key) /\ table' = table /\ Key' = Key /\ open' = open /\ cache' = cache
    BY <1>8 DEF LookAgain, screen, Key
  <2> QED  BY <1>1, <1>7, <2>1
<1>9. CASE OpenList
  <2>1. AskFor(Key) /\ table' = table /\ Key' = Key /\ open' = TRUE /\ cache' = cache
    BY <1>9 DEF OpenList, Key
  <2> QED  BY <1>1, <1>7, <2>1
<1>10. CASE CloseList
  <2>1. /\ table' = table /\ Key' = <<DefaultFilter, 0>> /\ open' = FALSE
        /\ cache' = cache /\ asks' = asks
    BY <1>10 DEF CloseList, client, Key
  <2>2. <<DefaultFilter, 0>> \in PageKeys
    BY ListAssumption DEF PageKeys
  <2> QED  BY <1>1, <2>1, <2>2, QuietGrid
<1>11. ASSUME NEW f \in Filters, SetFilters(f) PROVE GridInv'
  <2>1. Key' = <<f, 0>> /\ table' = table /\ open' = open /\ cache' = cache /\ AskFor(<<f, 0>>)
    BY <1>11 DEF SetFilters, Key
  <2>2. <<f, 0>> \in PageKeys
    BY DEF PageKeys
  <2> QED  BY <1>1, <1>7, <2>1, <2>2
<1>12. ASSUME NEW to \in Nat, Turn(to) PROVE GridInv'
  <2>1. Key' = <<filter, to>> /\ table' = table /\ open' = open /\ cache' = cache
        /\ AskFor(<<filter, to>>)
    BY <1>12 DEF Turn, Key
  <2>2. <<filter, to>> \in PageKeys
    BY <1>1, <1>12 DEF PageKeys, Key
  <2> QED  BY <1>1, <1>7, <2>1, <2>2
<1>13. offset \in Nat /\ PageLimit \in Nat \ {0}
  BY <1>1, ListAssumption DEF Key, PageKeys
<1>14. CASE NextPage
  BY <1>12, <1>13, <1>14 DEF NextPage
<1>15. CASE PreviousPage
  <2>1. PICK to : to = (IF offset < PageLimit THEN 0 ELSE offset - PageLimit) /\ Turn(to)
    BY <1>15 DEF PreviousPage
  <2>2. to \in Nat
    BY <1>13, <2>1
  <2> QED  BY <1>12, <2>1, <2>2
<1> QED
  BY <1>3, <1>4, <1>5, <1>6, <1>8, <1>9, <1>10, <1>11, <1>14, <1>15 DEF Fetching, Paging

\* What a pass is asked for, or made of, are frames of the video.
LEMMA AskedKeeps ==
  ASSUME GridInv, [GridNext]_frame_grid
  PROVE  AskedTyped'
<1>1. /\ selected \subseteq Seconds /\ adrift \subseteq RequestShapes
      /\ request \in RequestShapes \cup {NoRequest}
      /\ passes \subseteq PassShapes
      /\ extracted \in BOOLEAN /\ passed \in BOOLEAN /\ sent \in Nat
      /\ DOMAIN table \subseteq Seconds
  BY DEF GridInv, AskedTyped, GridTable
<1>2. IsPending => request \in RequestShapes
  BY <1>1 DEF NoRequest, IsPending
<1>3. CASE UNCHANGED <<selected, request, prelabels>>
  BY <1>1, <1>3 DEF prelabels, stage, AskedTyped
<1>4. ASSUME NEW f \in DOMAIN PageShown.rows, ToggleSelected(f) PROVE AskedTyped'
  <2>1. f \in Seconds
    BY <1>1, <1>4, ShownFits DEF Fits
  <2> QED  BY <1>1, <1>4, <2>1 DEF ToggleSelected, prelabels, stage, AskedTyped
<1>5. ASSUME NEW reason \in Reasons, NEW fs \in SUBSET Seconds, NEW count \in 0 .. MaxCount,
             SendPrelabel(reason, fs, count)
      PROVE  AskedTyped'
  <2>1. request' \in RequestShapes
    BY <1>5 DEF SendPrelabel, RequestShapes
  <2> QED  BY <1>1, <1>5, <2>1 DEF SendPrelabel, stage, AskedTyped
<1>6. CASE PrelabelSelected
  <2>1. "manual" \in Reasons /\ 0 \in 0 .. MaxCount
    BY GridAssumption DEF Reasons
  <2> QED  BY <1>1, <1>5, <1>6, <2>1 DEF PrelabelSelected
<1>7. ASSUME NEW count \in 1 .. MaxCount, RandomiseUnsampled(count) \/ DiversifyUnsampled(count)
      PROVE  AskedTyped'
  <2>1. "random" \in Reasons /\ "diverse" \in Reasons /\ count \in 0 .. MaxCount /\ {} \in SUBSET Seconds
    BY <1>7, GridAssumption DEF Reasons
  <2> QED  BY <1>5, <1>7, <2>1 DEF RandomiseUnsampled, DiversifyUnsampled
<1>8. CASE PrelabelHeard
  BY <1>1, <1>8 DEF PrelabelHeard, prelabels, stage, AskedTyped
<1>9. CASE PrelabelLost \/ LeaveGrid
  BY <1>1, <1>2, <1>9 DEF PrelabelLost, LeaveGrid, stage, AskedTyped
<1>10. ASSUME NEW q \in RequestShapes, Queue(q)
       PROVE  passes' \subseteq PassShapes /\ extracted' = extracted /\ passed' \in BOOLEAN
  <2>1. passes' \subseteq PassShapes
    BY <1>1, <1>10 DEF Queue, PassShapes, RequestShapes
  <2>2. extracted' = extracted /\ passed' = TRUE
    BY <1>10, Zenon DEF Queue
  <2> QED  BY <2>1, <2>2
<1>11. ASSUME NEW q \in RequestShapes, NEW fs \in DrawnFor(q)
       PROVE  WithFrames(q, fs) \in RequestShapes
  <2>1. fs \in SUBSET Unsampled
    BY DEF DrawnFor, kSubset
  <2>2. fs \in SUBSET Seconds
    BY <1>1, <2>1 DEF Unsampled
  <2> QED  BY <2>2 DEF WithFrames, RequestShapes
<1>12. CASE DrawFrames
  <2>1. request \in RequestShapes
    BY <1>2, <1>12 DEF DrawFrames, IsPending
  <2>2. ASSUME NEW fs \in DrawnFor(request), request' = WithFrames(request, fs)
        PROVE  request' \in RequestShapes
    BY <1>11, <2>1, <2>2
  <2>3. ASSUME request' = [request EXCEPT !.at = "refused"]
        PROVE  request' \in RequestShapes
    BY <2>1, <2>3 DEF RequestShapes
  <2>4. request' \in RequestShapes
    BY <1>12, <2>2, <2>3 DEF DrawFrames
  <2> QED  BY <1>1, <1>12, <2>4 DEF DrawFrames, prelabels, stage, AskedTyped
<1>13. CASE QueuePass
  <2>1. request \in RequestShapes /\ Queue(request)
    BY <1>2, <1>13 DEF QueuePass, IsPending
  <2>2. request' \in RequestShapes
    BY <1>13, <2>1 DEF QueuePass, RequestShapes
  <2>3. passes' \subseteq PassShapes /\ extracted' = extracted /\ passed' \in BOOLEAN
    BY <1>10, <2>1
  <2> QED  BY <1>1, <1>13, <2>2, <2>3 DEF QueuePass, AskedTyped
<1>14. ASSUME NEW q \in adrift, AdriftGoesOn(q) PROVE AskedTyped'
  <2>1. q \in RequestShapes
    BY <1>1
  <2>2. ASSUME NEW fs \in DrawnFor(q), adrift' = (adrift \ {q}) \cup {WithFrames(q, fs)},
               UNCHANGED <<passes, stage>>
        PROVE  AskedTyped'
    <3>1. adrift' \subseteq RequestShapes
      BY <1>1, <1>11, <2>1, <2>2
    <3> QED  BY <1>1, <1>14, <2>2, <3>1 DEF AdriftGoesOn, stage, AskedTyped
  <2>3. ASSUME Queue(q), adrift' = adrift \ {q}
        PROVE  AskedTyped'
    <3>1. passes' \subseteq PassShapes /\ extracted' = extracted /\ passed' \in BOOLEAN
      BY <1>10, <2>1, <2>3
    <3> QED  BY <1>1, <1>14, <2>3, <3>1 DEF AdriftGoesOn, AskedTyped
  <2>4. ASSUME adrift' = adrift \ {q}, UNCHANGED <<passes, stage>>
        PROVE  AskedTyped'
    BY <1>1, <1>14, <2>4 DEF AdriftGoesOn, stage, AskedTyped
  <2> QED  BY <1>14, <2>2, <2>3, <2>4 DEF AdriftGoesOn
<1>15. CASE LastChunk
  <2>1. passes' \subseteq PassShapes
    BY <1>1, <1>15 DEF LastChunk, kSubset, PassShapes, Reasons
  <2> QED  BY <1>1, <1>15, <2>1 DEF LastChunk, AskedTyped
<1>16. ASSUME NEW p \in passes, Reports(p) \/ PassFails(p) PROVE AskedTyped'
  BY <1>1, <1>16 DEF Reports, PassFails, stage, AskedTyped
<1> QED
  BY <1>3, <1>4, <1>6, <1>7, <1>8, <1>9, <1>12, <1>13, <1>14, <1>15, <1>16
     DEF GridNext, frame_grid, Ticking, PublicFlagged, Pipeline, Extract

LEMMA TableKeeps ==
  ASSUME GridInv, (\E f \in Seconds : Extract(f)) \/ (\E p \in passes : Reports(p)), AskedTyped'
  PROVE  GridInv'
<1>1. GridTable /\ Fit(cache, table) /\ Fit(asks, table) /\ passes \subseteq PassShapes
      /\ Key \in PageKeys /\ open \in BOOLEAN
  BY DEF GridInv, AskedTyped
<1>2. /\ DOMAIN table' \subseteq Seconds
      /\ \A r \in DOMAIN table' : table'[r] \in Marks
      /\ \A r \in DOMAIN table :
           r \in DOMAIN table' /\ (table[r] # "none" => table'[r] = table[r])
  <2>1. ASSUME NEW f \in Seconds, Extract(f) PROVE <1>2!:
    BY <1>1, <2>1, GridAssumption DEF Extract, With, GridTable
  <2>2. ASSUME NEW p \in passes, Reports(p) PROVE <1>2!:
    <3>1. p.reason \in Marks
      BY <1>1, GridAssumption DEF PassShapes, Reasons
    <3>2. table' = [f \in DOMAIN table |->
                      IF f \in p.frames \cap Unsampled THEN p.reason ELSE table[f]]
      BY <2>2 DEF Reports
    <3>3. \A f \in Unsampled : table[f] = "none"
      BY DEF Unsampled
    <3> QED  BY <1>1, <3>1, <3>2, <3>3 DEF GridTable
  <2> QED  BY <2>1, <2>2
<1>3. UNCHANGED <<cache, asks, open>> /\ Key' = Key
  BY DEF Extract, Reports, screen, client, Key
<1>4. Fit(cache, table') /\ Fit(asks, table')
  BY <1>1, <1>2, LaterFits
<1> QED  BY <1>1, <1>2, <1>3, <1>4 DEF GridInv, GridTable

LEMMA GridKeeps == GridInv /\ [GridNext]_frame_grid => GridInv'
<1> SUFFICES ASSUME GridInv, [GridNext]_frame_grid PROVE GridInv'
  OBVIOUS
<1>1. AskedTyped'
  BY AskedKeeps
<1>2. Key \in PageKeys /\ open \in BOOLEAN /\ Fit(cache, table) /\ Fit(asks, table)
  BY DEF GridInv
<1>3. CASE UNCHANGED list
  <2>1. table' = table /\ Key' = Key /\ open' = open /\ cache' = cache /\ asks' = asks
    BY <1>3 DEF list, screen, client, Key
  <2> QED  BY <1>1, <1>2, <2>1, QuietGrid
<1>4. CASE PublicFlagged
  <2>1. asks' = asks \/ asks' = With(asks, Key, Unread)
    BY <1>4 DEF PublicFlagged
  <2>2. Fit(asks', table)
    BY <1>2, <2>1, UnreadFits, WithFits
  <2>3. table' = table /\ Key' = Key /\ open' = open /\ cache' = cache
    BY <1>4 DEF PublicFlagged, screen, Key
  <2> QED  BY <1>1, <1>2, <2>2, <2>3, QuietGrid
<1>5. CASE OpenList \/ CloseList \/ Fetching \/ Paging
  BY <1>1, <1>5, GridListKeeps
<1>6. CASE (\E f \in Seconds : Extract(f)) \/ (\E p \in passes : Reports(p))
  BY <1>1, <1>6, TableKeeps
<1> QED
  BY <1>3, <1>4, <1>5, <1>6
     DEF GridNext, frame_grid, LeaveGrid, Ticking, ToggleSelected, PrelabelSelected, SendPrelabel,
         PrelabelHeard, PrelabelLost, RandomiseUnsampled, DiversifyUnsampled, Pipeline,
         DrawFrames, QueuePass, LastChunk, AdriftGoesOn, prelabels, PassFails

\* Each value has its type.
THEOREM GridTypeCorrect == GridSpec => []GridTypeOK
<1>1. ASSUME GridInv PROVE GridTypeOK
  <2>1. filter \in Filters /\ offset \in Nat
    BY <1>1 DEF GridInv, Key, PageKeys
  <2>2. DOMAIN table \subseteq Nat /\ IsFiniteSet(DOMAIN table)
    BY <1>1, GridAssumption, GridIsFinite DEF GridInv, GridTable
  <2>3. ListTypeOK
    BY <1>1, <2>1, <2>2 DEF GridInv, GridTable, Fit, ListTypeOK
  <2> QED  BY <1>1, <2>3 DEF GridInv, GridTable, AskedTyped, PassShapes, GridTypeOK
<1>2. GridInv => GridTypeOK
  BY <1>1
<1> QED  BY <1>2, GridBegins, GridKeeps, PTL DEF GridSpec

\* A frame that is shown is of the filter chosen, and the stamp it is shown
\* with is its stamp.
THEOREM FramesShownFit == GridSpec => []RowsFit
<1>1. ASSUME GridInv PROVE RowsFit
  BY <1>1, ShownFits DEF Fits, Key, RowsFit
<1>2. GridInv => RowsFit
  BY <1>1
<1> QED  BY <1>2, GridBegins, GridKeeps, PTL DEF GridSpec
=============================================================================
