----------------------------- MODULE SourceStore -----------------------------
(***************************************************************************)
(* The source videos on the box's disk, and the download and chunk jobs    *)
(* that write, read and prune them.  Neither knows of the other: a         *)
(* download deletes what is old before it fetches, a chunk job created     *)
(* earlier or later must still find its video, and a run may die at any    *)
(* point while the disk and the bucket keep what it wrote.                 *)
(*                                                                         *)
(* Leases and heartbeats are JobQueue's business: here the one worker      *)
(* takes the oldest pending job, and a run that dies or fails for a reason *)
(* worth a retry leaves its job to the reaper.  A frame is a number within *)
(* its chunk; the key of its object is that and nothing else.              *)
(***************************************************************************)
EXTENDS Integers, FiniteSetsExt

CONSTANTS
  Videos,
  Chunks,        (* the segments a fan-out cuts                             *)
  Frames,        (* bound: the frames ffmpeg may find in one                *)
  TTL,           (* Store.TTL                                               *)
  MaxTime,       (* bound: the clock stops there                            *)
  MaxAttempts,   (* the reaper's ceiling                                    *)
  MaxClaims      (* bound: the jobs claimed in all                          *)

ASSUME SourceAssumption ==
  /\ TTL \in Nat \ {0} /\ MaxTime \in Nat /\ MaxAttempts \in Nat \ {0}
  /\ IsFiniteSet(Videos) /\ IsFiniteSet(Chunks) /\ MaxClaims \in Nat
  /\ 0 \notin Chunks

VARIABLES
  clock,
  disk,        (* the file of each video, NoFile, a .part or the whole      *)
  fetched,     (* history: when a video was last fetched whole, or Never    *)
  born,        (* the id of each job, 0 before it is inserted               *)
  status,
  attempts,
  run,         (* what the worker is doing, or Unoccupied                   *)
  titles,      (* videos.title: "none" or "known"                           *)
  objects,     (* the bucket: keys <<video, chunk, frame>>                  *)
  rows         (* images, by the same key                                   *)

store == <<clock, disk, fetched, born, status, attempts, run, titles, objects, rows>>
jobs == <<born, status, attempts>>
bucket == <<objects, rows>>

DiskJobs == Videos \X (Chunks \cup {0})      \* 0 is the download
VideoOf(j) == j[1]
IsDownload(j) == j[2] = 0
Keys == Videos \X Chunks \X Frames

Never == -1
NoFile == [kind |-> "none", written |-> Never]
File(kind) == [kind |-> kind, written |-> clock]

Unoccupied == [at |-> "idle"]
Step(step) == run.at = step
Running(j, step, title, kept) == [at |-> step, job |-> j, title |-> title, kept |-> kept]
Proceed(step) == run' = [run EXCEPT !.at = step]

-----------------------------------------------------------------------------
(* The store.                                                              *)

\* Store.Path: a complete file only.
HasSource(v) == disk[v].kind = "whole"

\* Mistake: a file is kept while it is old, and deleted while it is new.
ExpiredBackwards(file) == file.kind # "none" /\ file.written > clock - TTL

\* Not after the cutoff.
Expired(file) == file.kind # "none" /\ file.written <= clock - TTL

-----------------------------------------------------------------------------
(* Jobs, as far as the disk cares.                                         *)

Pending == {j \in DiskJobs : status[j] = "pending"}

Newest == Cardinality({j \in DiskJobs : born[j] # 0})

Oldest(j) == j \in Pending /\ \A k \in Pending : born[j] <= born[k]

SubmitSource(v) ==
  /\ born[<<v, 0>>] = 0
  /\ born' = [born EXCEPT ![<<v, 0>>] = Newest + 1]
  /\ status' = [status EXCEPT ![<<v, 0>>] = "pending"]
  /\ UNCHANGED <<clock, disk, fetched, attempts, run, titles, bucket>>

TakeOldest(j) ==
  /\ run = Unoccupied /\ Oldest(j)
  /\ MapThenSumSet(LAMBDA k : attempts[k], DiskJobs) < MaxClaims
  /\ status' = [status EXCEPT ![j] = "running"]
  /\ attempts' = [attempts EXCEPT ![j] = @ + 1]
  /\ run' = Running(j, IF IsDownload(j) THEN "prune" ELSE "locate", "none", {})
  /\ UNCHANGED <<clock, disk, fetched, born, titles, bucket>>

\* How a run ends: done, failed for good, or left to the reaper.
EndRun(outcome) ==
  /\ run' = Unoccupied
  /\ status' = [status EXCEPT ![run.job] = outcome]
  /\ UNCHANGED <<born, attempts>>

\* The process dies, or a step fails for a reason a retry may cure.
RunDies ==
  /\ run # Unoccupied
  /\ EndRun("lost")
  /\ UNCHANGED <<clock, disk, fetched, titles, bucket>>

ReapLost(j) ==
  /\ status[j] = "lost"
  /\ status' = [status EXCEPT
                  ![j] = IF attempts[j] < MaxAttempts THEN "pending" ELSE "failed"]
  /\ UNCHANGED <<clock, disk, fetched, born, attempts, run, titles, bucket>>

RunCompletes ==
  /\ Step("complete")
  /\ EndRun("done")
  /\ UNCHANGED <<clock, disk, fetched, titles, bucket>>

-----------------------------------------------------------------------------
(* A download: prune, fetch unless the file is there, probe, fan out.      *)

\* All that has expired, or what was reached before a file would not go, which
\* is no failure of the download.
PruneStore ==
  /\ Step("prune") /\ Proceed("fetch")
  /\ \E gone \in SUBSET {v \in Videos : Expired(disk[v])} :
       disk' = [v \in Videos |-> IF v \in gone THEN NoFile ELSE disk[v]]
  /\ UNCHANGED <<clock, fetched, jobs, titles, bucket>>

FetchSkipped ==
  /\ Step("fetch") /\ HasSource(VideoOf(run.job)) /\ Proceed("fan out")
  /\ UNCHANGED <<clock, disk, fetched, jobs, titles, bucket>>

FetchCompletes ==
  /\ Step("fetch") /\ ~HasSource(VideoOf(run.job))
  /\ run' = [run EXCEPT !.at = "fan out", !.title = "known"]
  /\ disk' = [disk EXCEPT ![VideoOf(run.job)] = File("whole")]
  /\ fetched' = [fetched EXCEPT ![VideoOf(run.job)] = clock]
  /\ UNCHANGED <<clock, jobs, titles, bucket>>

\* Killed, or out of its own retries: a .part stays.
FetchBreaks ==
  /\ Step("fetch") /\ ~HasSource(VideoOf(run.job))
  /\ EndRun("lost")
  /\ disk' = [disk EXCEPT ![VideoOf(run.job)] = File("part")]
  /\ UNCHANGED <<clock, fetched, titles, bucket>>

\* ErrUnavailable, or a fan-out the API rejects.
DownloadDoomed ==
  /\ \/ Step("fetch") /\ ~HasSource(VideoOf(run.job))
     \/ Step("fan out")
  /\ EndRun("failed")
  /\ UNCHANGED <<clock, disk, fetched, titles, bucket>>

\* COALESCE(?, title): a run that skipped the fetch learnt no title.
Retitled(old, sent) == IF sent = "none" THEN old ELSE sent

\* The chunk jobs that are not there yet, in segment order.
Uncut(v) == {j \in DiskJobs : VideoOf(j) = v /\ ~IsDownload(j) /\ born[j] = 0}

FanOut ==
  LET v == VideoOf(run.job)
      Rank(j) == Cardinality({k \in Uncut(v) : k[2] <= j[2]})
  IN /\ Step("fan out") /\ Proceed("complete")
     /\ titles' = [titles EXCEPT ![v] = Retitled(@, run.title)]
     /\ born' = [j \in DiskJobs |-> IF j \in Uncut(v) THEN Newest + Rank(j) ELSE born[j]]
     /\ status' = [j \in DiskJobs |-> IF j \in Uncut(v) THEN "pending" ELSE status[j]]
     /\ UNCHANGED <<clock, disk, fetched, attempts, bucket>>

-----------------------------------------------------------------------------
(* A chunk: locate the source, extract and dedup, upload, report.          *)

\* The affinity guard: no complete file is no use trying again.
ChunkLocates ==
  /\ Step("locate")
  /\ \/ HasSource(VideoOf(run.job)) /\ Proceed("extract") /\ UNCHANGED jobs
     \/ ~HasSource(VideoOf(run.job)) /\ EndRun("no source")
  /\ UNCHANGED <<clock, disk, fetched, titles, bucket>>

\* ffmpeg and the dedup leave some frames, or none at all.
ChunkExtracts ==
  /\ Step("extract")
  /\ \E kept \in SUBSET Frames : run' = [run EXCEPT !.at = "upload", !.kept = kept]
  /\ UNCHANGED <<clock, disk, fetched, jobs, titles, bucket>>

KeysOf(kept) == {<<run.job[1], run.job[2], f>> : f \in kept}

\* Mistake: the upload's error is dropped, and the run goes on.
UploadSwallowing ==
  /\ Step("upload") /\ Proceed("report")
  /\ \E sent \in SUBSET KeysOf(run.kept) : objects' = objects \cup sent
  /\ UNCHANGED <<clock, disk, fetched, jobs, titles, rows>>

\* All of it, or what was in flight when one PUT failed.
ChunkUploads ==
  /\ Step("upload")
  /\ \/ /\ objects' = objects \cup KeysOf(run.kept)
        /\ Proceed("report") /\ UNCHANGED jobs
     \/ /\ \E sent \in SUBSET KeysOf(run.kept) : objects' = objects \cup sent
        /\ EndRun("lost")
  /\ UNCHANGED <<clock, disk, fetched, titles, rows>>

\* The rows of the kept frames, or a refusal that would never change.
ChunkReports ==
  /\ Step("report")
  /\ \/ rows' = rows \cup KeysOf(run.kept) /\ Proceed("complete") /\ UNCHANGED jobs
     \/ EndRun("failed") /\ UNCHANGED rows
  /\ UNCHANGED <<clock, disk, fetched, titles, objects>>

-----------------------------------------------------------------------------

StoreTick ==
  /\ clock < MaxTime
  /\ clock' = clock + 1
  /\ UNCHANGED <<disk, fetched, jobs, run, titles, bucket>>

StoreInit ==
  /\ clock = 0
  /\ disk = [v \in Videos |-> NoFile] /\ fetched = [v \in Videos |-> Never]
  /\ born = [j \in DiskJobs |-> 0] /\ attempts = [j \in DiskJobs |-> 0]
  /\ status = [j \in DiskJobs |-> "absent"]
  /\ run = Unoccupied
  /\ titles = [v \in Videos |-> "none"]
  /\ objects = {} /\ rows = {}

StoreNext ==
  \/ StoreTick
  \/ \E v \in Videos : SubmitSource(v)
  \/ \E j \in DiskJobs : TakeOldest(j) \/ ReapLost(j)
  \/ RunDies \/ RunCompletes
  \/ PruneStore \/ FetchSkipped \/ FetchCompletes \/ FetchBreaks \/ DownloadDoomed
  \/ FanOut
  \/ ChunkLocates \/ ChunkExtracts \/ ChunkUploads \/ ChunkReports

StoreSpec == StoreInit /\ [][StoreNext]_store

-----------------------------------------------------------------------------
(* Properties.                                                             *)

Downloads == {"prune", "fetch", "fan out", "complete"}
Extractions == {"locate", "extract", "upload", "report", "complete"}

Runs ==
  {Unoccupied} \cup {Running(j, step, title, kept) :
                 j \in DiskJobs, step \in Downloads \cup Extractions,
                 title \in {"none", "known"}, kept \in SUBSET Frames}

\* Type correctness.
StoreTypeOK ==
  /\ clock \in Nat
  /\ disk \in [Videos -> [kind : {"none", "part", "whole"}, written : Nat \cup {Never}]]
  /\ fetched \in [Videos -> Nat \cup {Never}]
  /\ born \in [DiskJobs -> Nat] /\ attempts \in [DiskJobs -> Nat]
  /\ status \in [DiskJobs -> {"absent", "pending", "running", "lost",
                          "done", "failed", "no source"}]
  /\ run \in Runs
  /\ titles \in [Videos -> {"none", "known"}]
  /\ objects \subseteq Keys /\ rows \subseteq Keys

\* A chunk job is retired for want of its video only when the video has been on
\* the box and a whole TTL has gone by since: no order of downloads, deaths and
\* re-runs prunes a source out from under a chunk earlier than that.
DoomedByAgeAlone ==
  [][\A j \in DiskJobs : status'[j] = "no source" /\ status[j] # "no source" =>
       fetched[VideoOf(j)] # Never /\ fetched[VideoOf(j)] + TTL <= clock]_store

\* What a chunk extracts from is the whole video, never what an interrupted
\* download left under the video's name: a truncated file decodes far enough to
\* look like a short segment.  The file may go while ffmpeg has it open, but
\* only in a download, and there is one worker.
ExtractsWhole == Step("extract") => disk[VideoOf(run.job)].kind = "whole"

\* Whatever dies and whenever, each image row has its object: a frame shown to
\* a labeller, or copied into a snapshot, is there.
RowsHaveObjects == rows \subseteq objects

\* A title once stored is never lost to a re-run that found the file on disk
\* and learnt none.
TitleStands == [][\A v \in Videos : titles[v] = "known" => titles'[v] = "known"]_store
=============================================================================
