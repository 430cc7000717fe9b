----------------------------- MODULE MCJobQueue -----------------------------
(* Small instances of the job queue.                                       *)
EXTENDS JobQueue, TLC

CONSTANTS w1, w2, v1

OneWorker == {w1}
TwoWorkers == {w1, w2}
NoVideos == {}
OneVideo == {v1}

\* Workers and videos are interchangeable: no action or property of the
\* safety runs names one.
WorkerSymmetry == Permutations(Workers)
=============================================================================
