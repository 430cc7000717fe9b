\* One worker takes a video of one or two segments to its automatic pass,
\* running any of the jobs twice; it may fail or crash at any step.
SPECIFICATION FairSpec
CONSTANTS
  w1 = w1
  w2 = w2
  v1 = v1
  NoWorker = NoWorker
  NoVideo = NoVideo
  Workers <- OneWorker
  Videos <- OneVideo
  MaxAttempts = 2
  LeaseStale = 1
  SegmentCounts = {1, 2}
  SampleBudget = 1
  AdminKinds = {}
  MaxJobs = 0
  MaxStray = 0
INVARIANTS ChunkPairing TransientNeverFails LastChunkEnqueues
PROPERTIES KeepsLifecycle VideoIsPrelabelled
