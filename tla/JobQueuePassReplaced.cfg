\* A supplementary pass queued before the last chunk of a video is done.
SPECIFICATION Spec
CONSTANTS
  w1 = w1
  w2 = w2
  v1 = v1
  NoWorker = NoWorker
  NoVideo = NoVideo
  Workers <- OneWorker
  Videos <- OneVideo
  MaxAttempts = 1
  LeaseStale = 1
  SegmentCounts = {2}
  SampleBudget = 1
  AdminKinds = {"prelabel"}
  MaxJobs = 4
  MaxStray = 0
INVARIANTS AutomaticPassNotReplaced
