\* A video of one segment whose requests may be served after the worker gave up
\* on them, and after a second attempt has completed the same chunk.
SPECIFICATION FairSpec
CONSTANTS
  w1 = w1
  w2 = w2
  v1 = v1
  NoWorker = NoWorker
  NoVideo = NoVideo
  Workers <- OneWorker
  Videos <- OneVideo
  MaxAttempts = 2
  LeaseStale = 1
  SegmentCounts = {1}
  SampleBudget = 1
  AdminKinds = {}
  MaxJobs = 0
  MaxStray = 1
INVARIANTS AutomaticPassOnce
PROPERTIES JobsSettle
