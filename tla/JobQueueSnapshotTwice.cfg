\* A snapshot job whose report is served and whose completion is lost.
SPECIFICATION Spec
CONSTANTS
  w1 = w1
  w2 = w2
  v1 = v1
  NoWorker = NoWorker
  NoVideo = NoVideo
  Workers <- OneWorker
  Videos <- NoVideos
  MaxAttempts = 2
  LeaseStale = 1
  SegmentCounts = {1}
  SampleBudget = 1
  AdminKinds = {"snapshot"}
  MaxJobs = 1
  MaxStray = 0
INVARIANTS SnapshotWrittenOnce
