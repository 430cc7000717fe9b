\* Supplementary passes, drawn or picked by hand, and dry-runs beside the
\* automatic pass of a video of one or two segments.
SPECIFICATION Spec
CONSTANTS
  w1 = w1
  w2 = w2
  v1 = v1
  NoWorker = NoWorker
  NoVideo = NoVideo
  Workers <- OneWorker
  Videos <- OneVideo
  MaxAttempts = 1
  LeaseStale = 1
  SegmentCounts = {1, 2}
  SampleBudget = 1
  AdminKinds = {"prelabel", "dryrun"}
  MaxJobs = 4
  MaxStray = 0
INVARIANTS StampHasSource
PROPERTIES StampWriteOnce
