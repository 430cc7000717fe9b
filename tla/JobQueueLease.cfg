\* Two workers that may stall, crash and be heard late, over two snapshot
\* jobs, the kind that needs nothing else in the database.
SPECIFICATION Spec
CONSTANTS
  w1 = w1
  w2 = w2
  v1 = v1
  NoWorker = NoWorker
  NoVideo = NoVideo
  Workers <- TwoWorkers
  Videos <- NoVideos
  MaxAttempts = 2
  LeaseStale = 1
  SegmentCounts = {1}
  SampleBudget = 1
  AdminKinds = {"snapshot"}
  MaxJobs = 2
  MaxStray = 1
SYMMETRY WorkerSymmetry
INVARIANTS TypeOK LeaseConsistent AttemptExclusive DoneHasReport
PROPERTIES OutcomeNotOverturned
