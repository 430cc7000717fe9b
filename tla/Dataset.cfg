\* Two videos on the disk, two frames in the evaluation pool, a class worded
\* from two screens; every video of up to four segments and a bit, every pool,
\* hash sequence and list of detections within the bounds; one frame in a grid, and
\* one pass asked for beside the automatic one.
SPECIFICATION DatasetSpec
CONSTANTS
  Videos = {v1, v2}
  Chunks = {1}
  Frames = {1}
  TTL = 1
  MaxTime = 2
  MaxAttempts = 2
  MaxClaims = 4
  SegmentSeconds = 3
  Bits = {1, 2, 3}
  MaxDuration = 13
  MaxFrames = 13
  MaxHashes = 4
  ClassNames = {class1}
  Wordings = {wording1, wording2, wording3}
  Screens = {screen1, screen2}
  Requests = {request1, request2}
  MaxActive = 1
  Letters = 2
  MaxDay = 2
  MaxUpdates = 3
  MaxStamped = 2
  Pool = {1, 2}
  Classes = {c1}
  MaxBoxes = 1
  PageSize = 2
  MaxInFlight = 1
  Jobs = {j1}
  MaxRuns = 2
  MaxEdits = 2
  Tenths = {0, 5, 7}
  Confidences = {1, 2}
  MaxDetections = 3
  MaxTruth = 2
  Images = {1, 2}
  Parts = 60
  Marks = {"none", "random", "manual", "diverse"}
  Filters = {{"none", "random", "manual", "diverse"}, {"none"}}
  DefaultFilter = {"none", "random", "manual", "diverse"}
  PageLimit = 1
  NewestFirst = FALSE
  MaxKeys = 2
  Seconds = {1}
  SampleSize = 1
  MaxCount = 1
  MaxRequests = 1
INVARIANTS DatasetTypeOK RowsHaveObjects ScoredWasExamined ManifestIsWhole
INVARIANTS SplitsHold AdoptsFresh RowsFit
INVARIANTS OneWordingUnlessRaced CoveredOnce DrawnAcross MeanOfBestPrecisions
PROPERTIES DoomedByAgeAlone AdminLabelStands
CHECK_DEADLOCK FALSE
