\* Each of the site's parts at the smallest size at which what its properties
\* are about can happen; the comments of the modules name the bounds.
SPECIFICATION SiteSpec
CONSTANTS
  Admin = Admin
  Visitor = Visitor
  me = me
  Users <- OneUser
  Images <- TwoImages
  PublicSample <- FirstPublic
  Boxes <- UnevenBoxes
  DeskBatch = 1
  Picked = {frame}
  MaxTries = 2
  Tabs <- TwoTabs
  Accounts <- OneAccount
  NoAccount = "nobody"
  StateTTL = 1
  SessionTTL = 2
  LastTick = 4
  MaxFlows = 2
  Taken <- TwoFrames
  BoxCount <- FirstHasTwo
  Spacing = 2
  Patches = {p1, p2}
  MaxFlagged = 2
  MaxCalls = 2
  Marks = {admin, user}
  Filters = {{admin}, {admin, user}}
  DefaultFilter = {admin}
  PageLimit = 2
  NewestFirst = TRUE
  MaxKeys = 2
  MaxVerdicts = 4
  MaxBatch = 2
INVARIANTS CounterExact  NothingLeftIsTrue NewestIsWatched
INVARIANTS RefusedOnlyIfCrossed SpacedUnlessOverlapped OnceUnlessReopened LabelIsTrue
PROPERTIES LeavesByWeight LiveGoesByLogout
CHECK_DEADLOCK FALSE
