\* An administrator and another contributor rule on the frames ahead.
SPECIFICATION FairSpec
CONSTANTS
  Admin = Admin
  Visitor = Visitor
  me = me
  other = other
  Me = me
  Users <- TwoUsers
  Images <- TwoImages
  PublicSample = {}
  Boxes <- OneBoxEach
  Others <- Company
  BatchSize = 1
  PrefetchMargin = 1
  UrlsExpire = FALSE
  MaxPages = 3
INVARIANTS WalkRulesAll
PROPERTIES WalkEnds
