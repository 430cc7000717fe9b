\* An image that fails to load makes the screen refetch its pages.
SPECIFICATION Spec
CONSTANTS
  Admin = Admin
  Visitor = Visitor
  me = me
  other = other
  Me = me
  Users <- OneUser
  Images <- ThreeImages
  PublicSample = {}
  Boxes <- OneBoxEach
  Others <- Nobody
  BatchSize = 2
  PrefetchMargin = 0
  UrlsExpire = TRUE
  MaxPages = 4
INVARIANTS WalkRulesAll
