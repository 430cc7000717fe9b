\* Pages of two that wrap and are refetched when an image fails to load, with one
\* frame of two boxes.
SPECIFICATION Spec
CONSTANTS
  Admin = Admin
  Visitor = Visitor
  me = me
  other = other
  Me = me
  Users <- OneUser
  Images <- TwoImages
  PublicSample = {}
  Boxes <- UnevenBoxes
  Others <- Nobody
  BatchSize = 2
  PrefetchMargin = 1
  UrlsExpire = TRUE
  MaxPages = 3
INVARIANTS EvalNeverRuled
