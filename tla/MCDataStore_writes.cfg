CONSTANTS
  w1 = w1
  w2 = w2
  e = e
  g = g
  Namespace = "data"
  Calls = {w1, w2}
  Docs = {e, g}
  MaxDownloads = 1
  MaxFails = 1
SPECIFICATION FairSpec
INVARIANTS
  ReturnedIsIndexed
  UpdatesAreTold
  LinksStayInDocument
PROPERTY CallsReturn
CHECK_DEADLOCK FALSE
