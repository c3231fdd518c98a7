CONSTANTS
  p1 = p1
  Peers = {p1}
  Ns = {"auth", "data"}
  Roles = {"none", "member", "blocked"}
  Autostops = {TRUE, FALSE}
  OwnProject = TRUE
  MaxBlocks = 1
  MaxChurn = 2
SPECIFICATION FairSpec
INVARIANTS
  EnabledIsAllowed
PROPERTIES
  FullStopLasts
  FullStopComes
  DataIsEnabled
CHECK_DEADLOCK FALSE
