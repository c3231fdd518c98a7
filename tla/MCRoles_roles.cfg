CONSTANTS
  c = c
  x = x
  y = y
  Devices = {c, x}
  Creator = c
  NewRoles = {"coordinator"}
  Leavers = {x}
  Times = {1, 2}
  MaxVersions = 3
  MaxCrashes = 1
SPECIFICATION FairSpec
INVARIANTS
  GrantsAreBacked
  OnlyLeaversLoseData
PROPERTY LeftIsCleared
CHECK_DEADLOCK FALSE
