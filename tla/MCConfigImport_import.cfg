CONSTANTS
  a = a
  an = an
  f = f
  g = g
  p = p
  q = q
  en = en
  Configs <- MCConfigs
  us = us
  none = none
  NoIcon = none
  NoRegion = none
  MaxImports = 3
  MaxFaults = 1
SPECIFICATION Spec
CHECK_DEADLOCK FALSE
INVARIANTS
  SettingsHold
  OneConfigIsLeft
  ClosestIsShown
