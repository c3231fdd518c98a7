CONSTANTS
  a = a
  b = b
  None = None
  Hosts = {a, b}
  Key <- MCKey
  MaxLinks = 2
  MaxDials <- MCDials
  MaxStops <- MCStops
  MaxCuts = 1
SPECIFICATION DiscoveryFairSpec
INVARIANTS
  OneAtATime
  OneSurvives
PROPERTIES
  SwapEnds
  StopEnds
CHECK_DEADLOCK FALSE
