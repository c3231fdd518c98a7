CONSTANTS
  x = x
  k1 = k1
  k2 = k2
  k3 = k3
  m1 = m1
  Devices = {x}
  Conns <- MCConns
  DeviceOf <- MCDeviceOf
  Sends = {m1}
  To <- MCTo
  MaxTime = 1
SPECIFICATION FairSpec
INVARIANTS
  ShownIsAnnounced
PROPERTIES
  FailsWhenGone
  SendsEnd
CHECK_DEADLOCK FALSE
