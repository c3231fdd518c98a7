CONSTANTS
  m1 = m1
  m2 = m2
  X = X
  Y = Y
  a = a
  b = b
  c = c
  None = None
  Peers <- MCPeers
  Projects = {X, Y}
  Invites <- MCInvites
  PeerOf <- MCPeerOfTwo
  ProjectOf <- MCProjectOfTwo
  Env = {"addFails"}
SPECIFICATION FairSpec
PROPERTIES
  AcceptEnds
  InviteEnds
  RoleBringsMembership
CHECK_DEADLOCK FALSE
