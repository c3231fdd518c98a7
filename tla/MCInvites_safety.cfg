CONSTANTS
  m1 = m1
  m2 = m2
  X = X
  Y = Y
  a = a
  b = b
  c = c
  None = None
  Peers <- MCPeers
  Projects = {X}
  Invites <- MCInvites
  PeerOf <- MCPeerOfOne
  ProjectOf <- MCProjectOfOne
  Env = {"cancel", "disconnect", "assignFails", "addFails", "invitedRestarts", "invitorRestarts"}
SPECIFICATION Spec
INVARIANTS
  OneAcceptPerProject
  JoinedIsSettled
  OutcomeIsTheAnswer
PROPERTY RefinesMembership
