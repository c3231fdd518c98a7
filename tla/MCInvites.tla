------------------------------ MODULE MCInvites ------------------------------
(* Instances of Invites for TLC. *)
EXTENDS Invites, TLC

CONSTANTS m1, m2, X, Y, a, b, c

MCPeers == {m1, m2}

\* Two members invite to one project, one of them twice.
MCInvites == {a, b, c}
MCPeerOfOne == a :> m1 @@ b :> m2 @@ c :> m1
MCProjectOfOne == a :> X @@ b :> X @@ c :> X

\* Two members invite to one project, and one of them to another.
MCPeerOfTwo == a :> m1 @@ b :> m2 @@ c :> m1
MCProjectOfTwo == a :> X @@ b :> X @@ c :> Y
=============================================================================
