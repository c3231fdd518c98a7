---------------------------- MODULE MCLocalPeers ----------------------------
(* Instances of LocalPeers for TLC. *)
EXTENDS LocalPeers, TLC

CONSTANTS x, k1, k2, k3, m1

\* Three connections with one device.
MCConns == {k1, k2, k3}
MCDeviceOf == k1 :> x @@ k2 :> x @@ k3 :> x

MCTo == m1 :> x
=============================================================================
