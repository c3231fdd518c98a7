----------------------------- MODULE MCDataStore -----------------------------
(* Instances of DataStore for TLC. *)
EXTENDS DataStore, TLC

CONSTANTS w1, w2, e, g
=============================================================================
