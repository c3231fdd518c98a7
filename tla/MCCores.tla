-------------------------------- MODULE MCCores --------------------------------
(* Instances of Cores for TLC. *)
EXTENDS Cores, TLC

CONSTANTS me, b

\* The other device tells of its own auth core, and of the creator's.
MCAuthKeys == b :> {me, b}
=============================================================================
