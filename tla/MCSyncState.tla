------------------------------ MODULE MCSyncState ------------------------------
(* Instances of SyncState for TLC. *)
EXTENDS SyncState, TLC

CONSTANTS me, p1, p2, c1, c2

MCWriter == c1 :> p1 @@ c2 :> me

\* The first core ends where a segment does; of the rest its writer has cleared.
MCFirst == [blocks |-> {0, 15}, length |-> 16]
MCEmpty == [blocks |-> {}, length |-> 0]
MCBegun(n) == [blocks |-> 0 .. n - 1, length |-> n]
MCFirstStore ==
     p1 :> (c1 :> MCFirst @@ c2 :> MCEmpty)
  @@ p2 :> (c1 :> MCBegun(1) @@ c2 :> MCEmpty)
  @@ me :> (c1 :> [blocks |-> {15}, length |-> 16] @@ c2 :> MCBegun(1))
=============================================================================
