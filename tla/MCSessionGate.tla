--------------------------- MODULE MCSessionGate ---------------------------
(* Instances of SessionGate for TLC. *)
EXTENDS SessionGate, TLC

Symmetry == Permutations(Sessions) \cup Permutations(Slots)
              \cup Permutations(ActivePermits) \cup Permutations(SuspendedPermits)
=============================================================================
