----------------------- MODULE MCSessionCoordination -----------------------
(* Instance of SessionCoordination for TLC. *)
EXTENDS SessionCoordination, TLC

Symmetry == Permutations(Builders) \cup Permutations(Inodes) \cup Permutations(Names)
============================================================================
