-------------------------- MODULE MCBuildCoordinator --------------------------
(* Instances of BuildCoordinator for TLC. *)
EXTENDS BuildCoordinator
===============================================================================
