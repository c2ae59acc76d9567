--------------------------- MODULE MCCentroidClaims ---------------------------
(* Instance of CentroidClaims for TLC. *)
EXTENDS CentroidClaims
===============================================================================
