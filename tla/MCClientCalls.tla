--------------------------- MODULE MCClientCalls ----------------------------
(***************************************************************************)
(* ClientCalls with results of up to three batches, two threads of which   *)
(* one closes, and an embedded and a remote caller on two names.           *)
(***************************************************************************)
EXTENDS ClientCalls

CONSTANTS t1, t2, embedded, remote
=============================================================================
