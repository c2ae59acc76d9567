-------------------------- MODULE MCGuardedWorkers --------------------------
(* A build, a search and a status call are tasks, maintenance and a drop are on *)
(* threads of their own; each cfg chooses which of them there are.              *)
EXTENDS GuardedWorkers
CONSTANTS build, search, status, maintain, drop
MCSections == [c \in Calls |-> CASE c = build -> Build [] c = search -> Search [] c = status -> Status
                                 [] c = maintain -> Maintain [] c = drop -> Drop]
=============================================================================
