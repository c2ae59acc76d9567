---------------------------- MODULE CentroidRegistry ----------------------------
(***************************************************************************)
(* What the IVF centroid catalog promises to index builds for one source   *)
(* state and one descriptor fingerprint: there is at most one registered   *)
(* artifact, an artifact is registered only when it is completely written, *)
(* and it stays registered until maintenance has removed its objects.      *)
(***************************************************************************)
CONSTANTS Artifacts, None

VARIABLES entry,     \* the registered artifact, or None
          complete   \* artifacts whose objects are all in the warehouse

vars == <<entry, complete>>

Init == entry = None /\ complete = {}

Write(a) ==
    /\ complete' = complete \cup {a}
    /\ UNCHANGED entry

Register(a) ==
    /\ entry = None
    /\ a \in complete
    /\ entry' = a
    /\ UNCHANGED complete

Remove(a) ==
    /\ a \in complete
    /\ complete' = complete \ {a}
    /\ UNCHANGED entry

Forget ==
    /\ entry # None
    /\ entry \notin complete
    /\ entry' = None
    /\ UNCHANGED complete

Next ==
    \/ \E a \in Artifacts : Write(a) \/ Register(a) \/ Remove(a)
    \/ Forget

Spec == Init /\ [][Next]_vars
=================================================================================
