------------------------------ MODULE LeaseTable ------------------------------
(***************************************************************************)
(* What cross-process build coordination promises, without locks or files: *)
(*                                                                         *)
(*   - at most one build holds the reservation of an index identifier;     *)
(*   - a reservation pins the warehouse roots its build writes to;         *)
(*   - an orphan sweep starts only when every reservation has pinned its   *)
(*     snapshot root, protects at least every pinned root, and no          *)
(*     reservation or pin is added until the sweep ends.                   *)
(*                                                                         *)
(* SessionCoordination implements this table with one flock'ed session     *)
(* file and one flock'ed lease file per identifier                         *)
(* (rust/parqdb-local/src/coordination.rs).                                *)
(***************************************************************************)
CONSTANTS Names,      \* index identifiers
          Builders,   \* build tasks, of any process
          Roots       \* snapshot-root URIs

VARIABLES holders,    \* holders[n]: the builds that hold the lease of n
          pins,       \* pins[b]: the roots build b has pinned
          sweeping,   \* an orphan sweep has its protected set and may delete
          protected   \* the roots that sweep must not touch

vars == <<holders, pins, sweeping, protected>>

Holding(b) == \E n \in Names : b \in holders[n]

Init ==
    /\ holders = [n \in Names |-> {}]
    /\ pins = [b \in Builders |-> {}]
    /\ sweeping = FALSE
    /\ protected = {}

Reserve(b, n) ==
    /\ ~sweeping
    /\ ~Holding(b)
    /\ holders[n] = {}
    /\ holders' = [holders EXCEPT ![n] = {b}]
    /\ pins' = [pins EXCEPT ![b] = {}]
    /\ UNCHANGED <<sweeping, protected>>

Pin(b, r) ==
    /\ ~sweeping
    /\ Holding(b)
    /\ pins' = [pins EXCEPT ![b] = @ \cup {r}]
    /\ UNCHANGED <<holders, sweeping, protected>>

Release(b) ==
    /\ Holding(b)
    /\ holders' = [n \in Names |-> holders[n] \ {b}]
    /\ pins' = [pins EXCEPT ![b] = {}]
    /\ UNCHANGED <<sweeping, protected>>

BeginSweep(P) ==
    /\ ~sweeping
    /\ \A b \in Builders : Holding(b) => pins[b] # {} /\ pins[b] \subseteq P
    /\ sweeping' = TRUE
    /\ protected' = P
    /\ UNCHANGED <<holders, pins>>

EndSweep ==
    /\ sweeping
    /\ sweeping' = FALSE
    /\ protected' = {}
    /\ UNCHANGED <<holders, pins>>

Next ==
    \/ \E b \in Builders, n \in Names : Reserve(b, n)
    \/ \E b \in Builders, r \in Roots : Pin(b, r)
    \/ \E b \in Builders : Release(b)
    \/ \E P \in SUBSET Roots : BeginSweep(P)
    \/ EndSweep

Spec == Init /\ [][Next]_vars
===============================================================================
