---------------------------- MODULE QueryAdmission ----------------------------
(***************************************************************************)
(* Admission of queries to one runtime (runtime/admission.rs): MaxActive   *)
(* slots behind a fair semaphore, and a counted queue in front of it.  The *)
(* counter and the semaphore are two pieces of state that a query changes  *)
(* at different times, and a waiting query may time out or be dropped      *)
(* between any two of them.                                                *)
(***************************************************************************)
EXTENDS Naturals, Sequences, SequencesExt, FiniteSets

CONSTANTS Queries, MaxActive, MaxQueued
BoundsAssumption == IsFiniteSet(Queries) /\ MaxActive \in Nat \ {0} /\ MaxQueued \in Nat

VARIABLES pc,        \* where each query is in acquire
          seen,      \* the value of the counter each query holds for its compare-exchange
          queued,    \* the AtomicUsize
          available, \* permits of the semaphore that nobody has
          waiters    \* the semaphore's queue
vars == <<pc, seen, queued, available, waiters>>

\* granted: the permit is assigned to the waiter, whose task has not run yet; taken:
\* the task has it and still holds its queue guard; leaving: the wait is over without
\* a permit, and the guard is still to be dropped.
Places == {"out", "loading", "swapping", "entered", "waiting", "granted", "taken", "leaving", "active"}
At(place) == {q \in Queries : pc[q] = place}
Guarded == {q \in Queries : pc[q] \in {"entered", "waiting", "granted", "taken", "leaving"}}
Permitted == {q \in Queries : pc[q] \in {"granted", "taken", "active"}}
TypeOK == /\ pc \in [Queries -> Places]
          /\ seen \in [Queries -> 0..MaxQueued]
          /\ queued \in 0..MaxQueued
          /\ available \in 0..MaxActive
          /\ waiters \in Seq(Queries) /\ IsInjective(waiters)
          /\ {waiters[k] : k \in DOMAIN waiters} = At("waiting")

Init == /\ pc = [q \in Queries |-> "out"] /\ seen = [q \in Queries |-> 0]
        /\ queued = 0 /\ available = MaxActive /\ waiters = <<>>
Go(q, place) == pc' = [pc EXCEPT ![q] = place]

TryAcquire(q) ==
    /\ pc[q] = "out"
    /\ IF available > 0 THEN available' = available - 1 /\ Go(q, "active")
       ELSE UNCHANGED available /\ Go(q, "loading")
    /\ UNCHANGED <<seen, queued, waiters>>
Load(q) ==
    /\ pc[q] = "loading" /\ Go(q, "swapping") /\ seen' = [seen EXCEPT ![q] = queued]
    /\ UNCHANGED <<queued, available, waiters>>
\* compare_exchange_weak may fail without a reason, and then returns what it read.
EnterQueue(q) ==
    /\ pc[q] = "swapping"
    /\ \/ seen[q] >= MaxQueued /\ Go(q, "out") /\ UNCHANGED <<seen, queued>>
       \/ seen[q] < MaxQueued /\ seen[q] = queued /\ queued' = queued + 1 /\ Go(q, "entered")
          /\ UNCHANGED seen
       \/ seen[q] < MaxQueued /\ seen' = [seen EXCEPT ![q] = queued] /\ UNCHANGED <<pc, queued>>
    /\ UNCHANGED <<available, waiters>>
AcquireOwned(q) ==
    /\ pc[q] = "entered"
    /\ IF available > 0 THEN available' = available - 1 /\ Go(q, "taken") /\ UNCHANGED waiters
       ELSE waiters' = Append(waiters, q) /\ Go(q, "waiting") /\ UNCHANGED available
    /\ UNCHANGED <<seen, queued>>
\* A permit that comes back goes to the first waiter.
Release(then) ==
    IF waiters = <<>> THEN available' = available + 1 /\ pc' = then /\ UNCHANGED waiters
    ELSE pc' = [then EXCEPT ![Head(waiters)] = "granted"] /\ waiters' = Tail(waiters)
         /\ UNCHANGED available
Wake(q) == pc[q] = "granted" /\ Go(q, "taken") /\ UNCHANGED <<seen, queued, available, waiters>>
DropGuard(q) ==
    /\ pc[q] \in {"taken", "leaving"} /\ queued' = queued - 1
    /\ Go(q, IF pc[q] = "taken" THEN "active" ELSE "out")
    /\ UNCHANGED <<seen, available, waiters>>
\* Mutant: a wait that times out stays in the semaphore's queue.
GiveUpListed(q) == pc[q] = "waiting" /\ Go(q, "leaving") /\ UNCHANGED <<seen, queued, available, waiters>>
\* The timeout, or the caller's task dropped: the wait leaves the semaphore's queue.
GiveUp(q) ==
    /\ pc[q] = "waiting" /\ Go(q, "leaving")
    /\ \E k \in DOMAIN waiters : waiters[k] = q /\ waiters' = RemoveAt(waiters, k)
    /\ UNCHANGED <<seen, queued, available>>
\* Mutant: a permit assigned to a dropped wait is lost.
DroppedPermitLost(q) == pc[q] = "granted" /\ Go(q, "leaving") /\ UNCHANGED <<seen, queued, available, waiters>>
\* Dropped with the permit already assigned: the permit goes on to the next.
Dropped(q) == pc[q] = "granted" /\ Release([pc EXCEPT ![q] = "leaving"]) /\ UNCHANGED <<seen, queued>>
\* Mutant: a query that ends keeps its permit until the queue has drained.
FinishDrained(q) == /\ pc[q] = "active" /\ waiters = <<>> /\ available' = available + 1
                    /\ Go(q, "out") /\ UNCHANGED <<seen, queued, waiters>>
\* The query's stream ends or is dropped, and its QueryPermit with it.
Finish(q) == pc[q] = "active" /\ Release([pc EXCEPT ![q] = "out"]) /\ UNCHANGED <<seen, queued>>

Step(q) == Load(q) \/ EnterQueue(q) \/ AcquireOwned(q) \/ Wake(q) \/ DropGuard(q) \/ Finish(q)
Next == \E q \in Queries : TryAcquire(q) \/ Step(q) \/ GiveUp(q) \/ Dropped(q)
\* Tasks run and queries end; nobody has to ask, to time out or to be dropped.
Fairness == \A q \in Queries : WF_vars(AcquireOwned(q)) /\ WF_vars(Wake(q)) /\ WF_vars(DropGuard(q))
                               /\ WF_vars(Finish(q))
Spec == Init /\ [][Next]_vars /\ Fairness
-----------------------------------------------------------------------------
\* No permit is lost or made up, whichever query gives up or is dropped when: those that
\* nobody has and those that queries have are MaxActive together.
PermitsConserved == available + Cardinality(Permitted) = MaxActive
\* The counter is the number of queries between entering and leaving the queue, so that
\* the bound is on queries and never fills up with queries that are gone.
QueueCounted == queued = Cardinality(Guarded)
\* A slot is never free while queries wait for one.
NoIdleSlot == (available > 0) => (waiters = <<>>)
SlotsCounted == PermitsConserved /\ QueueCounted /\ NoIdleSlot
\* Waiting queries are admitted in the order in which they joined: a query is granted a
\* permit only from the head, and nobody takes one past the waiters.
InTurn == \A q \in Queries :
    /\ (pc[q] = "waiting" /\ pc'[q] = "granted") => q = Head(waiters)
    /\ (q \notin Permitted /\ q \in Permitted' /\ pc[q] # "waiting") => waiters = <<>>
\* A waiting query is admitted, or gives up: if every query that runs ends, no wait is for ever.
WaitEnds == \A q \in Queries : (pc[q] = "waiting") ~> (pc[q] # "waiting")
=============================================================================
