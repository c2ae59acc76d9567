--------------------------- MODULE ServiceRuntime ---------------------------
(***************************************************************************)
(* The process that serves: the admission of queries, the page cache, the  *)
(* session lock on the threads of the runtime, and the requests, from the  *)
(* message the client writes to the handler that is chosen and its answer. *)
(* The components share no state, so that each behaviour runs one of them. *)
(* The variables of the others are 0; the session lock, the contract and   *)
(* the routes have theirs in the slots v1, v2, ... in the order of their   *)
(* vars.                                                                   *)
(***************************************************************************)
EXTENDS Integers, Sequences

CONSTANTS Queries, MaxActive, MaxQueued,                     \* admission
          Readers, Keys, Charge, Capacities, MaxBuffers,     \* page cache
          Tasks, Callers, Sections, WorkerThreads,           \* session lock
          Tables, Indexes                                    \* routes

VARIABLES component,  \* the one that runs in this behaviour
          pc, seen, queued, available, waiters,
          entries, keyOf, hold, live, resident, capacity, lock,
          v1, v2, v3, v4, v5, v6, v7, v8, v9
admission == <<pc, seen, queued, available, waiters>>
cache == <<entries, keyOf, hold, live, resident, capacity, lock>>
slots == <<v1, v2, v3, v4, v5, v6, v7, v8, v9>>
vars == <<component, admission, cache, slots>>

Admission == INSTANCE QueryAdmission
Cache == INSTANCE PageCache
Workers == INSTANCE GuardedWorkers WITH
    Workers <- WorkerThreads, pc <- v1, left <- v2, guard <- v3, waited <- v4
Contract == INSTANCE RestContract WITH
    stage <- v1, op <- v2, sender <- v3, part <- v4, body <- v5, extra <- v6,
    raised <- v7, wire <- v8, seen <- v9
Routes == INSTANCE WireRoutes WITH
    stage <- v1, call <- v2, named <- v3, url <- v4, route <- v5

ASSUME RuntimeAssumption ==
    /\ Admission!BoundsAssumption
    /\ Cache!ChargeAssumption
    /\ Workers!WorkersAssumption
    /\ Routes!NamesAssumption

AdmissionOff == pc = 0 /\ seen = 0 /\ queued = 0 /\ available = 0 /\ waiters = 0
CacheOff == /\ entries = 0 /\ keyOf = 0 /\ hold = 0 /\ live = 0 /\ resident = 0
            /\ capacity = 0 /\ lock = 0
LowOff == v1 = 0 /\ v2 = 0 /\ v3 = 0 /\ v4 = 0
HighOff == v6 = 0 /\ v7 = 0 /\ v8 = 0 /\ v9 = 0
Init ==
    \/ component = "admission" /\ Admission!Init /\ CacheOff /\ LowOff /\ v5 = 0 /\ HighOff
    \/ component = "cache" /\ Cache!Init /\ AdmissionOff /\ LowOff /\ v5 = 0 /\ HighOff
    \/ component = "workers" /\ Workers!Init /\ AdmissionOff /\ CacheOff /\ v5 = 0 /\ HighOff
    \/ component = "contract" /\ Contract!Init /\ AdmissionOff /\ CacheOff
    \/ component = "routes" /\ Routes!Init /\ AdmissionOff /\ CacheOff /\ HighOff

\* What a step of a component leaves alone.
AdmissionRest == <<component, cache, slots>>
CacheRest == <<component, admission, slots>>
WorkersRest == <<component, admission, cache, v5, v6, v7, v8, v9>>
ContractRest == <<component, admission, cache>>
RoutesRest == <<component, admission, cache, v6, v7, v8, v9>>

AdmissionNext ==
    /\ component = "admission" /\ Admission!Next
    /\ UNCHANGED AdmissionRest
CacheNext ==
    /\ component = "cache" /\ Cache!Next
    /\ UNCHANGED CacheRest
WorkersNext ==
    /\ component = "workers" /\ Workers!Next
    /\ UNCHANGED WorkersRest
ContractNext ==
    /\ component = "contract" /\ Contract!Next
    /\ UNCHANGED ContractRest
RoutesNext ==
    /\ component = "routes" /\ Routes!Next
    /\ UNCHANGED RoutesRest

Next == \/ AdmissionNext
        \/ CacheNext
        \/ WorkersNext
        \/ ContractNext
        \/ RoutesNext

\* A task that can take its permit, is woken, leaves its queue or has finished does so; the
\* holder of the cache's mutex goes on; a call that can take its guard or run goes on.
Fairness ==
    /\ \A q \in Queries :
          /\ WF_vars(component = "admission" /\ Admission!AcquireOwned(q) /\ UNCHANGED AdmissionRest)
          /\ WF_vars(component = "admission" /\ Admission!Wake(q) /\ UNCHANGED AdmissionRest)
          /\ WF_vars(component = "admission" /\ Admission!DropGuard(q) /\ UNCHANGED AdmissionRest)
          /\ WF_vars(component = "admission" /\ Admission!Finish(q) /\ UNCHANGED AdmissionRest)
    /\ WF_vars(component = "cache" /\ Cache!ResizeStep /\ UNCHANGED CacheRest)
    /\ \A r \in Readers : WF_vars(component = "cache" /\ Cache!InsertStep(r) /\ UNCHANGED CacheRest)
    /\ \A c \in Tasks \cup Callers :
          WF_vars(component = "workers" /\ Workers!Goes(c) /\ UNCHANGED WorkersRest)
Spec == Init /\ [][Next]_vars /\ Fairness

-----------------------------------------------------------------------------
(* What is checked, of the component that runs.                            *)

\* Every component's own type invariant.
TypeOK ==
    /\ component = "admission" => Admission!TypeOK
    /\ component = "cache" => Cache!TypeOK
    /\ component = "workers" => Workers!TypeOK
    /\ component = "contract" => Contract!TypeOK
    /\ component = "routes" => Routes!TypeOK

\* No permit is lost or made up, whichever query gives up or is dropped when; the counter is
\* the number of queries in the queue, so that the bound never fills up with queries that
\* are gone; and no slot is free while queries wait (acquire, QueueGuard).
SlotsCounted ==
    component = "admission" => Admission!SlotsCounted

\* live_bytes is what the buffers that something still refers to are charged for,
\* resident_bytes what those in the cache are, and a page has one place there, however
\* many readers missed it at once (page_cache.rs insert, remove, Drop).
PagesAccounted ==
    component = "cache" =>
        /\ Cache!Accounted
        /\ Cache!CanonicalPage

\* What the client writes for a call that can succeed is what the OpenAPI document allows
\* and the handlers take; what the server answers is documented and the client can read it;
\* a public exception raised in the service, or that ended a build, is the one the caller
\* gets.  What a handler performs is the operation that was called, and, for names without a
\* percent escape, on the table and the index that the path names; a call for such names,
\* without "/index/" inside, reaches its handler, whatever slashes and delimiters they hold;
\* describe, for which the name must also survive TableReference, where it does
\* (models.py, errors.py, openapi.py, app.py routes, _table_path, _identifier_reference).
CallsUnderstood ==
    /\ component = "contract" =>
          /\ Contract!ProperCallsUnderstood
          /\ Contract!ServerAnswersDecode
          /\ Contract!ErrorsSurvive
    /\ component = "routes" => Routes!PerformsWhatWasAsked /\ Routes!PlainNamesReach

\* Under pressure nobody is passed over: queries are admitted in the order in which they
\* joined; a page is admitted only if all that is alive fits with it, and a page a reader
\* has is never evicted for another (try_acquire_owned, insert, evict_one_unpinned).
PressureIsFair == [][
    /\ component = "admission" => Admission!InTurn
    /\ component = "cache" => Cache!AdmitsWithinCapacity /\ Cache!PinnedStay]_vars

\* Nobody waits for ever: a query for its slot, if every query that runs ends; the mutex of
\* the cache, although readers may keep what they have; a call for the session lock, with
\* no more tasks than workers (acquire_owned, set_capacity, insert, session/build.rs).
WaitsEnd ==
    /\ \A q \in Queries :
          (component = "admission" /\ pc[q] = "waiting")
              ~> (component = "admission" /\ pc[q] # "waiting")
    /\ (component = "cache" /\ lock # "free") ~> (component = "cache" /\ lock = "free")
    /\ (component = "workers")
          ~> (component = "workers" /\ \A c \in Tasks \cup Callers : v1[c] = "done")
=============================================================================
