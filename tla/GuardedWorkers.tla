---------------------------- MODULE GuardedWorkers ----------------------------
(***************************************************************************)
(* The session lock on the threads of the runtime.  Searches, status calls *)
(* and builds are tasks of one executor (python/src/session.rs); they take *)
(* the session lock with a blocking flock (coordination.rs), which keeps   *)
(* the worker they run on, and hold the guard across awaits, after which   *)
(* they need a worker again.  Maintenance, registration and drops run on   *)
(* their caller's thread (block_on); other processes have their own.       *)
(*                                                                         *)
(* A call is the sequence of its guarded sections.  What it awaits is done *)
(* outside of the workers; several awaits in a row are modelled as one.    *)
(***************************************************************************)
EXTENDS Naturals, Sequences, FiniteSets

CONSTANTS Tasks,    \* calls spawned on the runtime
          Callers,  \* calls on a thread of their own: block_on, or another process
          Sections, \* call |-> its guarded sections, one of the sequences below
          Workers   \* worker threads of the runtime

Calls == Tasks \cup Callers
Section(mode, awaits) == [mode |-> mode, awaits |-> awaits]
Search == <<Section("shared", TRUE)>>
Status == <<Section("shared", TRUE)>>
\* Reserve to set_snapshot_root, add_snapshot_root, publication.  The shared lock that
\* index_exists takes under the setup guard is always granted, and left out.
Build == <<Section("shared", TRUE), Section("shared", FALSE), Section("exclusive", TRUE)>>
Maintain == <<Section("exclusive", TRUE)>>
Drop == <<Section("exclusive", FALSE)>>

WorkersAssumption ==
    /\ Workers \in Nat \ {0} /\ Tasks \cap Callers = {}
    /\ Sections \in [Calls -> {Search, Status, Build, Maintain, Drop}]

VARIABLES pc,     \* "ready" for a thread, "running", in "flock", "awaiting", "done"
          left,   \* the sections still to do, the present one included
          guard,  \* "none", "shared" or "exclusive"
          waited  \* the call has awaited since it last took or dropped a guard
vars == <<pc, left, guard, waited>>

NeedsWorker(c) == c \in Tasks
\* Calls that keep a worker: a thread in flock does not run anything else.
Occupying == {c \in Calls : NeedsWorker(c) /\ pc[c] \in {"running", "flock"}}

TypeOK == /\ pc \in [Calls -> {"ready", "running", "flock", "awaiting", "done"}]
          /\ \A c \in Calls : left[c] = SubSeq(Sections[c], Len(Sections[c]) - Len(left[c]) + 1, Len(Sections[c]))
          /\ guard \in [Calls -> {"none", "shared", "exclusive"}] /\ waited \in [Calls -> BOOLEAN]
          /\ \A c \in Calls : (pc[c] \in {"flock", "done"}) => (guard[c] = "none")
          /\ Cardinality(Occupying) <= Workers
Init == /\ pc = [c \in Calls |-> "ready"] /\ left = Sections
        /\ guard = [c \in Calls |-> "none"] /\ waited = [c \in Calls |-> FALSE]

\* A worker takes the task from the run queue; a caller's thread is its own.
Schedule(c) == /\ pc[c] = "ready" /\ (NeedsWorker(c) => Cardinality(Occupying) < Workers)
               /\ pc' = [pc EXCEPT ![c] = "running"] /\ UNCHANGED <<left, guard, waited>>
\* read, write and shared_guard call flock on the thread that runs the call.
Lock(c) == /\ pc[c] = "running" /\ guard[c] = "none" /\ left[c] # <<>>
           /\ pc' = [pc EXCEPT ![c] = "flock"] /\ UNCHANGED <<left, guard, waited>>
Compatible(c) ==
    IF Head(left[c]).mode = "shared" THEN \A d \in Calls : guard[d] # "exclusive"
    ELSE \A d \in Calls : guard[d] = "none"
Granted(c) == /\ pc[c] = "flock" /\ Compatible(c)
              /\ pc' = [pc EXCEPT ![c] = "running"] /\ guard' = [guard EXCEPT ![c] = Head(left[c]).mode]
              /\ waited' = [waited EXCEPT ![c] = FALSE] /\ UNCHANGED left
\* The call gives its worker back and keeps its guard.
Await(c) == /\ pc[c] = "running" /\ ~waited[c] /\ (guard[c] # "none" => Head(left[c]).awaits)
            /\ pc' = [pc EXCEPT ![c] = "awaiting"] /\ waited' = [waited EXCEPT ![c] = TRUE]
            /\ UNCHANGED <<left, guard>>
Complete(c) == /\ pc[c] = "awaiting" /\ pc' = [pc EXCEPT ![c] = "ready"]
               /\ UNCHANGED <<left, guard, waited>>
Unlock(c) == /\ pc[c] = "running" /\ guard[c] # "none"
             /\ guard' = [guard EXCEPT ![c] = "none"] /\ left' = [left EXCEPT ![c] = Tail(@)]
             /\ waited' = [waited EXCEPT ![c] = FALSE] /\ UNCHANGED pc
\* Any ? of a call: the guard is dropped on the way out.
Fail(c) == /\ pc[c] = "running" /\ left[c] # <<>>
           /\ pc' = [pc EXCEPT ![c] = "done"] /\ guard' = [guard EXCEPT ![c] = "none"]
           /\ UNCHANGED <<left, waited>>
Return(c) == /\ pc[c] = "running" /\ left[c] = <<>>
             /\ pc' = [pc EXCEPT ![c] = "done"] /\ UNCHANGED <<left, guard, waited>>
AllDone == (\A c \in Calls : pc[c] = "done") /\ UNCHANGED vars

Goes(c) == Schedule(c) \/ Lock(c) \/ Granted(c) \/ Await(c) \/ Complete(c) \/ Unlock(c) \/ Fail(c) \/ Return(c)
Next == (\E c \in Calls : Goes(c)) \/ AllDone
\* Threads run, what is awaited completes, and flock grants a lock that stays free.
Spec == Init /\ [][Next]_vars /\ \A c \in Calls : WF_vars(Goes(c))
-----------------------------------------------------------------------------
\* A call that holds the session lock and could go on finds a worker that is not itself
\* waiting for that lock: a lock of the catalog does not occupy the query workers.
HolderFindsWorker ==
    \A c \in Calls : (NeedsWorker(c) /\ pc[c] = "ready" /\ guard[c] # "none")
        => (Cardinality({d \in Calls : NeedsWorker(d) /\ pc[d] = "flock" /\ ~Compatible(d)}) < Workers)
\* Every call ends: with no more tasks than workers, nobody waits for ever for a guard
\* whose holder waits for a worker.
CallsEnd == \A c \in Calls : <>(pc[c] = "done")
=============================================================================
