---------------------------- MODULE BuildCoordinator ----------------------------
(***************************************************************************)
(* Background index builds of one session                                  *)
(* (rust/parqdb-local/src/session/build_coordinator.rs) and the calls that *)
(* submit, watch and await them (submit_create_index, submit_refresh_index,*)
(* index_build_status and wait_for_index_build of session/build.rs).       *)
(*                                                                         *)
(* A build b of Builds is one submission: its record, its spawned task and *)
(* the snapshot it publishes.  Snapshots of Foreign are published by other *)
(* sessions.  The records mutex and the catalog are each atomic; what a    *)
(* call reads from one and then uses on the other may be stale.            *)
(***************************************************************************)
EXTENDS Naturals

CONSTANTS Keys, Builds, Clients, Foreign, None

ASSUME CoordinatorConstants ==
    /\ None \notin Builds \cup Foreign \cup Keys
    /\ Builds \cap Foreign = {}

VARIABLES records,    \* records[k]: the build whose record is in the map, or None
          state,      \* RecordState of each build, "new" before it has a record
          key, base,  \* BuildKey and base_snapshot_id of each build
          task,       \* where the submission and its task are
          slot,       \* build holding the session's only permit, or None
          published,  \* published[k]: current snapshot in the catalog, or None
          latest,     \* latest[k]: the last accepted build of k, or None
          call,       \* a status or wait call of each client
          seen,       \* whether its last status call answered IndexNotFound
          owed        \* when the call began the last accepted build ran or had
                      \* published, and nobody has dropped the index since

build == <<state, key, base, task>>
client == <<call, seen, owed>>
vars == <<records, state, key, base, task, slot, published, latest, call, seen, owed>>

IdleCall == [pc |-> "idle", key |-> None, rec |-> None, st |-> "new"]

Init ==
    /\ records = [k \in Keys |-> None]
    /\ state = [b \in Builds |-> "new"]
    /\ key = [b \in Builds |-> None]
    /\ base = [b \in Builds |-> None]
    /\ task = [b \in Builds |-> "new"]
    /\ slot = None
    /\ published = [k \in Keys |-> None]
    /\ latest = [k \in Keys |-> None]
    /\ call = [c \in Clients |-> IdleCall]
    /\ seen = [c \in Clients |-> "found"]
    /\ owed = [c \in Clients |-> FALSE]

Active == {"pending", "building"}

Goto(b, from, to) ==
    /\ task[b] = from
    /\ task' = [task EXCEPT ![b] = to]

-----------------------------------------------------------------------------
\* Submission.

\* submit_create_index finds no index, submit_refresh_index finds the published one.
Submit(b, k) ==
    /\ Goto(b, "new", "checked")
    /\ key' = [key EXCEPT ![b] = k]
    /\ base' = [base EXCEPT ![b] = published[k]]
    /\ UNCHANGED <<records, state, slot, published, latest, client>>

MayInsert(b) ==
    LET r == records[key[b]] IN r # None => state[r] \notin Active

\* BuildCoordinator::submit, under the records mutex.
Insert(b) ==
    /\ Goto(b, "checked", "queued")
    /\ MayInsert(b)
    /\ records' = [records EXCEPT ![key[b]] = b]
    /\ state' = [state EXCEPT ![b] = "pending"]
    /\ latest' = [latest EXCEPT ![key[b]] = b]
    /\ UNCHANGED <<key, base, slot, published, client>>

\* BuildAlreadyRunning.
Reject(b) ==
    /\ Goto(b, "checked", "rejected")
    /\ ~MayInsert(b)
    /\ UNCHANGED <<records, state, key, base, slot, published, latest, client>>

-----------------------------------------------------------------------------
\* The spawned task.

\* acquire_owned and mark_building.
Acquire(b) ==
    /\ slot = None
    /\ Goto(b, "queued", "running")
    /\ slot' = b
    /\ state' = [state EXCEPT ![b] = "building"]
    /\ UNCHANGED <<records, key, base, published, latest, client>>

\* The build publishes its snapshot: a create where there is no index, a refresh
\* of whatever is there.
TaskPublishes(b) ==
    /\ Goto(b, "running", "ok")
    /\ base[b] = None <=> published[key[b]] = None
    /\ published' = [published EXCEPT ![key[b]] = b]
    /\ UNCHANGED <<records, state, key, base, slot, latest, client>>

\* The build returns an error or panics (catch_unwind).
TaskFails(b) ==
    /\ Goto(b, "running", "error")
    /\ UNCHANGED <<records, state, key, base, slot, published, latest, client>>

\* Mutant: a task that failed keeps its permit.
ReleaseOnSuccess(b) ==
    /\ \/ Goto(b, "ok", "released_ok") /\ slot' = None
       \/ Goto(b, "error", "released_error") /\ UNCHANGED slot
    /\ UNCHANGED <<records, state, key, base, published, latest, client>>

\* drop(permit), before the record says that the build has ended.
Release(b) ==
    /\ Goto(b, "ok", "released_ok") \/ Goto(b, "error", "released_error")
    /\ slot' = None
    /\ UNCHANGED <<records, state, key, base, published, latest, client>>

\* Mutant: the record takes the task's outcome, not a RecordState.
FinishRaw(b) ==
    /\ \/ Goto(b, "released_ok", "removing")
       \/ Goto(b, "released_error", "ended")
    /\ state' = [state EXCEPT ![b] = task[b]]
    /\ UNCHANGED <<records, key, base, slot, published, latest, client>>

\* BuildRecord::finish: the watch channel gets the outcome.
Finish(b) ==
    /\ \/ Goto(b, "released_ok", "removing") /\ state' = [state EXCEPT ![b] = "complete"]
       \/ Goto(b, "released_error", "ended") /\ state' = [state EXCEPT ![b] = "failed"]
    /\ UNCHANGED <<records, key, base, slot, published, latest, client>>

\* Mutant: the record in the map is not compared with the task's own.
RemoveAny(b) ==
    /\ Goto(b, "removing", "ended")
    /\ records' = [records EXCEPT ![key[b]] = None]
    /\ UNCHANGED <<state, key, base, slot, published, latest, client>>

\* remove_if_same.
RemoveIfSame(b) ==
    /\ Goto(b, "removing", "ended")
    /\ records' = [records EXCEPT ![key[b]] = IF @ = b THEN None ELSE @]
    /\ UNCHANGED <<state, key, base, slot, published, latest, client>>

-----------------------------------------------------------------------------
\* Other sessions, in this process or another.

ForeignPublish(k, x) ==
    /\ published[k] # x
    /\ published' = [published EXCEPT ![k] = x]
    /\ UNCHANGED <<records, build, slot, latest, client>>

Drop(k) ==
    /\ published[k] # None
    /\ published' = [published EXCEPT ![k] = None]
    /\ owed' = [c \in Clients |-> owed[c] /\ call[c].key # k]
    /\ latest' = [latest EXCEPT ![k] = None]
    /\ UNCHANGED <<records, build, slot, call, seen>>

-----------------------------------------------------------------------------
\* index_build_status.

\* builds.snapshot(key): a copy of the record's state.
Poll(c, k) ==
    /\ call[c].pc = "idle"
    /\ call' = [call EXCEPT ![c] =
          [pc |-> "polled", key |-> k, rec |-> records[k],
           st |-> IF records[k] = None THEN "new" ELSE state[records[k]]]]
    /\ seen' = [seen EXCEPT ![c] = "found"]
    /\ owed' = [owed EXCEPT ![c] = latest[k] # None /\ state[latest[k]] # "failed"]
    /\ UNCHANGED <<records, build, slot, published, latest>>

Return(c, what) ==
    /\ seen' = [seen EXCEPT ![c] = what]
    /\ call' = [call EXCEPT ![c] = IdleCall]
    /\ owed' = [owed EXCEPT ![c] = FALSE]

\* list_table_indexes_in, then the answer.  A failure whose base is no longer
\* the published snapshot is forgotten in a step of its own.
Answer(c) ==
    LET k == call[c].key
        r == call[c].rec
        superseded == call[c].st = "failed" /\ base[r] # published[k]
    IN
    /\ call[c].pc = "polled"
    /\ \/ call[c].st \in Active /\ Return(c, "found")
       \/ /\ call[c].st \notin Active /\ published[k] # None /\ superseded
          /\ call' = [call EXCEPT ![c].pc = "forget"]
          /\ UNCHANGED <<seen, owed>>
       \/ call[c].st \notin Active /\ published[k] # None /\ ~superseded /\ Return(c, "found")
       \/ call[c].st = "failed" /\ published[k] = None /\ Return(c, "found")
       \/ call[c].st \in {"new", "complete"} /\ published[k] = None /\ Return(c, "notfound")
    /\ UNCHANGED <<records, build, slot, published, latest>>

\* Mutant: whatever record is in the map is removed.
ForgetAny(c) ==
    /\ call[c].pc = "forget"
    /\ records' = [records EXCEPT ![call[c].key] = None]
    /\ Return(c, "found")
    /\ UNCHANGED <<build, slot, published, latest>>

\* forget_failure: the record that is in the map now, if it failed.
ForgetFailure(c) ==
    /\ call[c].pc = "forget"
    /\ records' = [records EXCEPT ![call[c].key] =
          IF @ # None /\ state[@] = "failed" THEN None ELSE @]
    /\ Return(c, "found")
    /\ UNCHANGED <<build, slot, published, latest>>

-----------------------------------------------------------------------------
\* wait_for_index_build on a record; without one it is a status call.

Wait(c, k) ==
    /\ call[c].pc = "idle"
    /\ records[k] # None
    /\ call' = [call EXCEPT ![c] = [pc |-> "waiting", key |-> k, rec |-> records[k], st |-> "new"]]
    /\ seen' = [seen EXCEPT ![c] = "found"]
    /\ UNCHANGED <<records, build, slot, published, latest, owed>>

WaitReturns(c) ==
    /\ call[c].pc = "waiting"
    /\ state[call[c].rec] \in {"complete", "failed"}
    /\ call' = [call EXCEPT ![c] = IdleCall]
    /\ UNCHANGED <<records, build, slot, published, latest, seen, owed>>

-----------------------------------------------------------------------------
Task(b) ==
    \/ Insert(b) \/ Reject(b) \/ Acquire(b) \/ TaskPublishes(b) \/ TaskFails(b)
    \/ Release(b) \/ Finish(b) \/ RemoveIfSame(b)

Caller(c) == Answer(c) \/ ForgetFailure(c) \/ WaitReturns(c)

Next ==
    \/ \E b \in Builds : Task(b) \/ \E k \in Keys : Submit(b, k)
    \/ \E k \in Keys : Drop(k) \/ \E x \in Foreign : ForeignPublish(k, x)
    \/ \E c \in Clients : Caller(c) \/ \E k \in Keys : Poll(c, k) \/ Wait(c, k)

\* The runtime polls every spawned task and every call that can go on, and a
\* build's own work ends: it publishes, fails or panics.
Fairness ==
    /\ \A b \in Builds : WF_vars(Task(b))
    /\ \A c \in Clients : WF_vars(Caller(c))

Spec == Init /\ [][Next]_vars

FairSpec == Spec /\ Fairness

-----------------------------------------------------------------------------
\* Properties.

\* Types of the coordinator's state.
TypeOK ==
    /\ records \in [Keys -> Builds \cup {None}]
    /\ state \in [Builds -> Active \cup {"new", "complete", "failed"}]
    /\ key \in [Builds -> Keys \cup {None}]
    /\ base \in [Builds -> Builds \cup Foreign \cup {None}]
    /\ task \in [Builds -> {"new", "checked", "rejected", "queued", "running", "ok", "error",
                            "released_ok", "released_error", "removing", "ended"}]
    /\ slot \in Builds \cup {None}
    /\ published \in [Keys -> Builds \cup Foreign \cup {None}]
    /\ latest \in [Keys -> Builds \cup {None}]
    /\ call \in [Clients -> [pc : {"idle", "polled", "forget", "waiting"}, key : Keys \cup {None},
                             rec : Builds \cup {None},
                             st : Active \cup {"new", "complete", "failed"}]]
    /\ seen \in [Clients -> {"found", "notfound"}]
    /\ owed \in [Clients -> BOOLEAN]

\* A build that has not ended keeps its record, whatever other tasks and status
\* calls remove: a second build of its key stays impossible and waiters find it.
ActiveBuildKeepsRecord ==
    \A b \in Builds : state[b] \in Active => records[key[b]] = b

\* A status call never answers IndexNotFound for a key whose last accepted build
\* ran or had published when the call began, unless the index was dropped: the
\* record outlives the moment the publication becomes visible.
AcceptedBuildIsFound ==
    [][\A c \in Clients :
          seen[c] = "found" /\ seen'[c] = "notfound" => ~owed[c]]_vars

\* Every accepted build ends and so does everyone who waits for it, though all
\* builds of the session share one permit and may fail or panic.
BuildsAndWaitersFinish ==
    /\ \A b \in Builds : state[b] = "pending" ~> state[b] \in {"complete", "failed"}
    /\ \A c \in Clients : call[c].pc = "waiting" ~> call[c].pc = "idle"

\* "Most recent process-local build failure" (IndexBuildStatus::error): the failure
\* of the last accepted build stays on record while it explains the published index.
LatestFailureRetained ==
    \A k \in Keys, b \in Builds :
        latest[k] = b /\ state[b] = "failed" /\ published[k] # None /\ base[b] = published[k]
            => records[k] = b
=================================================================================
