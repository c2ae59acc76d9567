------------------------- MODULE BuildCoordinatorProofs -------------------------
(***************************************************************************)
(* Records of running builds survive every interleaving of tasks and       *)
(* status calls, for any number of keys, builds and clients.               *)
(***************************************************************************)
EXTENDS BuildCoordinator, TLAPS

\* Where a task is, what its record says and who holds the permit agree.
TaskInv ==
    \A b \in Builds :
        /\ task[b] # "new" => key[b] \in Keys
        /\ state[b] = "new" <=> task[b] \in {"new", "checked", "rejected"}
        /\ state[b] \in Active <=>
              task[b] \in {"queued", "running", "ok", "error", "released_ok", "released_error"}
        /\ slot = b <=> task[b] \in {"running", "ok", "error"}

\* The last accepted build of a key; once its task has published, the index is
\* there until it is dropped, which clears latest.
LatestInv ==
    \A k \in Keys : latest[k] # None =>
        /\ key[latest[k]] = k
        /\ state[latest[k]] # "new"
        /\ \/ task[latest[k]] \in {"ok", "released_ok", "removing"}
           \/ state[latest[k]] = "complete"
           => published[k] # None

\* What a call in progress has read; a status call that is owed an answer has seen
\* a running build, or the publication is still there.
CallInv ==
    \A c \in Clients :
        /\ call[c].pc # "idle" => call[c].key \in Keys
        /\ call[c].pc = "waiting" => call[c].rec \in Builds
        /\ call[c].st # "new" => call[c].rec \in Builds
        /\ call[c].pc = "polled" /\ owed[c] /\ call[c].st \notin Active
              => published[call[c].key] # None

IInv == TypeOK /\ TaskInv /\ ActiveBuildKeepsRecord /\ LatestInv /\ CallInv

USE CoordinatorConstants

LEMMA InitIInv == Init => IInv
  BY DEF Init, IInv, TypeOK, TaskInv, ActiveBuildKeepsRecord, LatestInv, CallInv, Active, IdleCall

LEMMA TypeStep == IInv /\ [Next]_vars => TypeOK'
<1> SUFFICES ASSUME IInv, [Next]_vars PROVE TypeOK'
  OBVIOUS
<1> USE DEF IInv, TypeOK, TaskInv, Active, Goto, IdleCall, build, client, CallInv
<1>1. ASSUME NEW b \in Builds, Insert(b) PROVE TypeOK'
  BY <1>1 DEF Insert, MayInsert
<1>2. ASSUME NEW b \in Builds, Reject(b) PROVE TypeOK'
  BY <1>2 DEF Reject, MayInsert
<1>3. ASSUME NEW b \in Builds, Acquire(b) PROVE TypeOK'
  BY <1>3 DEF Acquire
<1>4. ASSUME NEW b \in Builds, TaskPublishes(b) PROVE TypeOK'
  BY <1>4 DEF TaskPublishes
<1>5. ASSUME NEW b \in Builds, TaskFails(b) PROVE TypeOK'
  BY <1>5 DEF TaskFails
<1>6. ASSUME NEW b \in Builds, Release(b) PROVE TypeOK'
  BY <1>6 DEF Release
<1>7. ASSUME NEW b \in Builds, Finish(b) PROVE TypeOK'
  BY <1>7 DEF Finish
<1>8. ASSUME NEW b \in Builds, RemoveIfSame(b) PROVE TypeOK'
  BY <1>8 DEF RemoveIfSame
<1>9. ASSUME NEW b \in Builds, NEW k \in Keys, Submit(b, k) PROVE TypeOK'
  BY <1>9 DEF Submit
<1>10. ASSUME NEW k \in Keys, Drop(k) PROVE TypeOK'
  BY <1>10 DEF Drop
<1>11. ASSUME NEW k \in Keys, NEW x \in Foreign, ForeignPublish(k, x) PROVE TypeOK'
  BY <1>11 DEF ForeignPublish
<1>12. ASSUME NEW c \in Clients, Answer(c) PROVE TypeOK'
  <2>1. \/ Return(c, "found") \/ Return(c, "notfound")
        \/ call' = [call EXCEPT ![c].pc = "forget"] /\ UNCHANGED <<seen, owed>>
    BY <1>12 DEF Answer
  <2>2. UNCHANGED <<records, build, slot, published, latest>>
    BY <1>12 DEF Answer
  <2>3. CASE Return(c, "found") \/ Return(c, "notfound")
    <3>1. PICK what \in {"found", "notfound"} : Return(c, what)
      BY <2>3
    <3>2. call' \in [Clients -> [pc : {"idle", "polled", "forget", "waiting"},
                                 key : Keys \cup {None}, rec : Builds \cup {None},
                                 st : Active \cup {"new", "complete", "failed"}]]
      BY <3>1 DEF Return
    <3>3. seen' \in [Clients -> {"found", "notfound"}] /\ owed' \in [Clients -> BOOLEAN]
      BY <3>1 DEF Return
    <3>4. QED
      BY <2>2, <3>2, <3>3
  <2>4. CASE call' = [call EXCEPT ![c].pc = "forget"] /\ UNCHANGED <<seen, owed>>
    BY <2>2, <2>4
  <2>5. QED
    BY <2>1, <2>3, <2>4
<1>13. ASSUME NEW c \in Clients, ForgetFailure(c) PROVE TypeOK'
  BY <1>13 DEF ForgetFailure, Return
<1>14. ASSUME NEW c \in Clients, WaitReturns(c) PROVE TypeOK'
  BY <1>14 DEF WaitReturns
<1>15. ASSUME NEW c \in Clients, NEW k \in Keys, Poll(c, k) PROVE TypeOK'
  BY <1>15 DEF Poll
<1>16. ASSUME NEW c \in Clients, NEW k \in Keys, Wait(c, k) PROVE TypeOK'
  BY <1>16 DEF Wait
<1>17. CASE UNCHANGED vars
  BY <1>17 DEF vars
<1> HIDE DEF IInv, TypeOK
<1>18. QED
  BY <1>1, <1>2, <1>3, <1>4, <1>5, <1>6, <1>7, <1>8, <1>9,
     <1>10, <1>11, <1>12, <1>13, <1>14, <1>15, <1>16, <1>17 DEF Next, Task, Caller

LEMMA TaskStep == IInv /\ [Next]_vars => TaskInv'
<1> SUFFICES ASSUME IInv, [Next]_vars PROVE TaskInv'
  OBVIOUS
<1> USE DEF IInv, TypeOK, TaskInv, Active, Goto, IdleCall, build, client
<1>1. ASSUME NEW b \in Builds, Insert(b) PROVE TaskInv'
  BY <1>1 DEF Insert, MayInsert
<1>2. ASSUME NEW b \in Builds, Reject(b) PROVE TaskInv'
  BY <1>2 DEF Reject, MayInsert
<1>3. ASSUME NEW b \in Builds, Acquire(b) PROVE TaskInv'
  BY <1>3 DEF Acquire
<1>4. ASSUME NEW b \in Builds, TaskPublishes(b) PROVE TaskInv'
  BY <1>4 DEF TaskPublishes
<1>5. ASSUME NEW b \in Builds, TaskFails(b) PROVE TaskInv'
  BY <1>5 DEF TaskFails
<1>6. ASSUME NEW b \in Builds, Release(b) PROVE TaskInv'
  BY <1>6 DEF Release
<1>7. ASSUME NEW b \in Builds, Finish(b) PROVE TaskInv'
  BY <1>7 DEF Finish
<1>8. ASSUME NEW b \in Builds, RemoveIfSame(b) PROVE TaskInv'
  BY <1>8 DEF RemoveIfSame
<1>9. ASSUME NEW b \in Builds, NEW k \in Keys, Submit(b, k) PROVE TaskInv'
  BY <1>9 DEF Submit
<1>10. ASSUME NEW k \in Keys, Drop(k) PROVE TaskInv'
  BY <1>10 DEF Drop
<1>11. ASSUME NEW k \in Keys, NEW x \in Foreign, ForeignPublish(k, x) PROVE TaskInv'
  BY <1>11 DEF ForeignPublish
<1>12. ASSUME NEW c \in Clients, Answer(c) PROVE TaskInv'
  BY <1>12 DEF Answer, Return
<1>13. ASSUME NEW c \in Clients, ForgetFailure(c) PROVE TaskInv'
  BY <1>13 DEF ForgetFailure, Return
<1>14. ASSUME NEW c \in Clients, WaitReturns(c) PROVE TaskInv'
  BY <1>14 DEF WaitReturns
<1>15. ASSUME NEW c \in Clients, NEW k \in Keys, Poll(c, k) PROVE TaskInv'
  BY <1>15 DEF Poll
<1>16. ASSUME NEW c \in Clients, NEW k \in Keys, Wait(c, k) PROVE TaskInv'
  BY <1>16 DEF Wait
<1>17. CASE UNCHANGED vars
  BY <1>17 DEF vars
<1> HIDE DEF IInv, TaskInv
<1>18. QED
  BY <1>1, <1>2, <1>3, <1>4, <1>5, <1>6, <1>7, <1>8, <1>9,
     <1>10, <1>11, <1>12, <1>13, <1>14, <1>15, <1>16, <1>17 DEF Next, Task, Caller

LEMMA RecordStep == IInv /\ [Next]_vars => ActiveBuildKeepsRecord'
<1> SUFFICES ASSUME IInv, [Next]_vars PROVE ActiveBuildKeepsRecord'
  OBVIOUS
<1> USE DEF IInv, TypeOK, TaskInv, Active, Goto, IdleCall, build, client, ActiveBuildKeepsRecord
<1>1. ASSUME NEW b \in Builds, Insert(b) PROVE ActiveBuildKeepsRecord'
  BY <1>1 DEF Insert, MayInsert
<1>2. ASSUME NEW b \in Builds, Reject(b) PROVE ActiveBuildKeepsRecord'
  BY <1>2 DEF Reject, MayInsert
<1>3. ASSUME NEW b \in Builds, Acquire(b) PROVE ActiveBuildKeepsRecord'
  BY <1>3 DEF Acquire
<1>4. ASSUME NEW b \in Builds, TaskPublishes(b) PROVE ActiveBuildKeepsRecord'
  BY <1>4 DEF TaskPublishes
<1>5. ASSUME NEW b \in Builds, TaskFails(b) PROVE ActiveBuildKeepsRecord'
  BY <1>5 DEF TaskFails
<1>6. ASSUME NEW b \in Builds, Release(b) PROVE ActiveBuildKeepsRecord'
  BY <1>6 DEF Release
<1>7. ASSUME NEW b \in Builds, Finish(b) PROVE ActiveBuildKeepsRecord'
  BY <1>7 DEF Finish
<1>8. ASSUME NEW b \in Builds, RemoveIfSame(b) PROVE ActiveBuildKeepsRecord'
  BY <1>8 DEF RemoveIfSame
<1>9. ASSUME NEW b \in Builds, NEW k \in Keys, Submit(b, k) PROVE ActiveBuildKeepsRecord'
  BY <1>9 DEF Submit
<1>10. ASSUME NEW k \in Keys, Drop(k) PROVE ActiveBuildKeepsRecord'
  BY <1>10 DEF Drop
<1>11. ASSUME NEW k \in Keys, NEW x \in Foreign, ForeignPublish(k, x) PROVE ActiveBuildKeepsRecord'
  BY <1>11 DEF ForeignPublish
<1>12. ASSUME NEW c \in Clients, Answer(c) PROVE ActiveBuildKeepsRecord'
  BY <1>12 DEF Answer, Return
<1>13. ASSUME NEW c \in Clients, ForgetFailure(c) PROVE ActiveBuildKeepsRecord'
  BY <1>13 DEF ForgetFailure, Return
<1>14. ASSUME NEW c \in Clients, WaitReturns(c) PROVE ActiveBuildKeepsRecord'
  BY <1>14 DEF WaitReturns
<1>15. ASSUME NEW c \in Clients, NEW k \in Keys, Poll(c, k) PROVE ActiveBuildKeepsRecord'
  BY <1>15 DEF Poll
<1>16. ASSUME NEW c \in Clients, NEW k \in Keys, Wait(c, k) PROVE ActiveBuildKeepsRecord'
  BY <1>16 DEF Wait
<1>17. CASE UNCHANGED vars
  BY <1>17 DEF vars
<1> HIDE DEF IInv, ActiveBuildKeepsRecord
<1>18. QED
  BY <1>1, <1>2, <1>3, <1>4, <1>5, <1>6, <1>7, <1>8, <1>9,
     <1>10, <1>11, <1>12, <1>13, <1>14, <1>15, <1>16, <1>17 DEF Next, Task, Caller

LEMMA LatestStep == IInv /\ [Next]_vars => LatestInv'
<1> SUFFICES ASSUME IInv, [Next]_vars PROVE LatestInv'
  OBVIOUS
<1> USE DEF IInv, TypeOK, TaskInv, Active, Goto, IdleCall, build, client, LatestInv
<1>1. ASSUME NEW b \in Builds, Insert(b) PROVE LatestInv'
  BY <1>1 DEF Insert, MayInsert
<1>2. ASSUME NEW b \in Builds, Reject(b) PROVE LatestInv'
  BY <1>2 DEF Reject, MayInsert
<1>3. ASSUME NEW b \in Builds, Acquire(b) PROVE LatestInv'
  BY <1>3 DEF Acquire
<1>4. ASSUME NEW b \in Builds, TaskPublishes(b) PROVE LatestInv'
  BY <1>4 DEF TaskPublishes
<1>5. ASSUME NEW b \in Builds, TaskFails(b) PROVE LatestInv'
  BY <1>5 DEF TaskFails
<1>6. ASSUME NEW b \in Builds, Release(b) PROVE LatestInv'
  BY <1>6 DEF Release
<1>7. ASSUME NEW b \in Builds, Finish(b) PROVE LatestInv'
  BY <1>7 DEF Finish
<1>8. ASSUME NEW b \in Builds, RemoveIfSame(b) PROVE LatestInv'
  BY <1>8 DEF RemoveIfSame
<1>9. ASSUME NEW b \in Builds, NEW k \in Keys, Submit(b, k) PROVE LatestInv'
  BY <1>9 DEF Submit
<1>10. ASSUME NEW k \in Keys, Drop(k) PROVE LatestInv'
  BY <1>10 DEF Drop
<1>11. ASSUME NEW k \in Keys, NEW x \in Foreign, ForeignPublish(k, x) PROVE LatestInv'
  BY <1>11 DEF ForeignPublish
<1>12. ASSUME NEW c \in Clients, Answer(c) PROVE LatestInv'
  BY <1>12 DEF Answer, Return
<1>13. ASSUME NEW c \in Clients, ForgetFailure(c) PROVE LatestInv'
  BY <1>13 DEF ForgetFailure, Return
<1>14. ASSUME NEW c \in Clients, WaitReturns(c) PROVE LatestInv'
  BY <1>14 DEF WaitReturns
<1>15. ASSUME NEW c \in Clients, NEW k \in Keys, Poll(c, k) PROVE LatestInv'
  BY <1>15 DEF Poll
<1>16. ASSUME NEW c \in Clients, NEW k \in Keys, Wait(c, k) PROVE LatestInv'
  BY <1>16 DEF Wait
<1>17. CASE UNCHANGED vars
  BY <1>17 DEF vars
<1> HIDE DEF IInv, LatestInv
<1>18. QED
  BY <1>1, <1>2, <1>3, <1>4, <1>5, <1>6, <1>7, <1>8, <1>9,
     <1>10, <1>11, <1>12, <1>13, <1>14, <1>15, <1>16, <1>17 DEF Next, Task, Caller

LEMMA CallStep == IInv /\ [Next]_vars => CallInv'
<1> SUFFICES ASSUME IInv, [Next]_vars PROVE CallInv'
  OBVIOUS
<1> USE DEF IInv, TypeOK, TaskInv, Active, Goto, IdleCall, build, client, ActiveBuildKeepsRecord, LatestInv, CallInv
<1>1. ASSUME NEW b \in Builds, Insert(b) PROVE CallInv'
  BY <1>1 DEF Insert, MayInsert
<1>2. ASSUME NEW b \in Builds, Reject(b) PROVE CallInv'
  BY <1>2 DEF Reject, MayInsert
<1>3. ASSUME NEW b \in Builds, Acquire(b) PROVE CallInv'
  BY <1>3 DEF Acquire
<1>4. ASSUME NEW b \in Builds, TaskPublishes(b) PROVE CallInv'
  BY <1>4 DEF TaskPublishes
<1>5. ASSUME NEW b \in Builds, TaskFails(b) PROVE CallInv'
  BY <1>5 DEF TaskFails
<1>6. ASSUME NEW b \in Builds, Release(b) PROVE CallInv'
  BY <1>6 DEF Release
<1>7. ASSUME NEW b \in Builds, Finish(b) PROVE CallInv'
  BY <1>7 DEF Finish
<1>8. ASSUME NEW b \in Builds, RemoveIfSame(b) PROVE CallInv'
  BY <1>8 DEF RemoveIfSame
<1>9. ASSUME NEW b \in Builds, NEW k \in Keys, Submit(b, k) PROVE CallInv'
  BY <1>9 DEF Submit
<1>10. ASSUME NEW k \in Keys, Drop(k) PROVE CallInv'
  BY <1>10 DEF Drop
<1>11. ASSUME NEW k \in Keys, NEW x \in Foreign, ForeignPublish(k, x) PROVE CallInv'
  BY <1>11 DEF ForeignPublish
<1>12. ASSUME NEW c \in Clients, Answer(c) PROVE CallInv'
  <2>1. /\ call \in [Clients -> [pc : {"idle", "polled", "forget", "waiting"},
                                key : Keys \cup {None}, rec : Builds \cup {None},
                                st : Active \cup {"new", "complete", "failed"}]]
        /\ CallInv
    OBVIOUS
  <2>2. /\ call[c].pc = "polled" /\ UNCHANGED published
        /\ \A d \in Clients \ {c} : owed'[d] = owed[d] /\ call'[d] = call[d]
    BY <1>12 DEF Answer, Return
  <2>3. call' = [call EXCEPT ![c].pc = "forget"] \/ call' = [call EXCEPT ![c] = IdleCall]
    BY <1>12 DEF Answer, Return
  <2> HIDE DEF IInv, TypeOK, TaskInv, ActiveBuildKeepsRecord, LatestInv
  <2>4. /\ call'[c].pc # "idle" => call'[c].key \in Keys
        /\ call'[c].pc \notin {"waiting", "polled"}
        /\ call'[c].st # "new" => call'[c].rec \in Builds
    BY <2>1, <2>2, <2>3
  <2>5. QED
    BY <2>1, <2>2, <2>4
<1>13. ASSUME NEW c \in Clients, ForgetFailure(c) PROVE CallInv'
  BY <1>13 DEF ForgetFailure, Return
<1>14. ASSUME NEW c \in Clients, WaitReturns(c) PROVE CallInv'
  BY <1>14 DEF WaitReturns
<1>15. ASSUME NEW c \in Clients, NEW k \in Keys, Poll(c, k) PROVE CallInv'
  <2>1. UNCHANGED <<records, state, key, base, task, slot, published, latest>>
    BY <1>15 DEF Poll
  <2>2. /\ call'[c].pc = "polled" /\ call'[c].key = k /\ call'[c].rec = records[k]
        /\ call'[c].st = IF records[k] = None THEN "new" ELSE state[records[k]]
        /\ owed'[c] = (latest[k] # None /\ state[latest[k]] # "failed")
    BY <1>15 DEF Poll
  <2>3. \A d \in Clients \ {c} : call'[d] = call[d] /\ owed'[d] = owed[d]
    BY <1>15 DEF Poll
  <2>4. records[k] = None \/ records[k] \in Builds
    OBVIOUS
  <2>5. ASSUME owed'[c], call'[c].st \notin Active PROVE published[k] # None
    <3>1. latest[k] # None /\ state[latest[k]] # "failed"
      BY <2>2, <2>5, Zenon
    <3>2. latest[k] \in Builds /\ state[latest[k]] \notin {"failed", "new"}
      BY <3>1
    <3>3. CASE state[latest[k]] \in Active
      <4>1. records[k] = latest[k]
        BY <3>2, <3>3
      <4>2. QED
        BY <2>2, <2>5, <3>2, <3>3, <4>1
    <3>4. QED
      BY <3>2, <3>3
  <2>6. QED
    BY <2>1, <2>2, <2>3, <2>4, <2>5
<1>16. ASSUME NEW c \in Clients, NEW k \in Keys, Wait(c, k) PROVE CallInv'
  BY <1>16 DEF Wait
<1>17. CASE UNCHANGED vars
  BY <1>17 DEF vars
<1> HIDE DEF IInv, CallInv
<1>18. QED
  BY <1>1, <1>2, <1>3, <1>4, <1>5, <1>6, <1>7, <1>8, <1>9,
     <1>10, <1>11, <1>12, <1>13, <1>14, <1>15, <1>16, <1>17 DEF Next, Task, Caller

LEMMA Invariant == Spec => []IInv
<1>1. IInv /\ [Next]_vars => IInv'
  BY TypeStep, TaskStep, RecordStep, LatestStep, CallStep DEF IInv
<1>2. QED
  BY InitIInv, <1>1, PTL DEF Spec

-----------------------------------------------------------------------------
\* The coordinator keeps its types.
THEOREM TypeCorrect == Spec => []TypeOK
  BY Invariant, PTL DEF IInv

\* No task, submission or stale status call removes the record of a running build.
THEOREM ActiveBuildsKeepRecords == Spec => []ActiveBuildKeepsRecord
  BY Invariant, PTL DEF IInv

\* A status call never misses a build that ran or had published when it began.
THEOREM AcceptedBuildsAreFound == Spec => AcceptedBuildIsFound
<1> DEFINE Found == \A c \in Clients : seen[c] = "found" /\ seen'[c] = "notfound" => ~owed[c]
<1>1. ASSUME IInv, [Next]_vars PROVE [Found]_vars
  <2> USE DEF IInv, TypeOK
  <2>1. ASSUME NEW c \in Clients, Answer(c) PROVE Found
    BY <1>1, <2>1 DEF Answer, Return, CallInv, Active
  <2>2. ASSUME NEW c \in Clients, ForgetFailure(c) \/ WaitReturns(c) PROVE Found
    BY <1>1, <2>2 DEF ForgetFailure, WaitReturns, Return
  <2>3. ASSUME NEW c \in Clients, NEW k \in Keys, Poll(c, k) \/ Wait(c, k) PROVE Found
    BY <1>1, <2>3 DEF Poll, Wait
  <2>4. CASE UNCHANGED seen
    BY <1>1, <2>4
  <2>5. QED
    BY <1>1, <2>1, <2>2, <2>3, <2>4
    DEF Next, Task, Caller, vars, client, Submit, Drop, ForeignPublish, Insert, Reject, Acquire,
        TaskPublishes, TaskFails, Release, Finish, RemoveIfSame
<1>2. QED
  BY Invariant, <1>1, PTL DEF AcceptedBuildIsFound, Spec
=================================================================================
