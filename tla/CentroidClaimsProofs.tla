-------------------------- MODULE CentroidClaimsProofs --------------------------
(***************************************************************************)
(* The claim protocol for shared centroids, for any number of builds and   *)
(* any lease: at most one live artifact per fingerprint, published only    *)
(* when complete, whatever crashes, expires or is taken over.              *)
(***************************************************************************)
EXTENDS CentroidClaims, TLAPS

\* Where a build is once it has published its own artifact.
Published == {"published", "join_ok", "resolved"} \cup Terminal

\* Where a build is while it reads or uses the artifact want names.
Holding == {"published", "join_ok", "read_meta", "read_data", "resolved"}

\* The row's columns agree with its state; a claim's owner has passed its claim
\* and a registered artifact's build has passed its publication.
RowInv ==
    /\ row.state \in {"absent", "failed", "building"} => row.artifact = None
    /\ row.state = "building" => row.owner \in Builds
    /\ row.state = "ready" => row = Ready(row.artifact) /\ row.artifact \in Builds
    /\ row.state = "ready" => pc[row.artifact] \in Published

\* Tables are written before metadata, and deleted before it.
ArtifactInv ==
    \A b \in Builds :
        /\ b \in data => pc[b] \notin {"resolve", "claiming", "claimed", "train"}
        /\ b \in meta => pc[b] \notin {"resolve", "claiming", "claimed", "train", "stored"}
        /\ pc[b] \in {"stored", "written", "publishing", "published", "join_ok"}
             => b \in data
        /\ pc[b] \in {"written", "publishing", "published", "join_ok"} => b \in meta
        /\ row = Ready(b) /\ b \in data => b \in meta

\* What a build holds was published, and is registered as long as it exists.
HolderInv ==
    \A b \in Builds : pc[b] \in Holding =>
        /\ want[b] \in Builds
        /\ pc[want[b]] \in Published
        /\ want[b] \in data => row = Ready(want[b])

Protocol == RowInv /\ ArtifactInv /\ HolderInv /\ RegisteredIsComplete /\ PublicationStands

IInv == TypeOK /\ Protocol

USE ClaimConstants

LEMMA InitIInv == Init => IInv
  BY DEF Init, IInv, TypeOK, Protocol, RowInv, ArtifactInv, HolderInv, RegisteredIsComplete,
         PublicationStands, Absent, Ready, Holding, Terminal

LEMMA TypeStep == IInv /\ [Next]_vars => TypeOK'
<1> SUFFICES ASSUME IInv, [Next]_vars PROVE TypeOK'
  OBVIOUS
<1> USE DEF IInv, TypeOK, Goto, Absent, Failed, Building, Ready, Terminal
<1>1. ASSUME NEW b \in Builds, ReadClock(b) PROVE TypeOK'
  BY <1>1 DEF ReadClock
<1>2. ASSUME NEW b \in Builds, ClaimReady(b) PROVE TypeOK'
  BY <1>2 DEF ClaimReady
<1>3. ASSUME NEW b \in Builds, ClaimBusy(b) PROVE TypeOK'
  BY <1>3 DEF ClaimBusy
<1>4. ASSUME NEW b \in Builds, ClaimGranted(b) PROVE TypeOK'
  BY <1>4 DEF ClaimGranted
<1>5. ASSUME NEW b \in Builds, ClaimFails(b) PROVE TypeOK'
  BY <1>5 DEF ClaimFails
<1>6. ASSUME NEW b \in Builds, StartHeartbeat(b) PROVE TypeOK'
  BY <1>6 DEF StartHeartbeat
<1>7. ASSUME NEW b \in Builds, HeartbeatStartFails(b) PROVE TypeOK'
  BY <1>7 DEF HeartbeatStartFails, AbandonRow
<1>8. ASSUME NEW b \in Builds, WriteData(b) PROVE TypeOK'
  BY <1>8 DEF WriteData
<1>9. ASSUME NEW b \in Builds, WriteMeta(b) PROVE TypeOK'
  BY <1>9 DEF WriteMeta
<1>10. ASSUME NEW b \in Builds, TrainFails(b) PROVE TypeOK'
  BY <1>10 DEF TrainFails
<1>11. ASSUME NEW b \in Builds, PublishOk(b) PROVE TypeOK'
  BY <1>11 DEF PublishOk, Publishable
<1>12. ASSUME NEW b \in Builds, PublishLost(b) PROVE TypeOK'
  BY <1>12 DEF PublishLost, Publishable
<1>13. ASSUME NEW b \in Builds, SendStop(b) PROVE TypeOK'
  BY <1>13 DEF SendStop
<1>14. ASSUME NEW b \in Builds, JoinHeartbeat(b) PROVE TypeOK'
  BY <1>14 DEF JoinHeartbeat
<1>15. ASSUME NEW b \in Builds, Abandon(b) PROVE TypeOK'
  BY <1>15 DEF Abandon, AbandonRow
<1>16. ASSUME NEW b \in Builds, LoadEntry(b) PROVE TypeOK'
  BY <1>16 DEF LoadEntry
<1>17. ASSUME NEW b \in Builds, ReadMeta(b) PROVE TypeOK'
  BY <1>17 DEF ReadMeta
<1>18. ASSUME NEW b \in Builds, ReadData(b) PROVE TypeOK'
  BY <1>18 DEF ReadData
<1>19. ASSUME NEW b \in Builds, EndBuild(b) PROVE TypeOK'
  BY <1>19 DEF EndBuild
<1>20. ASSUME NEW b \in Builds, Crash(b) PROVE TypeOK'
  BY <1>20 DEF Crash
<1>21. ASSUME NEW b \in Builds, HeartbeatWakes(b) PROVE TypeOK'
  BY <1>21 DEF HeartbeatWakes
<1>22. ASSUME NEW b \in Builds, Renew(b) PROVE TypeOK'
  BY <1>22 DEF Renew
<1>23. ASSUME NEW a \in Builds, DeleteData(a) PROVE TypeOK'
  BY <1>23 DEF DeleteData
<1>24. ASSUME NEW a \in Builds, DeleteMeta(a) PROVE TypeOK'
  BY <1>24 DEF DeleteMeta
<1>25. CASE PurgeEntry
  BY <1>25 DEF PurgeEntry
<1>26. CASE Tick
  BY <1>26 DEF Tick, Pending
<1>27. CASE UNCHANGED vars
  BY <1>27 DEF vars
<1> HIDE DEF IInv, TypeOK
<1>28. QED
  BY <1>1, <1>2, <1>3, <1>4, <1>5, <1>6, <1>7, <1>8, <1>9, <1>10, <1>11, <1>12,
     <1>13, <1>14, <1>15, <1>16, <1>17, <1>18, <1>19, <1>20, <1>21, <1>22,
     <1>23, <1>24, <1>25, <1>26, <1>27
     DEF Next, Work, Claim, Fault, Maintenance

LEMMA ProtocolStep == IInv /\ [Next]_vars => Protocol'
<1> SUFFICES ASSUME IInv, [Next]_vars PROVE Protocol'
  OBVIOUS
<1> USE DEF IInv, TypeOK, Protocol, RowInv, ArtifactInv, HolderInv, RegisteredIsComplete,
            PublicationStands, Published, Holding, Goto, Absent, Failed, Building, Ready, Terminal
<1>1. ASSUME NEW b \in Builds, ReadClock(b) PROVE Protocol'
  BY <1>1 DEF ReadClock
<1>2. ASSUME NEW b \in Builds, ClaimReady(b) PROVE Protocol'
  BY <1>2 DEF ClaimReady
<1>3. ASSUME NEW b \in Builds, ClaimBusy(b) PROVE Protocol'
  BY <1>3 DEF ClaimBusy
<1>4. ASSUME NEW b \in Builds, ClaimGranted(b) PROVE Protocol'
  BY <1>4 DEF ClaimGranted
<1>5. ASSUME NEW b \in Builds, ClaimFails(b) PROVE Protocol'
  BY <1>5 DEF ClaimFails
<1>6. ASSUME NEW b \in Builds, StartHeartbeat(b) PROVE Protocol'
  BY <1>6 DEF StartHeartbeat
<1>7. ASSUME NEW b \in Builds, HeartbeatStartFails(b) PROVE Protocol'
  BY <1>7 DEF HeartbeatStartFails, AbandonRow
<1>8. ASSUME NEW b \in Builds, WriteData(b) PROVE Protocol'
  BY <1>8 DEF WriteData
<1>9. ASSUME NEW b \in Builds, WriteMeta(b) PROVE Protocol'
  BY <1>9 DEF WriteMeta
<1>10. ASSUME NEW b \in Builds, TrainFails(b) PROVE Protocol'
  BY <1>10 DEF TrainFails
<1>11. ASSUME NEW b \in Builds, PublishOk(b) PROVE Protocol'
  BY <1>11 DEF PublishOk, Publishable
<1>12. ASSUME NEW b \in Builds, PublishLost(b) PROVE Protocol'
  BY <1>12 DEF PublishLost, Publishable
<1>13. ASSUME NEW b \in Builds, SendStop(b) PROVE Protocol'
  BY <1>13 DEF SendStop
<1>14. ASSUME NEW b \in Builds, JoinHeartbeat(b) PROVE Protocol'
  BY <1>14 DEF JoinHeartbeat
<1>15. ASSUME NEW b \in Builds, Abandon(b) PROVE Protocol'
  BY <1>15 DEF Abandon, AbandonRow
<1>16. ASSUME NEW b \in Builds, LoadEntry(b) PROVE Protocol'
  BY <1>16 DEF LoadEntry
<1>17. ASSUME NEW b \in Builds, ReadMeta(b) PROVE Protocol'
  BY <1>17 DEF ReadMeta
<1>18. ASSUME NEW b \in Builds, ReadData(b) PROVE Protocol'
  BY <1>18 DEF ReadData
<1>19. ASSUME NEW b \in Builds, EndBuild(b) PROVE Protocol'
  BY <1>19 DEF EndBuild
<1>20. ASSUME NEW b \in Builds, Crash(b) PROVE Protocol'
  BY <1>20 DEF Crash
<1>21. ASSUME NEW b \in Builds, HeartbeatWakes(b) PROVE Protocol'
  BY <1>21 DEF HeartbeatWakes
<1>22. ASSUME NEW b \in Builds, Renew(b) PROVE Protocol'
  BY <1>22 DEF Renew
<1>23. ASSUME NEW a \in Builds, DeleteData(a) PROVE Protocol'
  BY <1>23 DEF DeleteData
<1>24. ASSUME NEW a \in Builds, DeleteMeta(a) PROVE Protocol'
  BY <1>24 DEF DeleteMeta
<1>25. CASE PurgeEntry
  BY <1>25 DEF PurgeEntry
<1>26. CASE Tick
  BY <1>26 DEF Tick, Pending
<1>27. CASE UNCHANGED vars
  BY <1>27 DEF vars
<1> HIDE DEF IInv, Protocol
<1>28. QED
  BY <1>1, <1>2, <1>3, <1>4, <1>5, <1>6, <1>7, <1>8, <1>9, <1>10, <1>11, <1>12,
     <1>13, <1>14, <1>15, <1>16, <1>17, <1>18, <1>19, <1>20, <1>21, <1>22,
     <1>23, <1>24, <1>25, <1>26, <1>27
     DEF Next, Work, Claim, Fault, Maintenance

LEMMA Invariant == Spec => []IInv
<1>1. IInv /\ [Next]_vars => IInv'
  BY TypeStep, ProtocolStep DEF IInv
<1>2. QED
  BY InitIInv, <1>1, PTL DEF Spec

-----------------------------------------------------------------------------
\* The claim protocol keeps its types: leases stay within LeaseTicks of the clock.
THEOREM TypeCorrect == Spec => []TypeOK
  BY Invariant, PTL DEF IInv

\* Builds never hold two different live artifacts for one fingerprint.
THEOREM OneLiveArtifact == Spec => []ResolvedIsRegistered
<1>1. IInv => ResolvedIsRegistered
  BY DEF IInv, Protocol, HolderInv, Holding, ResolvedIsRegistered
<1>2. QED
  BY Invariant, <1>1, PTL

\* A registered artifact whose build runs has its tables and its metadata.
THEOREM RegistrationIsComplete == Spec => []RegisteredIsComplete
  BY Invariant, PTL DEF IInv, Protocol

\* A renewal that loses the race with the publication does not fail the build.
THEOREM PublicationIsFinal == Spec => []PublicationStands
  BY Invariant, PTL DEF IInv, Protocol

\* No claim is taken over before its lease ends, whatever the clock lag.
THEOREM LeasesAreHonoured == Spec => NoEarlyTakeover
<1> DEFINE Keeps == row.state = "building" /\ row.left > 0 /\ row'.state = "building"
                      => row'.owner = row.owner
<1>1. ASSUME IInv, [Next]_vars PROVE [Keeps]_vars
  <2> USE DEF IInv, TypeOK, Absent, Failed, Building, Ready
  <2>1. ASSUME NEW b \in Builds, ClaimGranted(b) PROVE Keeps
    BY <1>1, <2>1 DEF ClaimGranted, LeaseRuns
  <2>2. ASSUME NEW b \in Builds, Renew(b) PROVE Keeps
    BY <2>2 DEF Renew
  <2>3. ASSUME NEW b \in Builds, AbandonRow(b) \/ PublishOk(b) PROVE Keeps
    BY <2>3 DEF AbandonRow, PublishOk
  <2>4. CASE PurgeEntry
    BY <2>4 DEF PurgeEntry
  <2>5. CASE Tick
    BY <2>5 DEF Tick
  <2>6. CASE UNCHANGED row
    BY <2>6
  <2>7. CASE UNCHANGED vars
    BY <2>7
  <2>8. QED
    BY <1>1, <2>1, <2>2, <2>3, <2>4, <2>5, <2>6, <2>7
    DEF Next, Work, Claim, Fault, Maintenance, ReadClock, ClaimReady, ClaimBusy, ClaimFails,
        StartHeartbeat, HeartbeatStartFails, WriteData, WriteMeta, TrainFails, PublishLost,
        SendStop, JoinHeartbeat, Abandon, LoadEntry, ReadMeta, ReadData, EndBuild, Crash,
        HeartbeatWakes, DeleteData, DeleteMeta
<1>2. QED
  BY Invariant, <1>1, PTL DEF NoEarlyTakeover, Spec

\* A late abandon never marks the claim of the build that took over as failed.
THEOREM OnlyOwnersAbandon == Spec => AbandonsOwnClaim
<1> DEFINE Own == row.state = "building" /\ row'.state = "failed"
                    => pc'[row.owner] # pc[row.owner]
<1>1. ASSUME IInv, [Next]_vars PROVE [Own]_vars
  <2> USE DEF IInv, TypeOK, Absent, Failed, Building, Ready
  <2>1. ASSUME NEW b \in Builds, HeartbeatStartFails(b) \/ Abandon(b) PROVE Own
    BY <1>1, <2>1 DEF HeartbeatStartFails, Abandon, AbandonRow, Goto, Terminal
  <2>2. ASSUME NEW b \in Builds, ClaimGranted(b) \/ Renew(b) \/ PublishOk(b) PROVE Own
    BY <2>2 DEF ClaimGranted, Renew, PublishOk
  <2>3. CASE PurgeEntry
    BY <2>3 DEF PurgeEntry
  <2>4. CASE Tick
    BY <2>4 DEF Tick
  <2>5. CASE UNCHANGED row
    BY <2>5
  <2>6. CASE UNCHANGED vars
    BY <2>6
  <2>7. QED
    BY <1>1, <2>1, <2>2, <2>3, <2>4, <2>5, <2>6
    DEF Next, Work, Claim, Fault, Maintenance, ReadClock, ClaimReady, ClaimBusy, ClaimFails,
        StartHeartbeat, WriteData, WriteMeta, TrainFails, PublishLost,
        SendStop, JoinHeartbeat, LoadEntry, ReadMeta, ReadData, EndBuild, Crash,
        HeartbeatWakes, DeleteData, DeleteMeta
<1>2. QED
  BY Invariant, <1>1, PTL DEF AbandonsOwnClaim, Spec

-----------------------------------------------------------------------------
\* Refinement of CentroidRegistry.

EntryBar == IF row.state = "ready" THEN row.artifact ELSE None

CompleteBar == data \cap meta

LEMMA StepSimulation == IInv /\ [Next]_vars => [Registry!Next]_(Registry!vars)
<1> SUFFICES ASSUME IInv, [Next]_vars
             PROVE  Registry!Next \/ UNCHANGED <<EntryBar, CompleteBar>>
  BY DEF Registry!vars, EntryBar, CompleteBar
<1> USE DEF IInv, TypeOK, Protocol, RowInv, ArtifactInv, Goto, Absent, Failed, Building, Ready,
            EntryBar, CompleteBar
<1> DEFINE Stutter == UNCHANGED <<EntryBar, CompleteBar>>
<1>1. ASSUME NEW b \in Builds, WriteData(b) PROVE Stutter
  BY <1>1 DEF WriteData
<1>2. ASSUME NEW b \in Builds, WriteMeta(b) PROVE Registry!Write(b)
  BY <1>2 DEF WriteMeta, Registry!Write
<1>3. ASSUME NEW b \in Builds, PublishOk(b) PROVE Registry!Register(b)
  BY <1>3 DEF PublishOk, Publishable, Registry!Register
<1>4. ASSUME NEW a \in Builds, DeleteData(a) PROVE Registry!Remove(a) \/ Stutter
  BY <1>4 DEF DeleteData, Registry!Remove
<1>5. ASSUME NEW a \in Builds, DeleteMeta(a) PROVE Stutter
  BY <1>5 DEF DeleteMeta
<1>6. CASE PurgeEntry
  <2>1. Registry!Forget
    BY <1>6 DEF PurgeEntry, Registry!Forget
  <2>2. QED BY <2>1 DEF Registry!Next
<1>7. ASSUME NEW b \in Builds, ClaimGranted(b) \/ Renew(b) PROVE Stutter
  BY <1>7 DEF ClaimGranted, Renew
<1>8. ASSUME NEW b \in Builds, HeartbeatStartFails(b) \/ Abandon(b) PROVE Stutter
  BY <1>8 DEF HeartbeatStartFails, Abandon, AbandonRow
<1>9. CASE Tick
  BY <1>9 DEF Tick
<1>10. CASE UNCHANGED <<row, data, meta>>
  BY <1>10
<1>11. QED
  BY <1>1, <1>2, <1>3, <1>4, <1>5, <1>6, <1>7, <1>8, <1>9, <1>10
  DEF Next, Work, Claim, Fault, Maintenance, Registry!Next, vars, ReadClock, ClaimReady,
      ClaimBusy, ClaimFails, StartHeartbeat, TrainFails, PublishLost, SendStop, JoinHeartbeat,
      LoadEntry, ReadMeta, ReadData, EndBuild, Crash, HeartbeatWakes

\* The leased, renewed and abandoned row implements the registry that holds at
\* most one complete artifact.
THEOREM ClaimsImplementRegistry == Spec => ImplementsRegistry
<1>1. Init => Registry!Init
  BY DEF Init, Registry!Init, Absent
<1>2. QED
  BY <1>1, Invariant, StepSimulation, PTL DEF Spec, ImplementsRegistry, Registry!Spec
=================================================================================
