----------------------- MODULE SessionCoordinationProofs -----------------------
(***************************************************************************)
(* Build leases are exclusive and sweeps protect every running build, for  *)
(* any number of identifiers, builds, sweeps, lease files and roots.       *)
(***************************************************************************)
EXTENDS SessionCoordination, TLAPS

\* The session lock: a writer excludes all readers, and who holds which guard
\* follows from where the process is.
GuardInv ==
    /\ writer # None => readers = {}
    /\ \A b \in Builders :
        /\ b \in readers <=> pc[b] \in {"guarded", "opened", "reserved"}
        /\ writer = b <=> pc[b] = "publishing"
    /\ \A s \in Sweepers : writer = s <=> sweep[s] # "idle"

\* Lease files: a build's open descriptor is the file its path still names, two
\* paths never share an inode, an inode is locked by whoever holds its lease, and
\* a lease file lists no root only until set_snapshot_root.
FileInv ==
    /\ \A b \in Builders :
        /\ name[b] # None <=> pc[b] # "idle"
        /\ fd[b] # None <=> pc[b] \notin {"idle", "guarded"}
        /\ fd[b] # None => path[name[b]] = fd[b]
    /\ \A m, n \in Names : path[m] = path[n] /\ path[m] # None => m = n
    /\ \A i \in Inodes, b \in Builders :
        flock[i] = b <=> fd[b] = i /\ HoldsLease(b)
    /\ \A b \in Builders : HoldsLease(b) => (pc[b] = "reserved" <=> content[fd[b]] = {})

\* Sweeps: a path is unlinked only while nobody locks its inode, and a lease is
\* either still to be visited or its roots have been collected.
ScanInv ==
    \A s \in Sweepers :
        /\ sweep[s] = "idle" => found[s] = {}
        /\ victim[s] # None => /\ sweep[s] = "scan"
                               /\ path[victim[s]] # None
                               /\ flock[path[victim[s]]] = None
        /\ sweep[s] # "idle" =>
             \A b \in Builders : HoldsLease(b) =>
                 \/ sweep[s] = "scan" /\ name[b] \in todo[s]
                 \/ content[fd[b]] \subseteq found[s]

IInv == TypeOK /\ GuardInv /\ FileInv /\ ScanInv

USE DisjointActors

LEMMA InitIInv == Init => IInv
  BY DEF Init, IInv, TypeOK, GuardInv, FileInv, ScanInv, HoldsLease

LEMMA TypeStep == IInv /\ [Next]_vars => TypeOK'
<1> SUFFICES ASSUME IInv, [Next]_vars PROVE TypeOK'
  OBVIOUS
<1> USE DEF IInv, TypeOK, guard, files, build, scan
<1>1. ASSUME NEW b \in Builders, NEW n \in Names, BeginReserve(b, n) PROVE TypeOK'
  BY <1>1 DEF BeginReserve, AcquireShared
<1>2. ASSUME NEW b \in Builders, OpenLease(b) PROVE TypeOK'
  <2>1. name[b] \in Names
    BY <1>2 DEF OpenLease, FileInv
  <2>2. QED BY <1>2, <2>1 DEF OpenLease
<1>3. ASSUME NEW b \in Builders, LockLease(b) PROVE TypeOK'
  BY <1>3 DEF LockLease
<1>4. ASSUME NEW b \in Builders, RejectLease(b) PROVE TypeOK'
  BY <1>4 DEF RejectLease
<1>5. ASSUME NEW b \in Builders, NEW r \in Roots, SetSnapshotRoot(b, r) PROVE TypeOK'
  BY <1>5 DEF SetSnapshotRoot
<1>6. ASSUME NEW b \in Builders, NEW r \in Roots, AddSnapshotRoot(b, r) PROVE TypeOK'
  <2>1. fd[b] \in Inodes
    BY <1>6 DEF AddSnapshotRoot, FileInv
  <2>2. QED BY <1>6, <2>1 DEF AddSnapshotRoot
<1>7. ASSUME NEW b \in Builders, BeginPublish(b) PROVE TypeOK'
  BY <1>7 DEF BeginPublish, AcquireExclusive
<1>8. ASSUME NEW b \in Builders, EndPublish(b) PROVE TypeOK'
  BY <1>8 DEF EndPublish
<1>9. ASSUME NEW b \in Builders, ExitBuild(b) PROVE TypeOK'
  BY <1>9 DEF ExitBuild
<1>10. ASSUME NEW s \in Sweepers, BeginSweep(s) PROVE TypeOK'
  BY <1>10 DEF BeginSweep, AcquireExclusive
<1>11. ASSUME NEW s \in Sweepers, NEW n \in Names, ScanLease(s, n) PROVE TypeOK'
  <2>1. path[n] \in Inodes \cup {None} /\ (path[n] # None => content[path[n]] \subseteq Roots)
    OBVIOUS
  <2>2. QED BY <1>11, <2>1 DEF ScanLease
<1>12. ASSUME NEW s \in Sweepers, RemoveStaleLease(s) PROVE TypeOK'
  BY <1>12 DEF RemoveStaleLease
<1>13. ASSUME NEW s \in Sweepers, EndScan(s) PROVE TypeOK'
  BY <1>13 DEF EndScan
<1>14. ASSUME NEW s \in Sweepers, ExitSweep(s) PROVE TypeOK'
  BY <1>14 DEF ExitSweep
<1>15. CASE UNCHANGED vars
  BY <1>15 DEF vars
<1>16. QED
  BY <1>1, <1>2, <1>3, <1>4, <1>5, <1>6, <1>7, <1>8, <1>9, <1>10, <1>11,
     <1>12, <1>13, <1>14, <1>15 DEF Next, BuildStep, SweepStep

LEMMA GuardStep == IInv /\ [Next]_vars => GuardInv'
<1> SUFFICES ASSUME IInv, [Next]_vars PROVE GuardInv'
  OBVIOUS
<1> USE DEF IInv, TypeOK, GuardInv, guard, files, build, scan
<1>1. ASSUME NEW b \in Builders, NEW n \in Names, BeginReserve(b, n) PROVE GuardInv'
  BY <1>1 DEF BeginReserve, AcquireShared
<1>2. ASSUME NEW b \in Builders, OpenLease(b) PROVE GuardInv'
  BY <1>2 DEF OpenLease, FreeInode
<1>3. ASSUME NEW b \in Builders, LockLease(b) PROVE GuardInv'
  BY <1>3 DEF LockLease
<1>4. ASSUME NEW b \in Builders, RejectLease(b) PROVE GuardInv'
  BY <1>4 DEF RejectLease
<1>5. ASSUME NEW b \in Builders, NEW r \in Roots, SetSnapshotRoot(b, r) PROVE GuardInv'
  BY <1>5 DEF SetSnapshotRoot
<1>6. ASSUME NEW b \in Builders, NEW r \in Roots, AddSnapshotRoot(b, r) PROVE GuardInv'
  BY <1>6 DEF AddSnapshotRoot
<1>7. ASSUME NEW b \in Builders, BeginPublish(b) PROVE GuardInv'
  BY <1>7 DEF BeginPublish, AcquireExclusive
<1>8. ASSUME NEW b \in Builders, EndPublish(b) PROVE GuardInv'
  BY <1>8 DEF EndPublish
<1>9. ASSUME NEW b \in Builders, ExitBuild(b) PROVE GuardInv'
  BY <1>9 DEF ExitBuild
<1>10. ASSUME NEW s \in Sweepers, BeginSweep(s) PROVE GuardInv'
  BY <1>10 DEF BeginSweep, AcquireExclusive
<1>11. ASSUME NEW s \in Sweepers, NEW n \in Names, ScanLease(s, n) PROVE GuardInv'
  BY <1>11 DEF ScanLease
<1>12. ASSUME NEW s \in Sweepers, RemoveStaleLease(s) PROVE GuardInv'
  BY <1>12 DEF RemoveStaleLease
<1>13. ASSUME NEW s \in Sweepers, EndScan(s) PROVE GuardInv'
  BY <1>13 DEF EndScan
<1>14. ASSUME NEW s \in Sweepers, ExitSweep(s) PROVE GuardInv'
  BY <1>14 DEF ExitSweep
<1>15. CASE UNCHANGED vars
  BY <1>15 DEF vars
<1>16. QED
  BY <1>1, <1>2, <1>3, <1>4, <1>5, <1>6, <1>7, <1>8, <1>9, <1>10, <1>11,
     <1>12, <1>13, <1>14, <1>15 DEF Next, BuildStep, SweepStep

LEMMA FileStep == IInv /\ [Next]_vars => FileInv'
<1> SUFFICES ASSUME IInv, [Next]_vars PROVE FileInv'
  OBVIOUS
<1> USE DEF IInv, TypeOK, GuardInv, FileInv, HoldsLease, guard, files, build, scan
<1>1. ASSUME NEW b \in Builders, NEW n \in Names, BeginReserve(b, n) PROVE FileInv'
  BY <1>1 DEF BeginReserve, AcquireShared
<1>2. ASSUME NEW b \in Builders, OpenLease(b) PROVE FileInv'
  BY <1>2 DEF OpenLease, FreeInode
<1>3. ASSUME NEW b \in Builders, LockLease(b) PROVE FileInv'
  <2>1. /\ pc[b] = "opened" /\ fd[b] \in Inodes /\ flock[fd[b]] = None
        /\ UNCHANGED <<name, fd, path>>
    BY <1>3 DEF LockLease
  <2>2. \A c \in Builders : HoldsLease(c) => fd[c] \in Inodes /\ fd[c] # fd[b]
    BY <2>1
  <2>3. pc'[b] = "reserved" /\ \A c \in Builders : c # b => pc'[c] = pc[c]
    BY <1>3 DEF LockLease
  <2>4. \A i \in Inodes : /\ flock'[i] = IF i = fd[b] THEN b ELSE flock[i]
                          /\ content'[i] = IF i = fd[b] THEN {} ELSE content[i]
    BY <1>3 DEF LockLease
  <2>5. QED BY <2>1, <2>2, <2>3, <2>4
<1>4. ASSUME NEW b \in Builders, RejectLease(b) PROVE FileInv'
  BY <1>4 DEF RejectLease
<1>5. ASSUME NEW b \in Builders, NEW r \in Roots, SetSnapshotRoot(b, r) PROVE FileInv'
  <2>1. /\ pc[b] = "reserved" /\ fd[b] \in Inodes /\ HoldsLease(b)
        /\ UNCHANGED <<name, fd, path, flock>>
    BY <1>5 DEF SetSnapshotRoot
  <2>2. \A c \in Builders : HoldsLease(c) /\ c # b => fd[c] \in Inodes /\ fd[c] # fd[b]
    BY <2>1
  <2>3. pc'[b] = "pinned" /\ \A c \in Builders : c # b => pc'[c] = pc[c]
    BY <1>5 DEF SetSnapshotRoot
  <2>4. content'[fd[b]] = {r} /\ \A i \in Inodes : i # fd[b] => content'[i] = content[i]
    BY <1>5, <2>1 DEF SetSnapshotRoot
  <2>5. \A c \in Builders : HoldsLease(c)' <=> HoldsLease(c)
    BY <2>1, <2>3
  <2>6. ASSUME NEW c \in Builders, HoldsLease(c)
        PROVE  pc'[c] = "reserved" <=> content'[fd[c]] = {}
    <3>1. CASE c = b
      <4>1. content'[fd[b]] # {}
        BY <2>4, r \in {r}
      <4>2. QED BY <2>3, <3>1, <4>1
    <3>2. CASE c # b
      <4>1. content'[fd[c]] = content[fd[c]] /\ pc'[c] = pc[c]
        BY <2>2, <2>3, <2>4, <2>6, <3>2
      <4>2. QED BY <2>6, <4>1
    <3>3. QED BY <3>1, <3>2
  <2>7. QED BY <2>1, <2>3, <2>5, <2>6
<1>6. ASSUME NEW b \in Builders, NEW r \in Roots, AddSnapshotRoot(b, r) PROVE FileInv'
  <2>1. /\ pc[b] = "pinned" /\ fd[b] \in Inodes /\ HoldsLease(b)
        /\ UNCHANGED <<pc, name, fd, path, flock>>
    BY <1>6 DEF AddSnapshotRoot
  <2>2. \A c \in Builders : HoldsLease(c) /\ c # b => fd[c] \in Inodes /\ fd[c] # fd[b]
    BY <2>1
  <2>3. content'[fd[b]] # {} /\ \A i \in Inodes : i # fd[b] => content'[i] = content[i]
    BY <1>6, <2>1 DEF AddSnapshotRoot
  <2>4. \A c \in Builders : HoldsLease(c) => content[fd[c]] = {} <=> content'[fd[c]] = {}
    BY <2>1, <2>2, <2>3
  <2>5. QED BY <2>1, <2>4
<1>7. ASSUME NEW b \in Builders, BeginPublish(b) PROVE FileInv'
  BY <1>7 DEF BeginPublish, AcquireExclusive
<1>8. ASSUME NEW b \in Builders, EndPublish(b) PROVE FileInv'
  BY <1>8 DEF EndPublish
<1>9. ASSUME NEW b \in Builders, ExitBuild(b) PROVE FileInv'
  BY <1>9 DEF ExitBuild
<1>10. ASSUME NEW s \in Sweepers, BeginSweep(s) PROVE FileInv'
  BY <1>10 DEF BeginSweep, AcquireExclusive
<1>11. ASSUME NEW s \in Sweepers, NEW n \in Names, ScanLease(s, n) PROVE FileInv'
  BY <1>11 DEF ScanLease
<1>12. ASSUME NEW s \in Sweepers, RemoveStaleLease(s) PROVE FileInv'
  <2>1. victim[s] \in Names /\ flock[path[victim[s]]] = None /\ path[victim[s]] \in Inodes
    BY <1>12 DEF RemoveStaleLease, ScanInv
  <2>2. ASSUME NEW b \in Builders, fd[b] # None PROVE name[b] # victim[s]
    <3>1. HoldsLease(b)
      BY <1>12, <2>2 DEF RemoveStaleLease
    <3>2. flock[fd[b]] = b /\ path[name[b]] = fd[b]
      BY <2>2, <3>1
    <3>3. QED BY <2>1, <3>2
  <2>3. QED BY <1>12, <2>1, <2>2 DEF RemoveStaleLease
<1>13. ASSUME NEW s \in Sweepers, EndScan(s) PROVE FileInv'
  BY <1>13 DEF EndScan
<1>14. ASSUME NEW s \in Sweepers, ExitSweep(s) PROVE FileInv'
  BY <1>14 DEF ExitSweep
<1>15. CASE UNCHANGED vars
  BY <1>15 DEF vars
<1>16. QED
  BY <1>1, <1>2, <1>3, <1>4, <1>5, <1>6, <1>7, <1>8, <1>9, <1>10, <1>11,
     <1>12, <1>13, <1>14, <1>15 DEF Next, BuildStep, SweepStep

LEMMA ScanStep == IInv /\ [Next]_vars => ScanInv'
<1> SUFFICES ASSUME IInv, [Next]_vars PROVE ScanInv'
  OBVIOUS
<1> USE DEF IInv, TypeOK, GuardInv, FileInv, ScanInv, HoldsLease, guard, files, build, scan
<1>1. ASSUME NEW b \in Builders, NEW n \in Names, BeginReserve(b, n) PROVE ScanInv'
  BY <1>1 DEF BeginReserve, AcquireShared
<1>2. ASSUME NEW b \in Builders, OpenLease(b) PROVE ScanInv'
  BY <1>2 DEF OpenLease, FreeInode
<1>3. ASSUME NEW b \in Builders, LockLease(b) PROVE ScanInv'
  BY <1>3 DEF LockLease
<1>4. ASSUME NEW b \in Builders, RejectLease(b) PROVE ScanInv'
  BY <1>4 DEF RejectLease
<1>5. ASSUME NEW b \in Builders, NEW r \in Roots, SetSnapshotRoot(b, r) PROVE ScanInv'
  BY <1>5 DEF SetSnapshotRoot
<1>6. ASSUME NEW b \in Builders, NEW r \in Roots, AddSnapshotRoot(b, r) PROVE ScanInv'
  BY <1>6 DEF AddSnapshotRoot
<1>7. ASSUME NEW b \in Builders, BeginPublish(b) PROVE ScanInv'
  BY <1>7 DEF BeginPublish, AcquireExclusive
<1>8. ASSUME NEW b \in Builders, EndPublish(b) PROVE ScanInv'
  BY <1>8 DEF EndPublish
<1>9. ASSUME NEW b \in Builders, ExitBuild(b) PROVE ScanInv'
  BY <1>9 DEF ExitBuild
<1>10. ASSUME NEW s \in Sweepers, BeginSweep(s) PROVE ScanInv'
  BY <1>10 DEF BeginSweep, AcquireExclusive
<1>11. ASSUME NEW s \in Sweepers, NEW n \in Names, ScanLease(s, n) PROVE ScanInv'
  BY <1>11 DEF ScanLease
<1>12. ASSUME NEW s \in Sweepers, RemoveStaleLease(s) PROVE ScanInv'
  BY <1>12 DEF RemoveStaleLease
<1>13. ASSUME NEW s \in Sweepers, EndScan(s) PROVE ScanInv'
  BY <1>13 DEF EndScan
<1>14. ASSUME NEW s \in Sweepers, ExitSweep(s) PROVE ScanInv'
  BY <1>14 DEF ExitSweep
<1>15. CASE UNCHANGED vars
  BY <1>15 DEF vars
<1>16. QED
  BY <1>1, <1>2, <1>3, <1>4, <1>5, <1>6, <1>7, <1>8, <1>9, <1>10, <1>11,
     <1>12, <1>13, <1>14, <1>15 DEF Next, BuildStep, SweepStep

-----------------------------------------------------------------------------
LEMMA Invariant == Spec => []IInv
<1>1. IInv /\ [Next]_vars => IInv'
  BY TypeStep, GuardStep, FileStep, ScanStep DEF IInv
<1>2. QED BY InitIInv, <1>1, PTL DEF Spec

\* The coordination state keeps its types.
THEOREM TypeCorrect == Spec => []TypeOK
  BY Invariant, PTL DEF IInv

\* Whatever builds and sweeps do, and wherever they crash, two builds never hold
\* the lease of one index identifier.
THEOREM LeasesAreExclusive == Spec => []LeaseExclusion
<1>1. IInv => LeaseExclusion
  BY DEF IInv, TypeOK, FileInv, LeaseExclusion, HoldsLease
<1>2. QED BY <1>1, Invariant, PTL

\* A sweep in its deletion phase protects the roots of every build in flight.
THEOREM SweepsProtectBuilds == Spec => []SweepProtectsBuilds
<1>1. IInv => SweepProtectsBuilds
  BY DEF IInv, TypeOK, GuardInv, FileInv, ScanInv, SweepProtectsBuilds, HoldsLease
<1>2. QED BY <1>1, Invariant, PTL

\* No build waits for the exclusive session guard while it holds the shared one.
THEOREM BuildsNeverBlockThemselves == Spec => []NoSelfDeadlock
<1>1. IInv => NoSelfDeadlock
  BY DEF IInv, TypeOK, GuardInv, NoSelfDeadlock
<1>2. QED BY <1>1, Invariant, PTL

-----------------------------------------------------------------------------
(* The refinement, one step per action. *)

\* The substitution of Leases, as operators the steps below can name.
HoldersBar == [n \in Names |-> {b \in Builders : HoldsLease(b) /\ name[b] = n}]
PinsBar == [b \in Builders |-> IF HoldsLease(b) THEN content[fd[b]] ELSE {}]
ProtectedBar == IF Sweeping THEN UNION {found[s] : s \in Sweepers} ELSE {}

LEMMA OneOfUnion ==
    ASSUME NEW S, NEW f, NEW s \in S, \A t \in S \ {s} : f[t] = {}
    PROVE  UNION {f[t] : t \in S} = f[s]
  OBVIOUS

LEMMA StepSimulation == IInv /\ IInv' /\ [Next]_vars => [Leases!Next]_(Leases!vars)
<1> SUFFICES ASSUME IInv, IInv', [Next]_vars
             PROVE  Leases!Next \/ UNCHANGED <<HoldersBar, PinsBar, Sweeping, ProtectedBar>>
  BY DEF Leases!vars, HoldersBar, PinsBar, ProtectedBar
<1> USE DEF IInv, TypeOK, GuardInv, FileInv, ScanInv, HoldsLease, guard, files, build, scan
<1> DEFINE Stutter == UNCHANGED <<HoldersBar, PinsBar, Sweeping, ProtectedBar>>
<1>1. ASSUME NEW b \in Builders, NEW n \in Names, BeginReserve(b, n) PROVE Stutter
  BY <1>1 DEF BeginReserve, AcquireShared, HoldersBar, PinsBar, ProtectedBar, Sweeping
<1>2. ASSUME NEW b \in Builders, OpenLease(b) PROVE Stutter
  BY <1>2 DEF OpenLease, FreeInode, HoldersBar, PinsBar, ProtectedBar, Sweeping
<1>3. ASSUME NEW b \in Builders, NEW n \in Names, name[b] = n, LockLease(b)
      PROVE  Leases!Reserve(b, n)
  <2>1. ~Sweeping /\ ~Sweeping'
    BY <1>3 DEF LockLease, Sweeping
  <2>2. HoldersBar[n] = {} /\ \A m \in Names : b \notin HoldersBar[m]
    BY <1>3 DEF LockLease, HoldersBar
  <2>3. HoldersBar' = [HoldersBar EXCEPT ![n] = {b}]
    <3>1. ASSUME NEW m \in Names PROVE HoldersBar'[m] = IF m = n THEN {b} ELSE HoldersBar[m]
      BY <1>3, <2>2 DEF LockLease, HoldersBar
    <3>2. /\ HoldersBar = [m \in Names |-> HoldersBar[m]]
          /\ HoldersBar' = [m \in Names |-> HoldersBar'[m]]
      BY DEF HoldersBar
    <3>3. QED BY <3>1, <3>2
  <2>4. PinsBar' = [PinsBar EXCEPT ![b] = {}]
    <3>1. ASSUME NEW c \in Builders PROVE PinsBar'[c] = IF c = b THEN {} ELSE PinsBar[c]
      BY <1>3 DEF LockLease, PinsBar
    <3>2. QED BY <3>1 DEF PinsBar
  <2>5. UNCHANGED <<Sweeping, ProtectedBar>>
    BY <2>1 DEF Sweeping, ProtectedBar
  <2>6. QED
    BY <2>1, <2>2, <2>3, <2>4, <2>5
    DEF Leases!Reserve, Leases!Holding, HoldersBar, PinsBar, ProtectedBar
<1>4. ASSUME NEW b \in Builders, RejectLease(b) PROVE Stutter
  BY <1>4 DEF RejectLease, HoldersBar, PinsBar, ProtectedBar, Sweeping
<1>5. ASSUME NEW b \in Builders, NEW r \in Roots, SetSnapshotRoot(b, r) PROVE Leases!Pin(b, r)
  <2>1. ~Sweeping /\ ~Sweeping'
    BY <1>5 DEF SetSnapshotRoot, Sweeping
  <2>2. name[b] \in Names /\ b \in HoldersBar[name[b]] /\ HoldersBar' = HoldersBar
    BY <1>5 DEF SetSnapshotRoot, HoldersBar
  <2>3. PinsBar' = [PinsBar EXCEPT ![b] = @ \cup {r}]
    <3>1. ASSUME NEW c \in Builders
          PROVE  PinsBar'[c] = IF c = b THEN PinsBar[b] \cup {r} ELSE PinsBar[c]
      <4>1. CASE c = b
        <5>1. PinsBar[b] = {} /\ PinsBar'[b] = {r}
          BY <1>5 DEF SetSnapshotRoot, PinsBar
        <5>2. QED BY <4>1, <5>1
      <4>2. CASE c # b
        BY <1>5, <4>2 DEF SetSnapshotRoot, PinsBar
      <4>3. QED BY <4>1, <4>2
    <3>2. QED BY <3>1 DEF PinsBar
  <2>4. UNCHANGED <<Sweeping, ProtectedBar>>
    BY <2>1 DEF Sweeping, ProtectedBar
  <2>5. QED
    BY <2>1, <2>2, <2>3, <2>4
    DEF Leases!Pin, Leases!Holding, HoldersBar, PinsBar, ProtectedBar
<1>6. ASSUME NEW b \in Builders, NEW r \in Roots, AddSnapshotRoot(b, r) PROVE Leases!Pin(b, r)
  <2>1. ~Sweeping /\ ~Sweeping'
    BY <1>6 DEF AddSnapshotRoot, Sweeping
  <2>2. name[b] \in Names /\ b \in HoldersBar[name[b]] /\ HoldersBar' = HoldersBar
    BY <1>6 DEF AddSnapshotRoot, HoldersBar
  <2>3. PinsBar' = [PinsBar EXCEPT ![b] = @ \cup {r}]
    <3>1. ASSUME NEW c \in Builders
          PROVE  PinsBar'[c] = IF c = b THEN PinsBar[b] \cup {r} ELSE PinsBar[c]
      BY <1>6 DEF AddSnapshotRoot, PinsBar
    <3>2. QED BY <3>1 DEF PinsBar
  <2>4. UNCHANGED <<Sweeping, ProtectedBar>>
    BY <2>1 DEF Sweeping, ProtectedBar
  <2>5. QED
    BY <2>1, <2>2, <2>3, <2>4
    DEF Leases!Pin, Leases!Holding, HoldersBar, PinsBar, ProtectedBar
<1>7. ASSUME NEW b \in Builders, BeginPublish(b) PROVE Stutter
  BY <1>7 DEF BeginPublish, AcquireExclusive, HoldersBar, PinsBar, ProtectedBar, Sweeping
<1>8. ASSUME NEW b \in Builders, EndPublish(b) PROVE Stutter
  BY <1>8 DEF EndPublish, HoldersBar, PinsBar, ProtectedBar, Sweeping
<1>9. ASSUME NEW b \in Builders, ExitBuild(b) PROVE Leases!Release(b) \/ Stutter
  <2>1. UNCHANGED <<Sweeping, ProtectedBar>>
    BY <1>9 DEF ExitBuild, Sweeping, ProtectedBar
  <2>2. CASE ~HoldsLease(b)
    BY <1>9, <2>1, <2>2 DEF ExitBuild, HoldersBar, PinsBar
  <2>3. CASE HoldsLease(b)
    <3>1. name[b] \in Names /\ b \in HoldersBar[name[b]]
      BY <2>3 DEF HoldersBar
    <3>2. HoldersBar' = [n \in Names |-> HoldersBar[n] \ {b}]
      BY <1>9 DEF ExitBuild, HoldersBar
    <3>3. PinsBar' = [PinsBar EXCEPT ![b] = {}]
      BY <1>9 DEF ExitBuild, PinsBar
    <3>4. QED
      BY <2>1, <3>1, <3>2, <3>3
      DEF Leases!Release, Leases!Holding, HoldersBar, PinsBar, ProtectedBar
  <2>4. QED BY <2>2, <2>3
<1>10. ASSUME NEW s \in Sweepers, BeginSweep(s) PROVE Stutter
  BY <1>10 DEF BeginSweep, AcquireExclusive, HoldersBar, PinsBar, ProtectedBar, Sweeping
<1>11. ASSUME NEW s \in Sweepers, NEW n \in Names, ScanLease(s, n) PROVE Stutter
  BY <1>11 DEF ScanLease, HoldersBar, PinsBar, ProtectedBar, Sweeping
<1>12. ASSUME NEW s \in Sweepers, RemoveStaleLease(s) PROVE Stutter
  BY <1>12 DEF RemoveStaleLease, HoldersBar, PinsBar, ProtectedBar, Sweeping
<1>13. ASSUME NEW s \in Sweepers, NEW P \in SUBSET Roots, P = found[s], EndScan(s)
       PROVE  Leases!BeginSweep(P)
  <2>1. ~Sweeping /\ Sweeping' /\ UNCHANGED <<HoldersBar, PinsBar>>
    BY <1>13 DEF EndScan, Sweeping, HoldersBar, PinsBar
  <2>2. ProtectedBar' = P
    <3>1. found' = found
      BY <1>13 DEF EndScan
    <3>2. \A t \in Sweepers \ {s} : found[t] = {}
      BY <1>13 DEF EndScan
    <3>3. UNION {found[t] : t \in Sweepers} = found[s]
      BY <3>2, OneOfUnion
    <3>4. QED BY <1>13, <2>1, <3>1, <3>3 DEF ProtectedBar
  <2>3. \A b \in Builders : (\E n \in Names : b \in HoldersBar[n]) =>
            PinsBar[b] # {} /\ PinsBar[b] \subseteq P
    BY <1>13 DEF EndScan, HoldersBar, PinsBar
  <2>4. QED
    BY <2>1, <2>2, <2>3
    DEF Leases!BeginSweep, Leases!Holding, HoldersBar, PinsBar, ProtectedBar
<1>14. ASSUME NEW s \in Sweepers, ExitSweep(s) PROVE Leases!EndSweep \/ Stutter
  <2>1. ~Sweeping' /\ UNCHANGED <<HoldersBar, PinsBar>>
    BY <1>14 DEF ExitSweep, Sweeping, HoldersBar, PinsBar
  <2>2. CASE Sweeping
    BY <2>1, <2>2 DEF Leases!EndSweep, HoldersBar, PinsBar, ProtectedBar, Sweeping
  <2>3. CASE ~Sweeping
    BY <2>1, <2>3 DEF Sweeping, ProtectedBar
  <2>4. QED BY <2>2, <2>3
<1>15. CASE UNCHANGED vars
  BY <1>15 DEF vars, HoldersBar, PinsBar, ProtectedBar, Sweeping
<1>16. QED
  <2>1. \A s \in Sweepers : found[s] \in SUBSET Roots
    OBVIOUS
  <2>2. \A b \in Builders : pc[b] = "opened" => name[b] \in Names
    OBVIOUS
  <2> HIDE DEF IInv, TypeOK, GuardInv, FileInv, ScanInv, HoldsLease, guard, files, build, scan,
               Stutter
  <2>3. ASSUME NEW b \in Builders, BuildStep(b) PROVE Leases!Next \/ Stutter
    <3>1. CASE LockLease(b)
      <4>1. PICK n \in Names : name[b] = n
        BY <2>2, <3>1 DEF LockLease
      <4>2. QED BY <1>3, <3>1, <4>1 DEF Leases!Next
    <3>2. CASE ExitBuild(b)
      BY <1>9, <3>2 DEF Leases!Next
    <3>3. ASSUME NEW r \in Roots, SetSnapshotRoot(b, r) \/ AddSnapshotRoot(b, r)
          PROVE  Leases!Next
      BY <1>5, <1>6, <3>3 DEF Leases!Next
    <3>4. QED
      BY <1>1, <1>2, <1>4, <1>7, <1>8, <2>3, <3>1, <3>2, <3>3 DEF BuildStep
  <2>4. ASSUME NEW s \in Sweepers, SweepStep(s) PROVE Leases!Next \/ Stutter
    <3>1. CASE EndScan(s)
      <4>1. PICK P \in SUBSET Roots : P = found[s]
        BY <2>1
      <4>2. QED BY <1>13, <3>1, <4>1 DEF Leases!Next
    <3>2. CASE ExitSweep(s)
      BY <1>14, <3>2 DEF Leases!Next
    <3>3. QED
      BY <1>10, <1>11, <1>12, <2>4, <3>1, <3>2 DEF SweepStep
  <2>5. QED
    BY <1>15, <2>3, <2>4 DEF Next, Stutter

\* Every behaviour of the flock'ed files is a behaviour of the abstract lease
\* table: the rest of the system may rely on LeaseTable alone.
THEOREM LocksImplementLeaseTable == Spec => ImplementsLeaseTable
<1>1. Init => Leases!Init
  BY DEF Init, Leases!Init, HoldsLease, Sweeping
<1>2. QED
  BY <1>1, Invariant, StepSimulation, PTL
  DEF Spec, ImplementsLeaseTable, Leases!Spec
================================================================================
