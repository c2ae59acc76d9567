-------------------------- MODULE SessionCoordination --------------------------
(***************************************************************************)
(* rust/parqdb-local/src/coordination.rs: the session lock (a flock on     *)
(* .locks/session.lock, shared or exclusive) and the build leases (one     *)
(* flock'ed file per index identifier under .locks/build-leases).          *)
(*                                                                         *)
(* A flock belongs to an inode, a lease is named by a path.  A sweep       *)
(* unlinks the paths of stale leases, so a build that opened a path just   *)
(* before the unlink could lock an inode nobody else will ever see.  The   *)
(* module therefore keeps paths, inodes and the descriptors of every build *)
(* apart and takes open, try_lock and unlink as separate steps.            *)
(*                                                                         *)
(* Builders are build tasks of any process (create or refresh of one       *)
(* index); Sweepers are remove_orphans calls.  Both release every flock    *)
(* they hold when they return, fail or crash: the kernel closes their      *)
(* descriptors, the lease file and what it says stay behind.               *)
(***************************************************************************)
EXTENDS Naturals, FiniteSets

CONSTANTS Names,      \* index identifiers; identifier_lease_key is injective
          Builders,
          Sweepers,
          Inodes,     \* bound on lease files that exist or are open at once
          Roots,      \* snapshot-root URIs, as validate_lease_root accepts them
          None

ASSUME DisjointActors ==
    /\ Builders \cap Sweepers = {}
    /\ None \notin Builders \cup Sweepers \cup Inodes \cup Names

VARIABLES readers,   \* builders holding a shared SessionGuard
          writer,    \* holder of the exclusive SessionGuard, or None
          path,      \* path[n]: inode of the lease file of n, or None
          flock,     \* flock[i]: builder holding the exclusive flock of inode i
          content,   \* content[i]: the roots written in inode i
          pc,        \* where each build is
          name,      \* identifier each build works on
          fd,        \* lease inode each build has open, or None
          sweep,     \* where each sweep is
          todo,      \* lease paths the sweep's read_dir returned, not yet visited
          victim,    \* lease found unlocked and about to be unlinked, or None
          found      \* roots collected from locked leases

guard == <<readers, writer>>
files == <<path, flock, content>>
build == <<pc, name, fd>>
scan  == <<sweep, todo, victim, found>>
vars  == <<readers, writer, path, flock, content, pc, name, fd,
           sweep, todo, victim, found>>

Init ==
    /\ readers = {} /\ writer = None
    /\ path = [n \in Names |-> None]
    /\ flock = [i \in Inodes |-> None]
    /\ content = [i \in Inodes |-> {}]
    /\ pc = [b \in Builders |-> "idle"]
    /\ name = [b \in Builders |-> None]
    /\ fd = [b \in Builders |-> None]
    /\ sweep = [s \in Sweepers |-> "idle"]
    /\ todo = [s \in Sweepers |-> {}]
    /\ victim = [s \in Sweepers |-> None]
    /\ found = [s \in Sweepers |-> {}]

-----------------------------------------------------------------------------
\* The session lock.  flock blocks until it can be granted: the guard of the
\* action is the grant condition.

\* Mutant: a shared guard is granted beside an exclusive one.
ShareWithWriter(b) ==
    /\ readers' = readers \cup {b}
    /\ UNCHANGED writer

AcquireShared(b) ==
    /\ writer = None
    /\ readers' = readers \cup {b}
    /\ UNCHANGED writer

AcquireExclusive(p) ==
    /\ writer = None
    /\ readers = {}
    /\ writer' = p
    /\ UNCHANGED readers

-----------------------------------------------------------------------------
\* Builds.

FreeInode(i) ==
    /\ \A n \in Names : path[n] # i
    /\ \A b \in Builders : fd[b] # i

\* reserve_build: the shared guard comes first.
BeginReserve(b, n) ==
    /\ pc[b] = "idle"
    /\ AcquireShared(b)
    /\ pc' = [pc EXCEPT ![b] = "guarded"]
    /\ name' = [name EXCEPT ![b] = n]
    /\ UNCHANGED <<fd, files, scan>>

\* open_lock_file: opens the lease path, creating an empty file if it is missing.
OpenLease(b) ==
    /\ pc[b] = "guarded"
    /\ LET n == name[b] IN
       \/ /\ path[n] # None
          /\ fd' = [fd EXCEPT ![b] = path[n]]
          /\ UNCHANGED <<path, content>>
       \/ /\ path[n] = None
          /\ \E i \in Inodes :
                /\ FreeInode(i)
                /\ path' = [path EXCEPT ![n] = i]
                /\ content' = [content EXCEPT ![i] = {}]
                /\ fd' = [fd EXCEPT ![b] = i]
    /\ pc' = [pc EXCEPT ![b] = "opened"]
    /\ UNCHANGED <<name, flock, guard, scan>>

\* Mutant: the lease is not locked exclusively.
LockLeaseShared(b) ==
    /\ pc[b] = "opened"
    /\ flock' = [flock EXCEPT ![fd[b]] = b]
    /\ content' = [content EXCEPT ![fd[b]] = {}]
    /\ pc' = [pc EXCEPT ![b] = "reserved"]
    /\ UNCHANGED <<name, fd, path, guard, scan>>

\* try_lock succeeds: the file is truncated, the setup guard stays held.
LockLease(b) ==
    /\ pc[b] = "opened"
    /\ flock[fd[b]] = None
    /\ flock' = [flock EXCEPT ![fd[b]] = b]
    /\ content' = [content EXCEPT ![fd[b]] = {}]
    /\ pc' = [pc EXCEPT ![b] = "reserved"]
    /\ UNCHANGED <<name, fd, path, guard, scan>>

\* try_lock reports WouldBlock: BuildAlreadyRunning, both files are closed.
RejectLease(b) ==
    /\ pc[b] = "opened"
    /\ flock[fd[b]] # None
    /\ pc' = [pc EXCEPT ![b] = "idle"]
    /\ fd' = [fd EXCEPT ![b] = None]
    /\ name' = [name EXCEPT ![b] = None]
    /\ readers' = readers \ {b}
    /\ UNCHANGED <<writer, files, scan>>

\* Mutant: the root is written without validate_lease_root.
SetUnvalidatedRoot(b, r) ==
    /\ pc[b] = "reserved"
    /\ content' = [content EXCEPT ![fd[b]] = {None}]
    /\ readers' = readers \ {b}
    /\ pc' = [pc EXCEPT ![b] = "pinned"]
    /\ UNCHANGED <<name, fd, path, flock, writer, scan>>

\* Mutant: the setup guard is kept while the build runs.
KeepSetupGuard(b, r) ==
    /\ pc[b] = "reserved"
    /\ content' = [content EXCEPT ![fd[b]] = {r}]
    /\ pc' = [pc EXCEPT ![b] = "pinned"]
    /\ UNCHANGED <<name, fd, path, flock, guard, scan>>

\* BuildLease::set_snapshot_root writes the root, then drops the setup guard.
SetSnapshotRoot(b, r) ==
    /\ pc[b] = "reserved"
    /\ content' = [content EXCEPT ![fd[b]] = {r}]
    /\ readers' = readers \ {b}
    /\ pc' = [pc EXCEPT ![b] = "pinned"]
    /\ UNCHANGED <<name, fd, path, flock, writer, scan>>

\* Mutant: a root is added without a shared guard.
AddRootUnguarded(b, r) ==
    /\ pc[b] = "pinned"
    /\ content' = [content EXCEPT ![fd[b]] = @ \cup {r}]
    /\ UNCHANGED <<path, flock, build, guard, scan>>

\* BuildLease::add_snapshot_root holds a shared guard while it rewrites the file.
AddSnapshotRoot(b, r) ==
    /\ pc[b] = "pinned"
    /\ writer = None
    /\ content' = [content EXCEPT ![fd[b]] = @ \cup {r}]
    /\ UNCHANGED <<path, flock, build, guard, scan>>

\* The build takes the exclusive guard to publish.
BeginPublish(b) ==
    /\ pc[b] = "pinned"
    /\ AcquireExclusive(b)
    /\ pc' = [pc EXCEPT ![b] = "publishing"]
    /\ UNCHANGED <<name, fd, files, scan>>

\* Locals drop in reverse order: the exclusive guard first, the lease after it.
EndPublish(b) ==
    /\ pc[b] = "publishing"
    /\ writer' = None
    /\ pc' = [pc EXCEPT ![b] = "published"]
    /\ UNCHANGED <<readers, name, fd, files, scan>>

\* The build returns, fails or its process dies: every descriptor is closed.
ExitBuild(b) ==
    /\ pc[b] # "idle"
    /\ pc' = [pc EXCEPT ![b] = "idle"]
    /\ name' = [name EXCEPT ![b] = None]
    /\ fd' = [fd EXCEPT ![b] = None]
    /\ flock' = [i \in Inodes |-> IF flock[i] = b THEN None ELSE flock[i]]
    /\ readers' = readers \ {b}
    /\ writer' = IF writer = b THEN None ELSE writer
    /\ UNCHANGED <<path, content, scan>>

-----------------------------------------------------------------------------
\* Sweeps: LocalSession::remove_orphans.

\* coordination.write(), then read_dir of the lease directory.
BeginSweep(s) ==
    /\ sweep[s] = "idle"
    /\ AcquireExclusive(s)
    /\ sweep' = [sweep EXCEPT ![s] = "scan"]
    /\ todo' = [todo EXCEPT ![s] = {n \in Names : path[n] # None}]
    /\ found' = [found EXCEPT ![s] = {}]
    /\ UNCHANGED <<victim, files, build>>

\* One iteration of active_lease_roots: a lease somebody locks gives its roots,
\* an unlocked one is stale (its lock is dropped again before remove_file).
ScanLease(s, n) ==
    /\ sweep[s] = "scan"
    /\ victim[s] = None
    /\ n \in todo[s]
    /\ todo' = [todo EXCEPT ![s] = @ \ {n}]
    /\ LET i == path[n] IN
       \/ /\ i # None /\ flock[i] = None
          /\ victim' = [victim EXCEPT ![s] = n]
          /\ UNCHANGED found
       \/ /\ i # None /\ flock[i] # None
          /\ found' = [found EXCEPT ![s] = @ \cup content[i]]
          /\ UNCHANGED victim
    /\ UNCHANGED <<sweep, files, build, guard>>

\* remove_file on the stale lease path.
RemoveStaleLease(s) ==
    /\ sweep[s] = "scan"
    /\ victim[s] # None
    /\ path' = [path EXCEPT ![victim[s]] = None]
    /\ victim' = [victim EXCEPT ![s] = None]
    /\ UNCHANGED <<sweep, todo, found, flock, content, build, guard>>

\* active_build_roots returns; the sweep may delete what it does not protect.
EndScan(s) ==
    /\ sweep[s] = "scan"
    /\ victim[s] = None
    /\ todo[s] = {}
    /\ sweep' = [sweep EXCEPT ![s] = "delete"]
    /\ UNCHANGED <<todo, victim, found, files, build, guard>>

\* The sweep returns, fails or its process dies.
ExitSweep(s) ==
    /\ sweep[s] # "idle"
    /\ sweep' = [sweep EXCEPT ![s] = "idle"]
    /\ todo' = [todo EXCEPT ![s] = {}]
    /\ victim' = [victim EXCEPT ![s] = None]
    /\ found' = [found EXCEPT ![s] = {}]
    /\ writer' = None
    /\ UNCHANGED <<readers, files, build>>

-----------------------------------------------------------------------------
BuildStep(b) ==
    \/ \E n \in Names : BeginReserve(b, n)
    \/ OpenLease(b) \/ LockLease(b) \/ RejectLease(b)
    \/ \E r \in Roots : SetSnapshotRoot(b, r) \/ AddSnapshotRoot(b, r)
    \/ BeginPublish(b) \/ EndPublish(b) \/ ExitBuild(b)

SweepStep(s) ==
    \/ BeginSweep(s)
    \/ \E n \in Names : ScanLease(s, n)
    \/ RemoveStaleLease(s) \/ EndScan(s) \/ ExitSweep(s)

Next ==
    \/ \E b \in Builders : BuildStep(b)
    \/ \E s \in Sweepers : SweepStep(s)

Spec == Init /\ [][Next]_vars

-----------------------------------------------------------------------------
\* Properties.

HoldsLease(b) == pc[b] \in {"reserved", "pinned", "publishing", "published"}

\* Types of the coordination state.
TypeOK ==
    /\ readers \subseteq Builders
    /\ writer \in Builders \cup Sweepers \cup {None}
    /\ path \in [Names -> Inodes \cup {None}]
    /\ flock \in [Inodes -> Builders \cup {None}]
    /\ content \in [Inodes -> SUBSET Roots]
    /\ pc \in [Builders -> {"idle", "guarded", "opened", "reserved", "pinned",
                            "publishing", "published"}]
    /\ name \in [Builders -> Names \cup {None}]
    /\ fd \in [Builders -> Inodes \cup {None}]
    /\ sweep \in [Sweepers -> {"idle", "scan", "delete"}]
    /\ todo \in [Sweepers -> SUBSET Names]
    /\ victim \in [Sweepers -> Names \cup {None}]
    /\ found \in [Sweepers -> SUBSET Roots]

\* Two builds never hold the lease of one identifier at the same time, whatever
\* sweeps unlink in between (reserve_build: BuildAlreadyRunning otherwise).
LeaseExclusion ==
    \A b, c \in Builders :
        HoldsLease(b) /\ HoldsLease(c) /\ name[b] = name[c] => b = c

\* A sweep that has finished its scan protects every root of every build that
\* holds a lease, for as long as it runs: active_build_roots misses no build.
SweepProtectsBuilds ==
    \A s \in Sweepers, b \in Builders :
        sweep[s] = "delete" /\ HoldsLease(b) =>
            /\ pc[b] # "reserved"
            /\ content[fd[b]] \subseteq found[s]

\* A build that waits for the exclusive guard never holds a shared one itself:
\* flock would wait for its own descriptor and never be granted.
NoSelfDeadlock ==
    \A b \in Builders : pc[b] \in {"pinned", "published"} => b \notin readers

-----------------------------------------------------------------------------
\* Refinement: the lease table the rest of the system relies on.

Sweeping == \E s \in Sweepers : sweep[s] = "delete"

Leases == INSTANCE LeaseTable WITH
    holders   <- [n \in Names |-> {b \in Builders : HoldsLease(b) /\ name[b] = n}],
    pins      <- [b \in Builders |-> IF HoldsLease(b) THEN content[fd[b]] ELSE {}],
    sweeping  <- Sweeping,
    protected <- IF Sweeping THEN UNION {found[s] : s \in Sweepers} ELSE {}

\* Every behaviour of locks and lease files is a behaviour of the lease table.
ImplementsLeaseTable == Leases!Spec
================================================================================
