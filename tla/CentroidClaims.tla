----------------------------- MODULE CentroidClaims -----------------------------
(***************************************************************************)
(* Sharing trained IVF centroids between index builds: the row of          *)
(* ivf_centroid_artifacts for one (source state, fingerprint)              *)
(* (rust/parqdb-catalog/src/sqlite.rs) and the builds that claim, renew,   *)
(* publish, abandon and reuse it                                           *)
(* (rust/parqdb-local/src/session/build.rs, resolve_ivf_centroids).        *)
(*                                                                         *)
(* Each build runs once and, if it trains, writes one artifact, named by   *)
(* the build.  Every catalog call is one SQLite transaction, but it reads  *)
(* the clock before the transaction begins: lag counts the ticks between.  *)
(* Time is relative: left is lease_expires_ms minus the current time, in   *)
(* ticks of the renewal interval, so a finite state space has no last      *)
(* moment.  Clocks of the processes agree and do not step backwards.       *)
(***************************************************************************)
EXTENDS Integers

CONSTANTS Builds,
          LeaseTicks,   \* IVF_CENTROIDS_LEASE_MS / IVF_CENTROIDS_RENEW_INTERVAL
          MaxLag,       \* bound on lag: SQLite gives up after busy_timeout
          None

ASSUME ClaimConstants ==
    /\ LeaseTicks \in Nat /\ MaxLag \in Nat
    /\ MaxLag < LeaseTicks
    /\ None \notin Builds

VARIABLES row,    \* the catalog row
          pc,     \* where each build is
          lag,    \* ticks since the build's last now_ms()
          hb,     \* its heartbeat thread
          hblag,  \* ticks since the heartbeat's last now_ms()
          want,   \* artifact the build reads or has resolved, or None
          data,   \* artifacts whose centroid and root tables are in the warehouse
          meta    \* artifacts whose metadata document is in the warehouse

vars == <<row, pc, lag, hb, hblag, want, data, meta>>

Absent == [state |-> "absent", owner |-> None, left |-> 0, artifact |-> None]

Failed == [state |-> "failed", owner |-> None, left |-> 0, artifact |-> None]

Building(b, left) ==
    [state |-> "building", owner |-> b, left |-> left, artifact |-> None]

Ready(a) == [state |-> "ready", owner |-> None, left |-> 0, artifact |-> a]

Terminal == {"failed", "crashed", "ended"}

Init ==
    /\ row = Absent
    /\ pc = [b \in Builds |-> "resolve"]
    /\ lag = [b \in Builds |-> 0]
    /\ hb = [b \in Builds |-> "off"]
    /\ hblag = [b \in Builds |-> 0]
    /\ want = [b \in Builds |-> None]
    /\ data = {} /\ meta = {}

\* A step of the build also ends the life of the time it read.
Goto(b, from, to) ==
    /\ pc[b] = from
    /\ pc' = [pc EXCEPT ![b] = to]
    /\ lag' = [lag EXCEPT ![b] = 0]

-----------------------------------------------------------------------------
\* resolve_ivf_centroids: the claim loop.

\* Mutant: the artifact is published before its metadata is written.
ReadClockTooSoon(b) ==
    /\ \/ Goto(b, "resolve", "claiming")
       \/ Goto(b, "stored", "publishing")
    /\ UNCHANGED <<row, hb, hblag, want, data, meta>>

\* claim_ivf_centroids reads the clock, then begins its transaction.
ReadClock(b) ==
    /\ \/ Goto(b, "resolve", "claiming")
       \/ Goto(b, "written", "publishing")
    /\ UNCHANGED <<row, hb, hblag, want, data, meta>>

\* Mutant: an expired claim blocks the others like a running one.
LeaseNeverEnds(l) == row.state = "building"

\* The row's lease runs at the time the build read: lease_expires_ms > now.
LeaseRuns(l) == row.left + l > 0

ClaimReady(b) ==
    /\ row.state = "ready"
    /\ Goto(b, "claiming", "load")
    /\ UNCHANGED <<row, hb, hblag, want, data, meta>>

\* Somebody else is building: sleep IVF_CENTROIDS_WAIT_INTERVAL and try again.
ClaimBusy(b) ==
    /\ row.state = "building" /\ row.owner # b /\ LeaseRuns(lag[b])
    /\ Goto(b, "claiming", "resolve")
    /\ UNCHANGED <<row, hb, hblag, want, data, meta>>

\* Mutant: the lease of another owner is not looked at.
ClaimIgnoringLease(b) ==
    /\ row.state # "ready"
    /\ row' = Building(b, LeaseTicks - lag[b])
    /\ Goto(b, "claiming", "claimed")
    /\ UNCHANGED <<hb, hblag, want, data, meta>>

\* No row, a failed row or an expired claim: the build takes it over.
ClaimGranted(b) ==
    /\ row.state # "ready"
    /\ ~(row.state = "building" /\ row.owner # b /\ LeaseRuns(lag[b]))
    /\ row' = Building(b, LeaseTicks - lag[b])
    /\ Goto(b, "claiming", "claimed")
    /\ UNCHANGED <<hb, hblag, want, data, meta>>

\* The claim's transaction fails, the process could not get the database.
ClaimFails(b) ==
    /\ Goto(b, "claiming", "failed")
    /\ UNCHANGED <<row, hb, hblag, want, data, meta>>

-----------------------------------------------------------------------------
\* build_ivf_centroids.

StartHeartbeat(b) ==
    /\ Goto(b, "claimed", "train")
    /\ hb' = [hb EXCEPT ![b] = "on"]
    /\ UNCHANGED <<row, hblag, want, data, meta>>

\* Mutant: the owner of the claim is not compared.
AbandonAnyRow(b) ==
    \/ row.state = "building" /\ row' = Failed
    \/ UNCHANGED row

\* abandon_ivf_centroids: only the owner of a building row marks it failed.  The
\* callers ignore its errors, so it may also have done nothing.
AbandonRow(b) ==
    \/ row.state = "building" /\ row.owner = b /\ row' = Failed
    \/ UNCHANGED row

\* The heartbeat thread does not start.
HeartbeatStartFails(b) ==
    /\ Goto(b, "claimed", "failed")
    /\ AbandonRow(b)
    /\ UNCHANGED <<hb, hblag, want, data, meta>>

\* Training ends and the tables are written under the pinned root.
WriteData(b) ==
    /\ Goto(b, "train", "stored")
    /\ data' = data \cup {b}
    /\ UNCHANGED <<row, hb, hblag, want, meta>>

WriteMeta(b) ==
    /\ Goto(b, "stored", "written")
    /\ meta' = meta \cup {b}
    /\ UNCHANGED <<row, hb, hblag, want, data>>

\* Pinning, training, a write or the publishing transaction fails.
TrainFails(b) ==
    /\ \E from \in {"train", "stored", "publishing"} : Goto(b, from, "lost")
    /\ UNCHANGED <<row, hb, hblag, want, data, meta>>

\* Mutant: the publishing UPDATE matches the row whatever its state and owner.
PublishableByAnyone(b) == row.state # "absent"

Publishable(b) == row.state = "building" /\ row.owner = b /\ LeaseRuns(lag[b])

PublishOk(b) ==
    /\ Publishable(b)
    /\ Goto(b, "publishing", "published")
    /\ row' = Ready(b)
    /\ want' = [want EXCEPT ![b] = b]
    /\ UNCHANGED <<hb, hblag, data, meta>>

\* IvfCentroidsClaimLost.
PublishLost(b) ==
    /\ ~Publishable(b)
    /\ Goto(b, "publishing", "lost")
    /\ UNCHANGED <<row, hb, hblag, want, data, meta>>

\* ClaimHeartbeat::stop sends the stop message ...
SendStop(b) ==
    /\ Goto(b, "published", "join_ok") \/ Goto(b, "lost", "join_err")
    /\ UNCHANGED <<row, hb, hblag, want, data, meta>>

\* Mutant: a lost renewal fails the build even after its publication.
JoinReportsLoss(b) ==
    /\ hb[b] # "renewing"
    /\ \/ Goto(b, "join_err", "abandon")
       \/ hb[b] \in {"on", "off"} /\ Goto(b, "join_ok", "resolved")
       \/ hb[b] \in {"lost", "error"} /\ Goto(b, "join_ok", "failed")
    /\ hb' = [hb EXCEPT ![b] = IF @ = "error" THEN @ ELSE "off"]
    /\ UNCHANGED <<row, hblag, want, data, meta>>

\* ... and joins the thread, which finishes a renewal it has begun.  After a
\* publication its ClaimLost is ignored, any other error is returned.
JoinHeartbeat(b) ==
    /\ hb[b] # "renewing"
    /\ \/ Goto(b, "join_err", "abandon")
       \/ hb[b] # "error" /\ Goto(b, "join_ok", "resolved")
       \/ hb[b] = "error" /\ Goto(b, "join_ok", "failed")
    /\ hb' = [hb EXCEPT ![b] = IF @ = "error" THEN @ ELSE "off"]
    /\ UNCHANGED <<row, hblag, want, data, meta>>

\* A failed builder gives the claim up, then tries what somebody else published.
Abandon(b) ==
    /\ Goto(b, "abandon", "load")
    /\ AbandonRow(b)
    /\ UNCHANGED <<hb, hblag, want, data, meta>>

-----------------------------------------------------------------------------
\* load_ivf_centroids: the row again, then the metadata, then the tables.

LoadEntry(b) ==
    /\ \/ row.state = "ready" /\ Goto(b, "load", "read_meta")
       \/ row.state # "ready" /\ Goto(b, "load", "failed")
    /\ want' = [want EXCEPT ![b] = row.artifact]
    /\ UNCHANGED <<row, hb, hblag, data, meta>>

ReadMeta(b) ==
    /\ \/ want[b] \in meta /\ Goto(b, "read_meta", "read_data")
       \/ want[b] \notin meta /\ Goto(b, "read_meta", "failed")
    /\ UNCHANGED <<row, hb, hblag, want, data, meta>>

ReadData(b) ==
    /\ \/ want[b] \in data /\ Goto(b, "read_data", "resolved")
       \/ want[b] \notin data /\ Goto(b, "read_data", "failed")
    /\ UNCHANGED <<row, hb, hblag, want, data, meta>>

\* The index build that resolved its centroids returns and drops its lease.
EndBuild(b) ==
    /\ Goto(b, "resolved", "ended")
    /\ UNCHANGED <<row, hb, hblag, want, data, meta>>

\* The process dies; the row and the objects stay.
Crash(b) ==
    /\ pc[b] \notin Terminal
    /\ pc' = [pc EXCEPT ![b] = "crashed"]
    /\ hb' = [hb EXCEPT ![b] = "off"]
    /\ lag' = [lag EXCEPT ![b] = 0]
    /\ hblag' = [hblag EXCEPT ![b] = 0]
    /\ want' = [want EXCEPT ![b] = None]
    /\ UNCHANGED <<row, data, meta>>

-----------------------------------------------------------------------------
\* The heartbeat thread.

\* recv_timeout runs out before a stop message arrives.
HeartbeatWakes(b) ==
    /\ hb[b] = "on"
    /\ pc[b] \notin {"join_ok", "join_err"}
    /\ hb' = [hb EXCEPT ![b] = "renewing"]
    /\ hblag' = [hblag EXCEPT ![b] = 0]
    /\ UNCHANGED <<row, pc, lag, want, data, meta>>

\* Mutant: a renewal adds the lease duration to the old expiry, not to the clock.
RenewAdds(b) ==
    /\ hb[b] = "renewing"
    /\ row.state = "building" /\ row.owner = b /\ LeaseRuns(hblag[b])
    /\ row' = Building(b, row.left + LeaseTicks)
    /\ hb' = [hb EXCEPT ![b] = "on"]
    /\ hblag' = [hblag EXCEPT ![b] = 0]
    /\ UNCHANGED <<pc, lag, want, data, meta>>

\* renew_ivf_centroids_claim; the thread ends when it fails.
Renew(b) ==
    /\ hb[b] = "renewing"
    /\ \/ /\ row.state = "building" /\ row.owner = b /\ LeaseRuns(hblag[b])
          /\ row' = Building(b, LeaseTicks - hblag[b])
          /\ hb' = [hb EXCEPT ![b] = "on"]
       \/ /\ ~(row.state = "building" /\ row.owner = b /\ LeaseRuns(hblag[b]))
          /\ hb' = [hb EXCEPT ![b] = "lost"]
          /\ UNCHANGED row
       \/ /\ hb' = [hb EXCEPT ![b] = "error"]
          /\ UNCHANGED row
    /\ hblag' = [hblag EXCEPT ![b] = 0]
    /\ UNCHANGED <<pc, lag, want, data, meta>>

-----------------------------------------------------------------------------
\* Maintenance: remove_orphans deletes what no running build pins, tables
\* ("indexes/...") before metadata ("metadata/..."), then purges rows whose
\* metadata is gone.  Reachability and age are IndexLifecycle's subject.

\* Mutant: the sweep ignores the roots pinned by build leases.
DeletePinnedData(a) ==
    /\ a \in data
    /\ data' = data \ {a}
    /\ UNCHANGED <<row, pc, lag, hb, hblag, want, meta>>

DeleteData(a) ==
    /\ pc[a] \in Terminal
    /\ a \in data
    /\ data' = data \ {a}
    /\ UNCHANGED <<row, pc, lag, hb, hblag, want, meta>>

DeleteMeta(a) ==
    /\ pc[a] \in Terminal
    /\ a \in meta /\ a \notin data
    /\ meta' = meta \ {a}
    /\ UNCHANGED <<row, pc, lag, hb, hblag, want, data>>

PurgeEntry ==
    /\ row.state = "ready"
    /\ row.artifact \notin meta
    /\ row' = Absent
    /\ UNCHANGED <<pc, lag, hb, hblag, want, data, meta>>

-----------------------------------------------------------------------------
Pending(b) == pc[b] \in {"claiming", "publishing"}

\* One renewal interval passes.
Tick ==
    /\ \A b \in Builds : Pending(b) => lag[b] < MaxLag
    /\ \A b \in Builds : hb[b] = "renewing" => hblag[b] < MaxLag
    /\ lag' = [b \in Builds |-> IF Pending(b) THEN lag[b] + 1 ELSE lag[b]]
    /\ hblag' = [b \in Builds |-> IF hb[b] = "renewing" THEN hblag[b] + 1 ELSE hblag[b]]
    /\ row' = IF row.state = "building" /\ row.left > -MaxLag
              THEN [row EXCEPT !.left = @ - 1] ELSE row
    /\ UNCHANGED <<pc, hb, want, data, meta>>

Claim(b) == ClaimReady(b) \/ ClaimBusy(b) \/ ClaimGranted(b)

Work(b) ==
    \/ ReadClock(b) \/ Claim(b) \/ StartHeartbeat(b)
    \/ WriteData(b) \/ WriteMeta(b) \/ PublishOk(b) \/ PublishLost(b)
    \/ SendStop(b) \/ JoinHeartbeat(b) \/ Abandon(b)
    \/ LoadEntry(b) \/ ReadMeta(b) \/ ReadData(b) \/ EndBuild(b)

Fault(b) == ClaimFails(b) \/ HeartbeatStartFails(b) \/ TrainFails(b) \/ Crash(b)

Maintenance == (\E a \in Builds : DeleteData(a) \/ DeleteMeta(a)) \/ PurgeEntry

Next ==
    \/ \E b \in Builds : Work(b) \/ Fault(b) \/ HeartbeatWakes(b) \/ Renew(b)
    \/ Maintenance
    \/ Tick

\* The runtime polls a runnable build, the heartbeat thread finishes a renewal
\* it began, and time passes.  Nothing makes a heartbeat wake in time, a build
\* fail, a process crash or maintenance run.
Fairness ==
    /\ \A b \in Builds : WF_vars(Work(b)) /\ WF_vars(Renew(b))
    /\ WF_vars(Tick)

Spec == Init /\ [][Next]_vars

FairSpec == Spec /\ Fairness

-----------------------------------------------------------------------------
\* Properties.

\* Types of the claim protocol's state.
TypeOK ==
    /\ row \in [state : {"absent", "building", "ready", "failed"},
                owner : Builds \cup {None},
                left : (-MaxLag)..LeaseTicks,
                artifact : Builds \cup {None}]
    /\ pc \in [Builds -> {"resolve", "claiming", "claimed", "train", "stored",
                          "written", "publishing", "published", "lost", "join_ok",
                          "join_err", "abandon", "load", "read_meta", "read_data", "resolved"} \cup Terminal]
    /\ lag \in [Builds -> 0..MaxLag]
    /\ hb \in [Builds -> {"off", "on", "renewing", "lost", "error"}]
    /\ hblag \in [Builds -> 0..MaxLag]
    /\ want \in [Builds -> Builds \cup {None}]
    /\ data \subseteq Builds
    /\ meta \subseteq Builds

\* Builds that have resolved centroids which still exist share the registered
\* artifact: a claim that expired, was taken over, or was abandoned late never
\* leaves two builds with different live centroids for one fingerprint.
ResolvedIsRegistered ==
    \A b \in Builds :
        pc[b] = "resolved" /\ want[b] \in data => row = Ready(want[b])

\* While the build that trained it still runs, a registered artifact has all
\* its objects: neither a crash between the writes nor a sweep exposes less.
RegisteredIsComplete ==
    row.state = "ready" /\ pc[row.artifact] \notin Terminal =>
        row.artifact \in data \cap meta

\* "Publication clears the owner. A simultaneous heartbeat may observe that
\* ready state after this owner has committed it" (build.rs): a lost renewal
\* never fails the build whose artifact is registered.
PublicationStands ==
    \A b \in Builds :
        row = Ready(b) /\ pc[b] \in {"lost", "join_err", "abandon", "failed"}
            => hb[b] = "error"

\* A claim whose lease still runs is not taken by another build, not even by one
\* that read the clock before its transaction.
NoEarlyTakeover ==
    [][row.state = "building" /\ row.left > 0 /\ row'.state = "building"
         => row'.owner = row.owner]_vars

\* A claim is marked failed only by the build that owns it: a late abandon after
\* a takeover leaves the new owner's claim alone.
AbandonsOwnClaim ==
    [][row.state = "building" /\ row'.state = "failed"
         => pc'[row.owner] # pc[row.owner]]_vars

\* Every build resolves, fails or crashes: nobody waits for ever on a claim whose
\* owner died, however often renewals revive it before.
EveryBuildEnds == \A b \in Builds : <>(pc[b] \in Terminal)

Registry == INSTANCE CentroidRegistry WITH
    Artifacts <- Builds,
    entry     <- IF row.state = "ready" THEN row.artifact ELSE None,
    complete  <- data \cap meta

\* The row, its leases and its heartbeats implement the one-artifact registry.
ImplementsRegistry == Registry!Spec
=================================================================================
