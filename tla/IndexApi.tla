------------------------------ MODULE IndexApi ------------------------------
(***************************************************************************)
(* The index operations of the portable API: submission, waiting, status,  *)
(* registration, listing and dropping of one index of one table, by        *)
(* callers in the process (SessionService waits on the build) and by       *)
(* remote ones (HttpTransport polls the status, with a deadline of its     *)
(* own).  The build coordinator is what the calls see of it: one record,   *)
(* kept when the build failed and removed after it published (see          *)
(* BuildCoordinator).  Other processes publish and drop the index too.     *)
(***************************************************************************)
EXTENDS Integers, FiniteSetsExt

CONSTANTS Callers,     \* users of the index
          Remote,      \* the ones that use the HTTP client
          MaxCalls,    \* calls of all callers together (model bound)
          MaxEvents    \* publications of other processes and restarts of the
                       \* server's, together (model bound)

IndexApiAssumption ==
    /\ IsFiniteSet(Callers) /\ Remote \subseteq Callers
    /\ MaxCalls \in Nat /\ MaxEvents \in Nat

VARIABLES snap,      \* current snapshot of the index, 0: not published
          last,      \* snapshots published so far
          rec,       \* the coordinator's record of the latest build
          ended,     \* builds whose record was finished |-> whether as complete
          pubs,      \* builds that published their snapshot
          builds,    \* builds accepted so far
          call,      \* caller |-> the call it runs
          out,       \* how the call that just ended did
          begun, foreign, restarts

store == <<snap, last, rec, ended, pubs, builds>>
bounds == <<begun, foreign, restarts>>
vars == <<store, call, out, bounds>>

Timeouts == {"none", "positive", "zero"}
Ops == {"create", "refresh", "wait", "status", "list", "drop", "register"}
Submits == {"create", "refresh"}
NoRecord == [state |-> "none", id |-> 0, op |-> "none", base |-> 0]
NoOutcome == [by |-> {}, op |-> "none", res |-> "none", applied |-> FALSE, ready |-> FALSE,
              id |-> 0, late |-> FALSE]
\* id: the build a wait follows; seen: the copy of the record a status took; mark: the
\* builds accepted when a wait found no record.
Idle == [op |-> "none", at |-> "idle", timeout |-> "none", id |-> 0, seen |-> NoRecord,
         mark |-> 0, applied |-> FALSE, ready |-> FALSE]
\* A build that published still counts as building until its record is finished.
Active == {"pending", "building", "published"}

TypeOK ==
    /\ last \in 0 .. MaxCalls + MaxEvents + 1 /\ snap \in 0 .. last
    /\ builds \in 0 .. MaxCalls /\ DOMAIN ended \subseteq 1 .. builds /\ pubs \subseteq 1 .. builds
    /\ rec.state \in Active \union {"none", "complete", "failed"} /\ rec.id \in 0 .. builds
    /\ rec.state \in Active => rec.id \notin DOMAIN ended
    /\ \A c \in Callers :
          /\ call[c].at \in {"idle", "request", "source", "submit", "wait", "attached",
                             "look", "list", "poll", "apply"}
          /\ call[c].op \in Ops \union {"none"} /\ call[c].timeout \in Timeouts
          /\ call[c].at = "attached" => c \notin Remote
          /\ call[c].at = "poll" => c \in Remote
    /\ begun \in 0 .. MaxCalls /\ foreign \in 0 .. MaxEvents /\ restarts \in 0 .. MaxEvents

Init ==
    /\ snap \in {0, 1} /\ last = snap /\ rec = NoRecord /\ ended = <<>>
    /\ pubs = {} /\ builds = 0
    /\ call = [c \in Callers |-> Idle]
    /\ out = NoOutcome
    /\ begun = 0 /\ foreign = 0 /\ restarts = 0

\* A call notes that the index was published while it ran.
Noted(f) == [c \in Callers |-> IF f[c].at # "idle" /\ snap' # 0
                               THEN [f[c] EXCEPT !.ready = TRUE] ELSE f[c]]
Silent == out' = NoOutcome
Goto(c, p) == call' = Noted([call EXCEPT ![c].at = p]) /\ Silent
Raises(c, res) ==
    /\ call' = Noted([call EXCEPT ![c] = Idle])
    /\ out' = [by |-> {c}, op |-> call[c].op, res |-> res, applied |-> call[c].applied,
               ready |-> call[c].ready \/ snap' # 0, id |-> call[c].id,
               late |-> builds > call[c].mark]
\* The service answers; a remote caller may lose the answer.
Ends(c, res) == Raises(c, res) \/ (c \in Remote /\ Raises(c, "unavailable"))

-----------------------------------------------------------------------------
(* AsyncSourceTable: the call reaches the service or the HTTP client.      *)

Begin(c, op, timeout) ==
    /\ call[c].at = "idle" /\ begun < MaxCalls /\ begun' = begun + 1
    /\ call' = [call EXCEPT ![c] = [Idle EXCEPT !.op = op, !.timeout = timeout,
                   !.at = IF c \in Remote THEN "request" ELSE "source", !.ready = snap # 0]]
    /\ Silent /\ UNCHANGED <<store, foreign, restarts>>
CreateIndex(c) == \E t \in Timeouts : Begin(c, "create", t)
RefreshIndex(c) == \E t \in Timeouts : Begin(c, "refresh", t)
WaitForIndex(c) == \E t \in Timeouts \ {"none"} : Begin(c, "wait", t)
IndexStatus(c) == Begin(c, "status", "none")
ListIndexes(c) == Begin(c, "list", "none")
DropIndex(c) == Begin(c, "drop", "none")
RegisterIndex(c) == Begin(c, "register", "none")

-----------------------------------------------------------------------------
(* HttpTransport.                                                          *)

\* wait_for_index of the client checks its timeout, then polls.
StartPolling(c) ==
    /\ UNCHANGED <<store, bounds>>
    /\ IF call[c].timeout = "zero" THEN Raises(c, "invalid") ELSE Goto(c, "poll")
\* create_index, refresh_index and the calls without a wait send their request.
Request(c) ==
    /\ call[c].at = "request"
    /\ \/ call[c].op = "wait" /\ StartPolling(c)
       \/ /\ call[c].op # "wait" /\ UNCHANGED <<store, bounds>>
          /\ Raises(c, "unavailable") \/ Goto(c, "source")

\* index_build_status, from the copy r of the record it took and the publication it then
\* lists: a failed build counts while its base is still published.
Status(r) ==
    IF r.state \in Active THEN "running"
    ELSE IF snap # 0 THEN IF r.state = "failed" /\ r.base = snap THEN "build_failed" ELSE "ready"
    ELSE IF r.state = "failed" THEN "build_failed" ELSE "not_found"
\* forget_failure: whatever failure is recorded by then is dropped.
Forgets(r) == IF r.state = "failed" /\ snap \notin {0, r.base} /\ rec.state = "failed"
              THEN NoRecord ELSE rec
\* The copy, by a request of the client's loop too.
Look(c) ==
    /\ call[c].at \in {"look", "poll"} /\ UNCHANGED <<store, bounds>> /\ Silent
    /\ call' = Noted([call EXCEPT ![c].at = "list", ![c].seen = rec])
\* One round of the client's loop ends: the status, then sleep.
Polled(c, status) ==
    CASE status = "running" -> Silent /\ call' = Noted([call EXCEPT ![c].at = "poll", ![c].seen = NoRecord])
      [] status = "ready"   -> Raises(c, "ok")
      [] OTHER              -> Raises(c, status)
\* The list of publications, and the answer.  wait_for_index_build keeps of it only
\* whether there was one.
List(c) ==
    LET status == Status(call[c].seen)
    IN  /\ call[c].at = "list" /\ rec' = Forgets(call[c].seen)
        /\ UNCHANGED <<snap, last, ended, pubs, builds, bounds>>
        /\ \/ call[c].op = "status" /\ Ends(c, status)
           \/ call[c].op # "status" /\ c \in Remote /\ (Polled(c, status) \/ Raises(c, "unavailable"))
           \/ /\ call[c].op # "status" /\ c \notin Remote
              /\ Raises(c, IF status = "not_found" THEN "not_found" ELSE "ok")
\* The status request is lost.
PollLost(c) ==
    /\ call[c].at = "poll" /\ UNCHANGED <<store, bounds>> /\ Raises(c, "unavailable")
\* Mutant: the client's loop has no deadline.
DeadlineEmbedded(c) ==
    /\ call[c].at = "attached" /\ UNCHANGED <<store, bounds>> /\ Raises(c, "timeout")
\* The deadline passes: asyncio.timeout, asyncio.wait_for or the check in the loop.  A
\* status that is being answered may still forget the failure.
Deadline(c) ==
    /\ call[c].at \in {"poll", "wait", "look", "list", "attached"}
    /\ call[c].op \in Submits \union {"wait"}
    /\ rec' \in IF call[c].at = "list" THEN {rec, Forgets(call[c].seen)} ELSE {rec}
    /\ UNCHANGED <<snap, last, ended, pubs, builds, bounds>> /\ Raises(c, "timeout")

-----------------------------------------------------------------------------
(* SessionService.                                                         *)

\* The timeout and the configuration are checked, then _source_reference looks the
\* table up.  The handlers pass no timeout.
SourceReference(c) ==
    /\ call[c].at = "source" /\ UNCHANGED <<store, bounds>>
    /\ \/ Ends(c, "invalid")
       \/ /\ c \in Remote \/ call[c].timeout # "zero"
          /\ Goto(c, CASE call[c].op \in Submits -> "submit" [] call[c].op = "wait" -> "wait"
                       [] call[c].op = "status" -> "look" [] OTHER -> "apply")

Accepts(op) == rec.state \notin Active /\ (op = "create" <=> snap = 0)
Refusal(op) == IF op = "create" /\ snap # 0 THEN "exists"
               ELSE IF op = "refresh" /\ snap = 0 THEN "not_found" ELSE "running"
\* submit_create_index or submit_refresh_index, and the wait that follows it: in
\* the service, or by the client once it has the answer.
Submit(c) ==
    LET op == call[c].op
    IN  /\ call[c].at = "submit" /\ UNCHANGED <<snap, last, ended, pubs, bounds>>
        /\ IF Accepts(op)
           THEN /\ builds' = builds + 1
                /\ rec' = [state |-> "pending", id |-> builds + 1, op |-> op, base |-> snap]
                /\ \/ /\ call[c].timeout = "none" /\ Raises(c, "accepted")
                   \/ /\ call[c].timeout # "none" /\ Silent
                      /\ call' = Noted([call EXCEPT ![c].applied = TRUE,
                                   ![c].at = IF c \in Remote THEN "request" ELSE "wait",
                                   ![c].op = IF c \in Remote THEN "wait" ELSE @])
                   \/ c \in Remote /\ Raises(c, "unavailable")
           ELSE Ends(c, Refusal(op)) /\ UNCHANGED <<rec, builds>>

\* wait_for_index_build follows the record there is, whatever its state, or asks for
\* the status.
Wait(c) ==
    /\ call[c].at = "wait" /\ UNCHANGED <<store, bounds>> /\ Silent
    /\ call' = Noted(IF rec.state # "none"
                     THEN [call EXCEPT ![c].at = "attached", ![c].id = rec.id]
                     ELSE [call EXCEPT ![c].at = "look", ![c].mark = builds])
Attached(c) ==
    /\ call[c].at = "attached" /\ call[c].id \in DOMAIN ended
    /\ UNCHANGED <<store, bounds>>
    /\ Raises(c, IF ended[call[c].id] THEN "ok" ELSE "build_failed")

\* The other operations, each one step of the native session.
ApplyList(c) == call[c].op = "list" /\ UNCHANGED <<snap, last>> /\ Ends(c, "ok")
ApplyDrop(c) ==
    /\ call[c].op = "drop" /\ snap' = 0 /\ UNCHANGED last
    /\ Ends(c, IF snap = 0 THEN "not_found" ELSE "ok")
ApplyRegister(c) ==
    /\ call[c].op = "register"
    /\ IF snap = 0 THEN snap' = last + 1 /\ last' = last + 1 /\ Ends(c, "ok")
       ELSE UNCHANGED <<snap, last>> /\ Ends(c, "exists")
Apply(c) ==
    /\ call[c].at = "apply" /\ UNCHANGED <<rec, ended, pubs, builds, bounds>>
    /\ ApplyList(c) \/ ApplyDrop(c) \/ ApplyRegister(c)

-----------------------------------------------------------------------------
(* The task of a build, other processes, and the end of this one.          *)

\* The task has the permit.
BuildStarts ==
    /\ rec.state = "pending" /\ rec' = [rec EXCEPT !.state = "building"]
    /\ UNCHANGED <<snap, last, ended, pubs, builds, call, bounds>> /\ Silent
\* publish_initial or publish_refresh, where the index is as it must be for it.
BuildPublishes ==
    /\ rec.state = "building" /\ (rec.op = "create" <=> snap = 0)
    /\ snap' = last + 1 /\ last' = last + 1 /\ pubs' = pubs \union {rec.id}
    /\ rec' = [rec EXCEPT !.state = "published"]
    /\ call' = Noted(call) /\ UNCHANGED <<ended, builds, bounds>> /\ Silent
Finishes(ok) ==
    /\ rec' = [rec EXCEPT !.state = IF ok THEN "complete" ELSE "failed"]
    /\ ended' = [i \in DOMAIN ended \union {rec.id} |-> IF i = rec.id THEN ok ELSE ended[i]]
    /\ UNCHANGED <<snap, last, pubs, builds, call, bounds>> /\ Silent
\* Mutant: the record is finished without waiting for the publication.
FinishesFirst(ok) == rec.state \in {"building", "published"} /\ Finishes(ok)
\* record.finish: the task published, or failed before it could.
BuildFinishes(ok) == rec.state = (IF ok THEN "published" ELSE "building") /\ Finishes(ok)
\* remove_if_same, unless a submission has replaced the record.
BuildRemoved ==
    /\ rec.state = "complete" /\ rec' = NoRecord
    /\ UNCHANGED <<snap, last, ended, pubs, builds, call, bounds>> /\ Silent

ForeignPublish ==
    /\ foreign + restarts < MaxEvents /\ foreign' = foreign + 1
    /\ snap' = last + 1 /\ last' = last + 1 /\ call' = Noted(call)
    /\ UNCHANGED <<rec, ended, pubs, builds, begun, restarts>> /\ Silent

\* The process of the service ends: builds are abandoned, callers in it are gone.
Restart ==
    /\ foreign + restarts < MaxEvents /\ restarts' = restarts + 1
    /\ rec' = NoRecord /\ UNCHANGED <<snap, last, ended, pubs, builds, begun, foreign>>
    /\ call' = [c \in Callers |-> IF call[c].at = "poll" \/ (c \in Remote /\ call[c].at = "request")
                                  THEN call[c] ELSE Idle]
    /\ Silent

Call(c) == \/ CreateIndex(c) \/ RefreshIndex(c) \/ WaitForIndex(c) \/ IndexStatus(c)
           \/ ListIndexes(c) \/ DropIndex(c) \/ RegisterIndex(c)
Step(c) == \/ Request(c) \/ Look(c) \/ List(c) \/ SourceReference(c) \/ Submit(c)
           \/ Wait(c) \/ Attached(c) \/ Apply(c)
Build == BuildStarts \/ BuildPublishes \/ (\E ok \in BOOLEAN : BuildFinishes(ok)) \/ BuildRemoved
Next == \/ Build \/ ForeignPublish \/ Restart
        \/ \E c \in Callers : Call(c) \/ Step(c) \/ PollLost(c) \/ Deadline(c)
\* The event loop runs the call, and time passes; a build need not end.
Spec == Init /\ [][Next]_vars
        /\ \A c \in Callers : WF_vars(Step(c)) /\ WF_vars(Deadline(c))

-----------------------------------------------------------------------------
(* A call that returns normally has seen the index published at some time *)
(* of the call, whichever build it was about.  The two exceptions are      *)
(* waits in the process that submitted nothing themselves: one that        *)
(* followed a build which had published before (and was dropped since),    *)
(* and one that found no build, when another was accepted after it looked. *)
OkMeansReady ==
    out.res = "ok" /\ out.op \in Submits \union {"wait"} =>
        \/ out.ready
        \/ /\ out.op = "wait" /\ out.by \intersect Remote = {}
           /\ IF out.id # 0 THEN out.id \in pubs ELSE out.late

(* A caller in the process that is refused for its arguments has submitted *)
(* nothing: the timeout is checked before the build is.                    *)
RefusedEmbedded == out.res = "invalid" /\ out.by \intersect Remote = {} => ~out.applied

(* A build in progress is never replaced: its record stays until the build *)
(* ended or its process did.                                               *)
OneBuild == rec.state \in Active /\ restarts' = restarts
              => rec'.id = rec.id \/ rec.id \in DOMAIN ended'

(* Every call ends, also when the build it waits for never does.           *)
CallsEnd == \A c \in Callers : call[c].at # "idle" ~> call[c].at = "idle"
=============================================================================
