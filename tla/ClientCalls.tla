---------------------------- MODULE ClientCalls -----------------------------
(***************************************************************************)
(* The calls of a client, embedded or over HTTP: the stream of a result,   *)
(* the blocking session, the tables and the index.  The components share no*)
(* state, so that each behaviour runs one of them and the variables of the *)
(* others are 0.  A variable that two components name alike (calls, call,  *)
(* out, restarts, snap) belongs to the one that runs.                      *)
(***************************************************************************)
EXTENDS Integers, Sequences

CONSTANTS MaxBatches, WireCap,                                     \* streams
          Threads, Closers, ThreadCalls,                           \* blocking session
          Callers, Remote,                                         \* tables and index
          TableNames, PageSize, TableCalls, TableRestarts,         \* tables
          IndexCalls, IndexEvents                                  \* index

VARIABLES component,  \* the one that runs in this behaviour
          mode, len, nat, srv, enc, wire, conn, cli, chunk, dec, strm, sess, got, outcome,
          pc, job, reader, closed, bridge, loop, session, transport,
          catalog, ctx, hist, unsettled,
          last, rec, ended, pubs, builds, begun, foreign,
          calls, snap, call, out, restarts
streams == <<mode, len, nat, srv, enc, wire, conn, cli, chunk, dec, strm, sess, got, outcome>>
blocking == <<pc, job, reader, closed, bridge, loop, session, transport>>
tables == <<catalog, ctx, hist, unsettled>>
index == <<last, rec, ended, pubs, builds, begun, foreign>>
vars == <<component, streams, blocking, tables, index, calls, snap, call, out, restarts>>

Streams == INSTANCE ResultStreams
Blocking == INSTANCE BlockingSession WITH MaxCalls <- ThreadCalls
Registry == INSTANCE TableRegistry WITH
    Names <- TableNames, MaxCalls <- TableCalls, MaxRestarts <- TableRestarts
Index == INSTANCE IndexApi WITH MaxCalls <- IndexCalls, MaxEvents <- IndexEvents

\* Two threads that close a blocking session at once stop the loop under each other: the
\* session has one thread that closes it.
OneCloser == \A s, t \in Closers : s = t

ASSUME CallsAssumption ==
    /\ Streams!StreamsAssumption
    /\ Blocking!BlockingAssumption /\ OneCloser
    /\ Registry!RegistryAssumption
    /\ Index!IndexApiAssumption

StreamsOff == /\ mode = 0 /\ len = 0 /\ nat = 0 /\ srv = 0 /\ enc = 0 /\ wire = 0 /\ conn = 0
              /\ cli = 0 /\ chunk = 0 /\ dec = 0 /\ strm = 0 /\ sess = 0 /\ got = 0 /\ outcome = 0
BlockingOff == /\ pc = 0 /\ job = 0 /\ reader = 0 /\ closed = 0 /\ bridge = 0 /\ loop = 0
               /\ session = 0 /\ transport = 0
TablesOff == catalog = 0 /\ ctx = 0 /\ hist = 0 /\ unsettled = 0
IndexOff == last = 0 /\ rec = 0 /\ ended = 0 /\ pubs = 0 /\ builds = 0 /\ begun = 0 /\ foreign = 0
Init ==
    \/ /\ component = "streams" /\ Streams!Init /\ BlockingOff /\ TablesOff /\ IndexOff
       /\ calls = 0 /\ snap = 0 /\ call = 0 /\ out = 0 /\ restarts = 0
    \/ /\ component = "blocking" /\ Blocking!Init /\ StreamsOff /\ TablesOff /\ IndexOff
       /\ call = 0 /\ out = 0 /\ restarts = 0
    \/ /\ component = "registry" /\ Registry!Init /\ StreamsOff /\ BlockingOff /\ IndexOff
       /\ snap = 0
    \/ /\ component = "index" /\ Index!Init /\ StreamsOff /\ BlockingOff /\ TablesOff
       /\ calls = 0

\* What a step of a component leaves alone.
StreamsRest == <<component, blocking, tables, index, calls, snap, call, out, restarts>>
BlockingRest == <<component, streams, tables, index, call, out, restarts>>
RegistryRest == <<component, streams, blocking, index, snap>>
IndexRest == <<component, streams, blocking, tables, calls>>

StreamsNext ==
    /\ component = "streams" /\ Streams!Next
    /\ UNCHANGED StreamsRest
BlockingNext ==
    /\ component = "blocking" /\ Blocking!Next
    /\ UNCHANGED BlockingRest
RegistryNext ==
    /\ component = "registry" /\ Registry!Next
    /\ UNCHANGED RegistryRest
IndexNext ==
    /\ component = "index" /\ Index!Next
    /\ UNCHANGED IndexRest

Next == \/ StreamsNext
        \/ BlockingNext
        \/ RegistryNext
        \/ IndexNext

\* A call on the tables or on the index goes on.
CallStep(c) ==
    \/ /\ component = "registry" /\ Registry!Step(c) /\ Registry!Track
       /\ UNCHANGED RegistryRest
    \/ component = "index" /\ Index!Step(c) /\ UNCHANGED IndexRest
\* The server's task and the consumer's go on, threads and the loop are scheduled, a
\* call that began goes on, and a deadline passes.
Fairness ==
    /\ WF_vars(component = "streams" /\ Streams!Serve /\ UNCHANGED StreamsRest)
    /\ WF_vars(component = "streams" /\ Streams!ServerDisconnect /\ UNCHANGED StreamsRest)
    /\ WF_vars(component = "streams" /\ Streams!Consume /\ UNCHANGED StreamsRest)
    /\ WF_vars(component = "blocking" /\ Blocking!LoopStops /\ UNCHANGED BlockingRest)
    /\ \A t \in Threads :
          /\ WF_vars(component = "blocking" /\ Blocking!ThreadStep(t) /\ UNCHANGED BlockingRest)
          /\ WF_vars(component = "blocking" /\ Blocking!LoopStep(t) /\ UNCHANGED BlockingRest)
    /\ \A c \in Callers :
          /\ WF_vars(CallStep(c))
          /\ WF_vars(component = "index" /\ Index!Deadline(c) /\ UNCHANGED IndexRest)
Spec == Init /\ [][Next]_vars /\ Fairness

-----------------------------------------------------------------------------
(* What is checked, of the component that runs.                            *)

\* Every component's own type invariant.
TypeOK ==
    /\ component = "streams" => Streams!TypeOK
    /\ component = "blocking" => Blocking!TypeOK
    /\ component = "registry" => Registry!TypeOK
    /\ component = "index" => Index!TypeOK

\* Batches arrive in order, without a gap and without a duplicate, however the
\* connection cuts the bytes and whoever closes the stream; and while nobody closes the
\* session, a loop that ends normally has seen all of them: a failure, or a body cut at a
\* frame boundary, raises (_DecodedIpcStream, _RemoteBatchStream).
ResultsWhole ==
    component = "streams" =>
        /\ Streams!DeliveredInOrder
        /\ Streams!EndMeansComplete

\* What the calls reported is so: a close that ended has released the transport, unless
\* closing a stream or the transport raised; when nothing runs on a name, session and catalog
\* agree on it, whatever overlapped, failed, was undone or restarted, unless a deregistration
\* overlapped a registration or a rollback failed; a failed registration left nothing behind,
\* with the same exceptions; a listing holds what was registered while it ran; a create, a
\* refresh or a remote wait that returned normally has seen the index published, and a wait in
\* the process has, or followed a build that had published, or found no build when another was
\* accepted after it looked; a call in the process that was refused for its arguments has begun
\* nothing (Session.close, register_parquet_table, deregister_table, list_tables,
\* wait_for_index, create_index).
AnswersHold ==
    /\ component = "blocking" => Blocking!CloseReleases
    /\ component = "registry" =>
          /\ Registry!SettledNamesAgree
          /\ Registry!FailedLeavesNothing
          /\ Registry!ListingSound
    /\ component = "index" => Index!OkMeansReady /\ Index!RefusedEmbedded

\* Nothing is replaced by a call that overlaps it: a definition or a provider is only ever
\* withdrawn, a build in progress keeps its record until it or its process ended
\* (create_table, register_table, BuildCoordinator.submit).
NothingReplaced == [][
    /\ component = "registry" => Registry!NoRebind
    /\ component = "index" => Index!OneBuild]_vars

\* Once the session no longer keeps the stream of a consumer that is done, however it ended,
\* the admission slot is given back for good; a consumer that breaks off without closing its
\* stream keeps the slot until the session is closed (_EncodedIpcStream.aclose, the background
\* task of the response, AsyncSession._streams).
SlotReleased == (component = "streams" /\ cli = "done" /\ ~strm.tracked)
                    ~> [](component = "streams" /\ nat.st # "open")

\* Every call ends: a consumer that keeps reading; a blocking call, unless the loop is
\* stopped under it; close, while other threads keep calling; a listing under which the
\* tables change; a wait for a build that never does (AsyncResultStream.__anext__,
\* _BlockingBridge.run, Session.close, list_tables, wait_for_index).  A behaviour runs one
\* component, so that one formula may speak of two.
CallsEnd ==
    /\ \A t \in Threads :
          (\/ component = "streams" /\ cli # "new"
           \/ component = "blocking" /\ pc[t] \in {"checked", "submit", "wait"})
              ~> (\/ component = "streams" /\ cli = "done"
                  \/ /\ component = "blocking"
                     /\ pc[t] \in {"result", "raised", "closed"} \/ loop # "running")
    /\ \A t \in Closers, c \in Callers :
          (\/ component = "blocking" /\ pc[t] = "readers"
           \/ component \in {"registry", "index"} /\ call[c].at # "idle")
              ~> (\/ component = "blocking" /\ pc[t] = "closed"
                  \/ component \in {"registry", "index"} /\ call[c].at = "idle")
=============================================================================
