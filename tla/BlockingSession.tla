--------------------------- MODULE BlockingSession ---------------------------
(***************************************************************************)
(* The synchronous Session (facade.py): caller threads hand coroutines to  *)
(* one event loop thread through _BlockingBridge and block on the future.  *)
(* Every operation is checked against Session._closed and then against     *)
(* _BlockingBridge._closed before it is scheduled, and close stops the     *)
(* loop; none of these steps holds a lock.                                 *)
(*                                                                         *)
(* A thread runs one call at a time: pc[t] is where it is in it, job[t]    *)
(* the coroutine it waits for.  The loop thread runs the scheduled         *)
(* coroutines; each may take any time, and AsyncSession.close suspends     *)
(* between its closed check and the transport's release.                   *)
(***************************************************************************)
EXTENDS Integers, FiniteSets, Sequences

CONSTANTS Threads,    \* threads that share the session
          Closers,    \* the ones that may call close
          MaxCalls    \* calls per thread (model bound)

BlockingAssumption == Closers \subseteq Threads /\ MaxCalls \in Nat

VARIABLES pc,         \* where the thread is in its call
          job,        \* the coroutine it runs: kind and progress
          calls,      \* calls begun by the thread
          reader,     \* open readers over a remote stream, by owner thread
          snap,       \* readers the thread's close has still to close
          closed,     \* Session._closed
          bridge,     \* _BlockingBridge._closed
          loop,       \* the event loop
          session,    \* AsyncSession: open, in close, closed, or broken: close raised
          transport   \* whether the transport was closed

vars == <<pc, job, calls, reader, snap, closed, bridge, loop, session, transport>>

Kinds == {"operation", "stream", "next", "release", "aclose", "close"}
NoJob == [kind |-> "none", at |-> "none"]

TypeOK ==
    /\ pc \in [Threads -> {"idle", "checked", "submit", "wait", "result", "raised",
                           "readers", "finally", "stop", "join", "closed"}]
    /\ job \in [Threads -> {NoJob} \union
                           [kind : Kinds, at : {"queued", "running", "suspended", "done"}]]
    /\ calls \in [Threads -> 0 .. MaxCalls]
    /\ reader \subseteq Threads /\ snap \in [Threads -> SUBSET Threads]
    /\ closed \in BOOLEAN /\ bridge \in BOOLEAN
    /\ loop \in {"running", "stopping", "stopped", "closed"}
    /\ session \in {"open", "closing", "closed", "broken"} /\ transport \in {"open", "closed"}

\* connect: the loop thread runs before connect_async is handed to it, and the
\* Session is made from its result.
Init ==
    /\ pc = [t \in Threads |-> "idle"] /\ job = [t \in Threads |-> NoJob]
    /\ calls = [t \in Threads |-> 0] /\ reader = {}
    /\ snap = [t \in Threads |-> {}]
    /\ closed = FALSE /\ bridge = FALSE /\ loop = "running"
    /\ session = "open" /\ transport = "open"

Goto(t, p) == pc' = [pc EXCEPT ![t] = p]
\* One reader of the snapshot is closed.
ReaderGone(t) == \E r \in snap[t] : /\ reader' = reader \ {r}
                                   /\ snap' = [snap EXCEPT ![t] = @ \ {r}]
Starts(t, k) == job' = [job EXCEPT ![t] = [kind |-> k, at |-> "queued"]]

-----------------------------------------------------------------------------
(* The calling threads.                                                    *)

\* _run_sync: a closed session refuses the operation.
RunSync(t, k) ==
    /\ pc[t] = "idle" /\ calls[t] < MaxCalls
    /\ calls' = [calls EXCEPT ![t] = @ + 1]
    /\ IF closed THEN Goto(t, "raised") /\ UNCHANGED job
       ELSE Goto(t, "checked") /\ Starts(t, k)
    /\ UNCHANGED <<reader, snap, closed, bridge, loop, session, transport>>

\* register_parquet, list_tables, table, deregister_table
CatalogOperation(t) == RunSync(t, "operation")
\* collect, sql, to_sql, explain, analyze
QueryOperation(t) == RunSync(t, "operation")
\* the methods of SourceTable
IndexOperation(t) == RunSync(t, "operation")
\* stream: the transport's stream is opened on the loop
OpenReader(t) == t \notin reader /\ RunSync(t, "stream")

\* _BlockingBatchIterator.__next__ of the thread's reader: the bridge alone is
\* asked whether it is closed.
ReaderNext(t) ==
    /\ pc[t] = "idle" /\ t \in reader /\ calls[t] < MaxCalls
    /\ calls' = [calls EXCEPT ![t] = @ + 1]
    /\ Goto(t, "checked") /\ Starts(t, "next")
    /\ UNCHANGED <<reader, snap, closed, bridge, loop, session, transport>>

\* _BlockingBridge.run raises: an iterator's __del__ swallows it, close goes on to
\* its finally, everybody else sees it.
Refused(t) ==
    /\ job' = [job EXCEPT ![t] = NoJob]
    /\ CASE job[t].kind = "close"  -> Goto(t, "finally") /\ UNCHANGED <<reader, snap>>
         [] job[t].kind = "aclose" -> Goto(t, "readers") /\ ReaderGone(t)
         [] OTHER                  -> Goto(t, "raised") /\ UNCHANGED <<reader, snap>>
\* _BlockingBridge.run: a closed bridge refuses; a closed loop refuses when the
\* coroutine is scheduled; otherwise the thread blocks in future.result().
BridgeCheck(t) ==
    /\ pc[t] = "checked"
    /\ IF bridge THEN Refused(t) ELSE Goto(t, "submit") /\ UNCHANGED <<job, reader, snap>>
    /\ UNCHANGED <<calls, closed, bridge, loop, session, transport>>
Submit(t) ==
    /\ pc[t] = "submit"
    /\ IF loop = "closed" THEN Refused(t) ELSE Goto(t, "wait") /\ UNCHANGED <<job, reader, snap>>
    /\ UNCHANGED <<calls, closed, bridge, loop, session, transport>>

\* The future has its result or its exception.  A stream becomes a reader; a reader
\* that is exhausted closes its stream with a second call; a close goes on to its
\* finally.
Result(t) ==
    /\ pc[t] = "wait" /\ job[t].at = "done"
    /\ \/ /\ job' = [job EXCEPT ![t] = NoJob]
          /\ CASE job[t].kind = "close"  -> Goto(t, "finally") /\ UNCHANGED <<reader, snap>>
               [] job[t].kind = "stream" -> Goto(t, "result") /\ UNCHANGED snap
                                            /\ reader' = reader \union {t}
               [] job[t].kind = "aclose" -> Goto(t, "readers") /\ ReaderGone(t)
               [] OTHER                  -> Goto(t, "result") /\ UNCHANGED <<reader, snap>>
       \/ /\ job[t].kind = "next" /\ Starts(t, "release") /\ Goto(t, "checked")
          /\ reader' = reader \ {t} /\ UNCHANGED snap
    /\ UNCHANGED <<calls, closed, bridge, loop, session, transport>>
Returns(t) ==
    /\ pc[t] \in {"result", "raised"} /\ Goto(t, "idle")
    /\ UNCHANGED <<job, calls, reader, snap, closed, bridge, loop, session, transport>>

\* Session.close, up to its loop over the readers
CloseSession(t) ==
    /\ pc[t] = "idle" /\ t \in Closers /\ calls[t] < MaxCalls
    /\ calls' = [calls EXCEPT ![t] = @ + 1]
    /\ Goto(t, IF closed THEN "closed" ELSE "readers")
    /\ snap' = [snap EXCEPT ![t] = reader]
    /\ UNCHANGED <<job, reader, closed, bridge, loop, session, transport>>
\* reader.close() releases the iterator of each reader listed, whosever it is, and
\* that runs aclose on the loop; then AsyncSession.close is handed to the bridge.
CloseReaders(t) ==
    /\ pc[t] = "readers" /\ Goto(t, "checked")
    /\ IF snap[t] # {} THEN Starts(t, "aclose") ELSE Starts(t, "close")
    /\ UNCHANGED <<calls, reader, snap, closed, bridge, loop, session, transport>>
\* The finally of close: Session._closed, then _BlockingBridge.close.
CloseFinally(t) ==
    /\ pc[t] = "finally" /\ closed' = TRUE
    /\ IF bridge THEN Goto(t, "closed") /\ UNCHANGED bridge
       ELSE Goto(t, "stop") /\ bridge' = TRUE
    /\ UNCHANGED <<job, calls, reader, snap, loop, session, transport>>
StopLoop(t) ==
    /\ pc[t] = "stop" /\ loop = "running" /\ loop' = "stopping" /\ Goto(t, "join")
    /\ UNCHANGED <<job, calls, reader, snap, closed, bridge, session, transport>>
JoinLoop(t) ==
    /\ pc[t] = "join" /\ loop = "stopped" /\ loop' = "closed" /\ Goto(t, "closed")
    /\ UNCHANGED <<job, calls, reader, snap, closed, bridge, session, transport>>

-----------------------------------------------------------------------------
(* The loop thread.                                                        *)

LoopStarts(t) ==
    /\ loop = "running" /\ pc[t] = "wait" /\ job[t].at = "queued"
    /\ job' = [job EXCEPT ![t].at = "running"]
    /\ UNCHANGED <<pc, calls, reader, snap, closed, bridge, loop, session, transport>>

\* An operation ends with a result or an exception.
LoopCompletes(t) ==
    /\ loop = "running" /\ pc[t] = "wait" /\ job[t].at = "running"
    /\ job[t].kind # "close" /\ job' = [job EXCEPT ![t].at = "done"]
    /\ UNCHANGED <<pc, calls, reader, snap, closed, bridge, loop, session, transport>>

\* AsyncSession.close: the first call sets _closed and closes streams and
\* transport, which suspends it and may raise; another call returns at once.
LoopCloses(t) ==
    /\ loop = "running" /\ pc[t] = "wait" /\ job[t].kind = "close"
    /\ \/ /\ job[t].at = "running" /\ session # "open"
          /\ job' = [job EXCEPT ![t].at = "done"] /\ UNCHANGED <<session, transport>>
       \/ /\ job[t].at = "running" /\ session = "open" /\ session' = "closing"
          /\ job' = [job EXCEPT ![t].at = "suspended"] /\ UNCHANGED transport
       \/ /\ job[t].at = "suspended" /\ job' = [job EXCEPT ![t].at = "done"]
          /\ \/ session' = "closed" /\ transport' = "closed"
             \/ session' = "broken" /\ UNCHANGED transport
    /\ UNCHANGED <<pc, calls, reader, snap, closed, bridge, loop>>

\* run_forever returns once the stop callback ran: what is queued or suspended
\* stays so.
LoopStops ==
    /\ loop = "stopping" /\ loop' = "stopped"
    /\ UNCHANGED <<pc, job, calls, reader, snap, closed, bridge, session, transport>>

-----------------------------------------------------------------------------
Call(t) == CatalogOperation(t) \/ QueryOperation(t) \/ IndexOperation(t) \/ OpenReader(t)
          \/ ReaderNext(t) \/ CloseSession(t)
ThreadStep(t) == \/ BridgeCheck(t) \/ Submit(t) \/ Result(t) \/ Returns(t)
                 \/ CloseReaders(t) \/ CloseFinally(t) \/ StopLoop(t) \/ JoinLoop(t)
LoopStep(t) == LoopStarts(t) \/ LoopCompletes(t) \/ LoopCloses(t)
Next == LoopStops \/ \E t \in Threads : Call(t) \/ ThreadStep(t) \/ LoopStep(t)

\* Threads run, and the loop gives every task a turn; nobody has to call.
Fairness == /\ WF_vars(LoopStops)
            /\ \A t \in Threads : WF_vars(ThreadStep(t)) /\ WF_vars(LoopStep(t))
Spec == Init /\ [][Next]_vars /\ Fairness

-----------------------------------------------------------------------------
(* When a call of close has ended, the transport was released, unless      *)
(* closing a stream or the transport raised: the loop is not stopped       *)
(* before AsyncSession.close ran to its end.                               *)
CloseReleases == (\E t \in Threads : pc[t] = "closed") =>
                     transport = "closed" \/ session = "broken"

(* A call returns or raises, unless the loop is stopped under it: no other *)
(* interleaving of checks, scheduling and results leaves a thread blocked. *)
CallsReturn ==
    \A t \in Threads : (pc[t] \in {"checked", "submit", "wait"})
                         ~> (pc[t] \in {"result", "raised", "closed"} \/ loop # "running")

(* close ends, also while other threads keep calling.                      *)
CloseEnds == \A t \in Threads : (pc[t] = "readers") ~> (pc[t] = "closed")
=============================================================================
