------------------------- MODULE ExpressionShipping -------------------------
(***************************************************************************)
(* Shipping expressions between threads and processes (ipc.py, and the     *)
(* pickle hooks of Expr).  An expression here is a call of one user        *)
(* function; all of them have the same name.  Encoding puts a Python       *)
(* function's code into the bytes, or only its name when the encoding      *)
(* session has inlining off; a function that came through the FFI goes by  *)
(* name always.  Decoding finds its session by explicit argument, worker   *)
(* slot of the thread, process-wide session.  The slots are thread local.  *)
(***************************************************************************)
EXTENDS Integers, Sequences

CONSTANTS Threads, Sessions,
          Strict,       \* sessions made by with_python_udf_inlining(enabled=False)
          Global,       \* SessionContext.global_ctx()
          PythonFns, FfiFns, NoFn, NoCtx,
          MaxMessages   \* model bound

ShippingAssumption ==
    /\ Strict \subseteq Sessions /\ Global \in Sessions \ Strict
    /\ NoFn \notin PythonFns \cup FfiFns /\ NoCtx \notin Sessions /\ MaxMessages \in Nat

Fns == PythonFns \cup FfiFns

VARIABLES registered,  \* session |-> the function it has under the name
          worker,      \* thread |-> its worker slot
          sender,      \* thread |-> its sender slot
          installed,   \* thread |-> the worker and sender contexts it installed last
          bytes,       \* the byte strings made so far, in order
          got          \* the last decoding

vars == <<registered, worker, sender, installed, bytes, got>>
Slots == Sessions \cup {NoCtx}
Nothing == [code |-> FALSE, fn |-> NoFn, ctx |-> Global, result |-> NoFn, wish |-> NoCtx]

TypeOK ==
    /\ registered \in [Sessions -> Fns \cup {NoFn}]
    /\ worker \in [Threads -> Slots] /\ sender \in [Threads -> Slots]
    /\ installed \in [Threads -> [worker : Slots, sender : Slots]]
    /\ Len(bytes) <= MaxMessages
    /\ \A i \in DOMAIN bytes : bytes[i] \in [fn : Fns, code : BOOLEAN, by : Slots, on : Threads]
    /\ got.result \in Fns \cup {NoFn} /\ got.ctx \in Sessions

Init ==
    /\ registered = [s \in Sessions |-> NoFn]
    /\ worker = [t \in Threads |-> NoCtx] /\ sender = [t \in Threads |-> NoCtx]
    /\ installed = [t \in Threads |-> [worker |-> NoCtx, sender |-> NoCtx]]
    /\ bytes = <<>> /\ got = Nothing

RegisterUdf(s, f) ==
    /\ registered' = [registered EXCEPT ![s] = f]
    /\ UNCHANGED <<worker, sender, installed, bytes, got>>

SetWorkerCtx(t, s) ==
    /\ worker' = [worker EXCEPT ![t] = s]
    /\ installed' = [installed EXCEPT ![t].worker = s]
    /\ UNCHANGED <<registered, sender, bytes, got>>
ClearWorkerCtx(t) ==
    /\ worker' = [worker EXCEPT ![t] = NoCtx]
    /\ installed' = [installed EXCEPT ![t].worker = NoCtx]
    /\ UNCHANGED <<registered, sender, bytes, got>>
GetWorkerCtx(t) == worker[t]
SetSenderCtx(t, s) ==
    /\ sender' = [sender EXCEPT ![t] = s]
    /\ installed' = [installed EXCEPT ![t].sender = s]
    /\ UNCHANGED <<registered, worker, bytes, got>>
ClearSenderCtx(t) ==
    /\ sender' = [sender EXCEPT ![t] = NoCtx]
    /\ installed' = [installed EXCEPT ![t].sender = NoCtx]
    /\ UNCHANGED <<registered, worker, bytes, got>>
GetSenderCtx(t) == sender[t]

-----------------------------------------------------------------------------
\* RawExpr.to_bytes: the codec of the session, or the default one, which inlines.
Encoded(t, f, ctx) == [fn |-> f, code |-> f \in PythonFns /\ ctx \notin Strict, by |-> ctx, on |-> t]
\* RawExpr.from_bytes: code is rebuilt, which a strict session refuses; a name is
\* looked up in the session.
Decoded(m, ctx) == IF ~m.code THEN registered[ctx]
                   ELSE IF ctx \in Strict THEN NoFn ELSE m.fn
\* Mutant: the process-wide session before the worker's.
ResolveGlobal(t, explicit) == IF explicit # NoCtx THEN explicit ELSE Global
\* _resolve_ctx
ResolveCtx(t, explicit) ==
    IF explicit # NoCtx THEN explicit
    ELSE IF GetWorkerCtx(t) # NoCtx THEN GetWorkerCtx(t) ELSE Global

Send(m) == /\ Len(bytes) < MaxMessages /\ bytes' = Append(bytes, m)
           /\ UNCHANGED <<registered, worker, sender, installed, got>>
ToBytes(t, f, ctx) == Send(Encoded(t, f, ctx))
\* __reduce__: pickling, and copying, encode with the thread's sender context.
Reduce(t, f) == Send(Encoded(t, f, GetSenderCtx(t)))
FromBytes(t, i, explicit) ==
    /\ i \in DOMAIN bytes
    /\ LET ctx == ResolveCtx(t, explicit)
       IN  got' = [code |-> bytes[i].code, fn |-> bytes[i].fn, ctx |-> ctx,
                   result |-> Decoded(bytes[i], ctx),
                   wish |-> IF explicit # NoCtx THEN explicit ELSE installed[t].worker]
    /\ UNCHANGED <<registered, worker, sender, installed, bytes>>
\* _reconstruct: unpickling has no context to pass.
Reconstruct(t, i) == FromBytes(t, i, NoCtx)

Next ==
    \/ \E s \in Sessions, f \in Fns : RegisterUdf(s, f)
    \/ \E t \in Threads, s \in Sessions : SetWorkerCtx(t, s) \/ SetSenderCtx(t, s)
    \/ \E t \in Threads : ClearWorkerCtx(t) \/ ClearSenderCtx(t)
    \/ \E t \in Threads, f \in Fns, c \in Slots : ToBytes(t, f, c)
    \/ \E t \in Threads, f \in Fns : Reduce(t, f)
    \/ \E t \in Threads, i \in 1 .. MaxMessages, c \in Slots : FromBytes(t, i, c)
    \/ \E t \in Threads, i \in 1 .. MaxMessages : Reconstruct(t, i)
Spec == Init /\ [][Next]_vars

-----------------------------------------------------------------------------
(* The two slots of a thread hold what that thread installed last: no call *)
(* of another thread, and no call for the other slot, changes them.        *)
SlotsAreMine == \A t \in Threads :
    installed[t] = [worker |-> worker[t], sender |-> sender[t]]

(* Bytes that a strict session encoded carry no code, on whichever path    *)
(* the session reached the encoder.                                        *)
StrictSendsNames == \A i \in DOMAIN bytes : bytes[i].by \in Strict => ~bytes[i].code

(* Whoever asks for a strict session, by argument or as the worker of its  *)
(* thread, gets no function rebuilt from code.                             *)
StrictRefusesCode == got.wish \in Strict /\ got.code => got.result = NoFn

(* A function that travelled as code is never taken for another one that   *)
(* the receiver registered under the same name.                            *)
CodeIsFaithful == got.code => got.result \in {got.fn, NoFn}

(* Expressions travel as the sessions at both ends allow.                  *)
ShippedAsAllowed == SlotsAreMine /\ StrictSendsNames /\ StrictRefusesCode /\ CodeIsFaithful

=============================================================================
