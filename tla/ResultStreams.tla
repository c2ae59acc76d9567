---------------------------- MODULE ResultStreams ----------------------------
(***************************************************************************)
(* One query whose result is consumed by AsyncSession.collect or by an     *)
(* AsyncSession.stream loop, over either transport:                        *)
(*                                                                         *)
(*   embedded  AsyncResultStream -> native stream                          *)
(*   remote    AsyncResultStream -> _RemoteBatchStream ->                  *)
(*             _DecodedIpcStream -> _HttpResponseStream -> connection ->   *)
(*             StreamingResponse -> _EncodedIpcStream -> native stream     *)
(*                                                                         *)
(* A result is len batches.  A batch on the wire is a frame of two parts,  *)
(* <<f, FALSE>> and <<f, TRUE>> (its last part): frame 0 is the schema,    *)
(* frames 1..len are the batches and frame len + 1 is the end marker.  The *)
(* client may receive any number of parts in one read, so its chunks do not   *)
(* follow the frames.  The native stream holds the query's admission slot  *)
(* exactly while nat.st is "open".                                         *)
(*                                                                         *)
(* Three tasks run: the consumer, a task that closes the session, and the  *)
(* server's task for the request.  The consumer may be cancelled at every  *)
(* await, the native stream may fail, the connection may break.            *)
(***************************************************************************)
EXTENDS Integers, Sequences, SequencesExt

CONSTANTS MaxBatches,   \* longest result
          WireCap       \* parts the connection buffers: a slow client blocks the server

StreamsAssumption == MaxBatches \in Nat /\ WireCap \in Nat \ {0}

VARIABLES mode,   \* which transport the session has
          len,    \* batches of the result
          nat,    \* the native stream: st, batches handed out, cancellation token
          srv,    \* the server task for the request
          enc,    \* _EncodedIpcStream
          wire,   \* parts sent and not yet received
          conn,   \* the HTTP response body as the client sees it
          cli,    \* what the consumer awaits
          chunk,  \* the bytes handed to decoder.push
          dec,    \* _DecodedIpcStream and its decoder
          strm,   \* AsyncResultStream: exists, closed, in session._streams
          sess,   \* AsyncSession.close
          got,    \* batches the consumer received
          outcome \* what collect returned or raised

vars == <<mode, len, nat, srv, enc, wire, conn, cli, chunk, dec, strm, sess,
          got, outcome>>
server == <<srv, enc>>
client == <<cli, chunk, dec>>

Parts(f) == << <<f, FALSE>>, <<f, TRUE>> >>
Awaiting == {"open", "request", "native", "chunk", "push", "finish"}

TypeOK ==
    LET Part == (0 .. MaxBatches + 1) \X BOOLEAN IN
    /\ mode \in {"embedded", "remote"} /\ len \in 0 .. MaxBatches
    /\ nat \in [st : {"none", "open", "gone"}, next : 1 .. MaxBatches + 1,
                cancelled : BOOLEAN]
    /\ srv \in {"idle", "plan", "start", "next", "send", "read", "write", "done"}
    /\ enc \in [pending : Seq(Part), finished : BOOLEAN, closed : BOOLEAN]
    /\ wire \in Seq(Part)
    /\ conn \in {"none", "refused", "open", "ended", "broken", "closed"}
    /\ cli \in {"new", "ready", "done"} \union Awaiting
    /\ chunk \in Seq(Part)
    /\ dec \in [schema : BOOLEAN, pending : Seq(1 .. MaxBatches),
                buf : Seq(Part), partial : BOOLEAN,
                closed : BOOLEAN]
    /\ strm \in [live : BOOLEAN, closed : BOOLEAN, tracked : BOOLEAN]
    /\ sess \in {"open", "closing", "transport", "closed"}
    /\ got \in Seq(1 .. MaxBatches)
    /\ outcome \in {"none", "complete", "error", "cancelled", "stopped"}

Init ==
    /\ mode \in {"embedded", "remote"} /\ len \in 0 .. MaxBatches
    /\ nat = [st |-> "none", next |-> 1, cancelled |-> FALSE]
    /\ srv = "idle" /\ wire = <<>> /\ conn = "none"
    /\ enc = [pending |-> <<>>, finished |-> FALSE, closed |-> FALSE]
    /\ cli = "new" /\ chunk = <<>>
    /\ dec = [schema |-> FALSE, pending |-> <<>>, buf |-> <<>>,
              partial |-> FALSE, closed |-> FALSE]
    /\ strm = [live |-> FALSE, closed |-> FALSE, tracked |-> FALSE]
    /\ sess = "open" /\ got = <<>> /\ outcome = "none"

-----------------------------------------------------------------------------
(* The native stream: finish() drops the plan and the permit together.     *)

Finished(n) == [n EXCEPT !.st = IF @ = "open" THEN "gone" ELSE @]

\* cancel(): the token is set at once; the stream object is taken when no read
\* holds its mutex, otherwise the read that holds it finishes the stream.
Cancelled(n, reading) ==
    IF n.st # "open" THEN n
    ELSE IF reading THEN [n EXCEPT !.cancelled = TRUE]
    ELSE Finished([n EXCEPT !.cancelled = TRUE])

\* Mutant: the end of the stream is counted as one more batch.
PollEndCounts == /\ nat.cancelled \/ nat.st = "gone" \/ nat.next > len
                 /\ nat' = Finished([nat EXCEPT !.next = @ + 1])
\* poll_next: a cancelled stream ends like an exhausted one.
PollEnd   == (nat.cancelled \/ nat.st = "gone" \/ nat.next > len) /\ nat' = Finished(nat)
PollBatch == /\ nat.st = "open" /\ ~nat.cancelled /\ nat.next <= len
             /\ nat' = [nat EXCEPT !.next = @ + 1]
PollError == nat.st = "open" /\ ~nat.cancelled /\ nat' = Finished(nat)

-----------------------------------------------------------------------------
(* The server: handler, encoder, response.                                 *)

EncClosed(e) == [e EXCEPT !.closed = TRUE, !.pending = <<>>]
\* Mutant: only the pending bytes are dropped.
CloseEncodedKeepsSource == enc' = EncClosed(enc) /\ UNCHANGED nat
\* aclose of the encoded stream: closes the native stream unless it ended.
CloseEncoded == /\ enc' = EncClosed(enc)
                /\ nat' = IF enc.closed \/ enc.finished THEN nat
                          ELSE Cancelled(nat, FALSE)

\* SessionService.stream: admission and planning.
QueryPlanned ==
    /\ srv = "plan" /\ srv' = "start" /\ nat' = [nat EXCEPT !.st = "open"]
    /\ UNCHANGED <<mode, len, enc, wire, conn, client, strm, sess, got, outcome>>
\* An error before the response starts becomes a JSON error response (_handle).
QueryRefused ==
    /\ srv = "plan" /\ srv' = "done"
    /\ conn' = IF conn = "open" THEN "refused" ELSE conn
    /\ UNCHANGED <<mode, len, nat, enc, wire, client, strm, sess, got, outcome>>

\* encode_ipc_stream: the schema message is the first pending chunk.
EncodeStart ==
    /\ srv = "start" /\ srv' = "next"
    /\ enc' = [enc EXCEPT !.pending = Parts(0)]
    /\ UNCHANGED <<mode, len, nat, wire, conn, client, strm, sess, got, outcome>>

\* The writer cannot be made: an error response, and the native stream goes with the
\* handler, which held the only reference to it.
EncodeRefused ==
    /\ srv = "start" /\ srv' = "done" /\ nat' = Finished(nat)
    /\ conn' = IF conn = "open" THEN "refused" ELSE conn
    /\ UNCHANGED <<mode, len, enc, wire, client, strm, sess, got, outcome>>

\* __anext__ of the encoded stream, up to its next await.
EncodeNext ==
    /\ srv = "next"
    /\ \/ enc.pending # <<>> /\ srv' = "send" /\ UNCHANGED <<enc, nat, conn>>
       \/ /\ enc.pending = <<>> /\ enc.finished
          /\ srv' = "done" /\ CloseEncoded
          /\ conn' = IF conn = "open" THEN "ended" ELSE conn
       \/ enc.pending = <<>> /\ ~enc.finished /\ srv' = "read"
          /\ UNCHANGED <<enc, nat, conn>>
    /\ UNCHANGED <<mode, len, wire, client, strm, sess, got, outcome>>

\* The HTTP write, which waits while the connection's buffer is full.
SendChunk ==
    /\ srv = "send" /\ conn = "open" /\ Len(wire) < WireCap
    /\ wire' = Append(wire, Head(enc.pending))
    /\ enc' = [enc EXCEPT !.pending = Tail(@)] /\ srv' = "next"
    /\ UNCHANGED <<mode, len, nat, conn, client, strm, sess, got, outcome>>

\* A batch of the native stream is encoded in a thread.
EncodeRead ==
    /\ srv = "read" /\ PollBatch /\ srv' = "write"
    /\ UNCHANGED <<mode, len, enc, wire, conn, client, strm, sess, got, outcome>>
EncodeWrite ==
    /\ srv = "write" /\ srv' = "next"
    /\ enc' = [enc EXCEPT !.pending = @ \o Parts(nat.next - 1)]
    /\ UNCHANGED <<mode, len, nat, wire, conn, client, strm, sess, got, outcome>>

\* StopAsyncIteration of the native stream: the end marker is written.
EncodeFinish ==
    /\ srv = "read" /\ PollEnd /\ srv' = "next"
    /\ enc' = [enc EXCEPT !.finished = TRUE, !.pending = @ \o Parts(len + 1)]
    /\ UNCHANGED <<mode, len, wire, conn, client, strm, sess, got, outcome>>

\* An execution or encoding failure: the encoded stream is closed, the
\* exception leaves the response body without its end.
EncodeFails ==
    /\ \/ srv = "read" /\ PollError /\ enc' = EncClosed(enc)
       \/ srv = "write" /\ CloseEncoded
    /\ srv' = "done"
    /\ conn' = IF conn = "open" THEN "broken" ELSE conn
    /\ UNCHANGED <<mode, len, wire, client, strm, sess, got, outcome>>

\* The client is gone: the server cancels the response task wherever it waits,
\* and the response's background task closes the encoded stream.
ServerDisconnect ==
    /\ srv \in {"next", "send", "read", "write"} /\ conn \in {"broken", "closed"}
    /\ srv' = "done" /\ CloseEncoded
    /\ UNCHANGED <<mode, len, wire, conn, client, strm, sess, got, outcome>>

\* The connection breaks and loses what it had buffered.
ConnectionBreaks ==
    /\ conn = "open" /\ conn' = "broken"
    /\ \E k \in 0 .. Len(wire) : wire' = SubSeq(wire, 1, k)
    /\ UNCHANGED <<mode, len, nat, server, client, strm, sess, got, outcome>>

-----------------------------------------------------------------------------
(* The client's end of the connection and the decoder.                     *)

\* _HttpResponseStream.aclose and _DecodedIpcStream.aclose
HttpClosed == IF conn \in {"open", "ended", "broken"} THEN "closed" ELSE conn
DecClosed(d) == [d EXCEPT !.closed = TRUE, !.pending = <<>>]

\* The consumer ends: collect's finally closes the stream (if one was made),
\* AsyncResultStream.aclose closes what is under it.
CloseResult ==
    /\ strm' = [strm EXCEPT !.closed = strm.live, !.tracked = FALSE]
    /\ IF mode = "embedded"
       THEN nat' = Cancelled(nat, FALSE) /\ UNCHANGED <<conn, wire>>
       ELSE UNCHANGED nat /\ conn' = HttpClosed /\ wire' = <<>>
    /\ dec' = DecClosed(dec)
Ends(o) == /\ CloseResult
           /\ cli' = "done" /\ outcome' = o /\ chunk' = <<>>

\* AsyncSession.stream: the request is sent, or the native call is awaited.  Only
\* the transport looks at a closed flag, its own, which close sets last.
Stream ==
    /\ cli = "new" /\ sess # "closed"
    /\ IF mode = "remote" THEN cli' = "request" /\ srv' = "plan" /\ conn' = "open"
                          ELSE cli' = "open" /\ UNCHANGED <<srv, conn>>
    /\ UNCHANGED <<mode, len, nat, enc, wire, chunk, dec, strm, sess, got, outcome>>

\* The stream object exists from here and enters session._streams, whether or
\* not the session was closed meanwhile.
Opened == strm' = [live |-> TRUE, closed |-> FALSE, tracked |-> TRUE]

StreamOpensNative ==
    /\ cli = "open"
    /\ \/ /\ nat' = [nat EXCEPT !.st = "open"] /\ Opened /\ cli' = "ready"
          /\ UNCHANGED outcome
       \/ cli' = "done" /\ outcome' = "error" /\ UNCHANGED <<nat, strm>>
    /\ UNCHANGED <<mode, len, server, wire, conn, chunk, dec, sess, got>>

\* _request_stream: the response starts once the server has planned the query.
ResponseStarts ==
    /\ cli = "request" /\ conn \in {"open", "ended"} /\ srv \notin {"plan", "start"}
    /\ cli' = "chunk"
    /\ UNCHANGED <<mode, len, nat, server, wire, conn, chunk, dec, strm, sess,
                   got, outcome>>
RequestFails ==
    /\ cli = "request" /\ conn \in {"refused", "broken", "closed"}
    /\ Ends("error") /\ UNCHANGED <<mode, len, server, sess, got>>

\* _HttpResponseStream.__anext__: bytes as the connection delivers them.
ReceiveChunk ==
    /\ cli = "chunk" /\ conn \in {"open", "ended", "broken"}
    /\ \E k \in 1 .. WireCap : /\ k <= Len(wire)
                               /\ chunk' = SubSeq(wire, 1, k)
                               /\ wire' = SubSeq(wire, k + 1, Len(wire))
    /\ cli' = "push"
    /\ UNCHANGED <<mode, len, nat, server, conn, dec, strm, sess, got, outcome>>
\* Mutant: a body cut short is taken for a finished one.
EndOnBrokenBody ==
    /\ cli = "chunk" /\ conn \in {"ended", "broken"} /\ wire = <<>> /\ cli' = "finish"
    /\ UNCHANGED <<mode, len, nat, server, wire, conn, chunk, dec, strm, sess,
                   got, outcome>>
\* The body ended.
ReceiveEnd ==
    /\ cli = "chunk" /\ conn = "ended" /\ wire = <<>> /\ cli' = "finish"
    /\ UNCHANGED <<mode, len, nat, server, wire, conn, chunk, dec, strm, sess,
                   got, outcome>>
\* A body without its end, or a response closed under a pending read.
ReceiveError ==
    /\ cli = "chunk"
    /\ \/ conn = "broken" /\ wire = <<>>
       \/ conn = "closed"
    /\ Ends("error") /\ UNCHANGED <<mode, len, server, sess, got>>

\* push: the decoder consumes the buffer up to the end of the first batch.
Decode(buf) ==
    LET ends == {i \in 1 .. Len(buf) : buf[i][2] /\ buf[i][1] \in 1 .. len}
        stop == IF ends = {} THEN Len(buf) ELSE CHOOSE i \in ends : \A j \in ends : i <= j
    IN [schema  |-> \E i \in 1 .. stop : buf[i] = <<0, TRUE>>,
        batch   |-> IF ends = {} THEN <<>> ELSE << buf[stop][1] >>,
        rest    |-> SubSeq(buf, stop + 1, Len(buf)),
        partial |-> IF stop = 0 THEN FALSE ELSE ~buf[stop][2]]

\* What __anext__ and read_schema do with the decoder's state after a push:
\* return, decode what is buffered, or read on.  Neither looks at its own _closed
\* again; a closed _HttpResponseStream answers the read with StopAsyncIteration.
Resume(d, closed) ==
    IF d.pending # <<>> \/ (d.schema /\ ~strm.live) THEN "ready"
    ELSE IF d.buf # <<>> THEN "push"
    ELSE IF closed THEN "finish" ELSE "chunk"

\* The consumer gets the batch or, the first time, the stream object.
Return(d) ==
    IF ~strm.live
    THEN Opened /\ dec' = d /\ UNCHANGED got
    ELSE /\ got' = Append(got, Head(d.pending))
         /\ dec' = [d EXCEPT !.pending = Tail(@)] /\ UNCHANGED strm

PushChunk ==
    /\ cli = "push"
    /\ LET r == Decode(dec.buf \o chunk)
           d == [dec EXCEPT !.schema = @ \/ r.schema, !.pending = @ \o r.batch,
                            !.buf = r.rest, !.partial = r.partial]
           k == Resume(d, conn = "closed")
       IN /\ chunk' = <<>> /\ cli' = k
          /\ IF k = "ready" THEN Return(d)
             ELSE dec' = d /\ UNCHANGED <<got, strm>>
    /\ UNCHANGED <<mode, len, nat, server, wire, conn, sess, outcome>>

\* decoder.finish refuses a body that stops inside a frame.
DecoderFinish ==
    /\ cli = "finish"
    /\ IF dec.partial \/ ~dec.schema
       THEN Ends("error")
       ELSE Ends("complete")
    /\ UNCHANGED <<mode, len, server, sess, got>>

-----------------------------------------------------------------------------
(* AsyncResultStream and its consumer.                                     *)

\* The consumer asks for the next batch.
ResultNext ==
    /\ cli = "ready" /\ ~strm.closed
    /\ IF mode = "embedded" THEN cli' = "native" /\ UNCHANGED <<got, dec, strm>>
       ELSE LET k == Resume(dec, FALSE) IN
            IF dec.pending # <<>> THEN cli' = "ready" /\ Return(dec)
            ELSE cli' = k /\ UNCHANGED <<got, dec, strm>>
    /\ UNCHANGED <<mode, len, nat, server, wire, conn, chunk, sess, outcome>>

\* A closed AsyncResultStream ends the loop.
ResultNextClosed ==
    /\ cli = "ready" /\ strm.closed
    /\ Ends("complete") /\ UNCHANGED <<mode, len, server, sess, got>>

NativeBatch ==
    /\ cli = "native" /\ PollBatch /\ cli' = "ready"
    /\ got' = Append(got, nat.next)
    /\ UNCHANGED <<mode, len, server, wire, conn, chunk, dec, strm, sess, outcome>>
NativeEnd ==
    /\ cli = "native" /\ PollEnd /\ cli' = "done" /\ outcome' = "complete"
    /\ strm' = [strm EXCEPT !.closed = TRUE, !.tracked = FALSE]
    /\ UNCHANGED <<mode, len, server, wire, conn, chunk, dec, sess, got>>
NativeError ==
    /\ cli = "native" /\ PollError /\ cli' = "done" /\ outcome' = "error"
    /\ strm' = [strm EXCEPT !.closed = TRUE, !.tracked = FALSE]
    /\ UNCHANGED <<mode, len, server, wire, conn, chunk, dec, sess, got>>

\* A consumer closes its stream early, or breaks off and leaves it to the session;
\* a task is cancelled at an await.
ConsumerStops ==
    /\ cli = "ready"
    /\ Ends("stopped") /\ UNCHANGED <<mode, len, server, sess, got>>
ConsumerBreaks ==
    /\ cli = "ready" /\ cli' = "done" /\ outcome' = "stopped"
    /\ UNCHANGED <<mode, len, nat, server, wire, conn, chunk, dec, strm, sess, got>>
ConsumerCancelled ==
    /\ cli \in Awaiting
    /\ Ends("cancelled") /\ UNCHANGED <<mode, len, server, sess, got>>

\* AsyncSession.close: the streams tracked now are closed, then the transport.
SessionClose ==
    /\ sess = "open" /\ sess' = (IF strm.tracked THEN "closing" ELSE "transport")
    /\ IF strm.tracked
       THEN /\ strm' = [strm EXCEPT !.closed = TRUE]
            /\ IF mode = "embedded"
               THEN nat' = Cancelled(nat, cli = "native") /\ UNCHANGED <<conn, wire, dec>>
               ELSE /\ conn' = HttpClosed /\ wire' = <<>> /\ dec' = DecClosed(dec)
                    /\ UNCHANGED nat
       ELSE UNCHANGED <<strm, nat, conn, wire, dec>>
    /\ UNCHANGED <<mode, len, server, cli, chunk, got, outcome>>
SessionStreamsClosed ==
    /\ sess = "closing" /\ (mode = "embedded" => nat.st # "open")
    /\ sess' = "transport" /\ strm' = [strm EXCEPT !.tracked = FALSE]
    /\ UNCHANGED <<mode, len, nat, server, wire, conn, client, got, outcome>>
\* HttpTransport.close drops the connections of the client it owns.
TransportClose ==
    /\ sess = "transport" /\ sess' = "closed"
    /\ conn' = (IF conn \in {"open", "ended"} THEN "broken" ELSE conn) /\ wire' = <<>>
    /\ UNCHANGED <<mode, len, nat, server, client, strm, got, outcome>>

-----------------------------------------------------------------------------
Serve == QueryPlanned \/ QueryRefused \/ EncodeStart \/ EncodeRefused \/ EncodeNext \/ SendChunk \/ EncodeRead
         \/ EncodeWrite \/ EncodeFinish \/ EncodeFails
Consume == \/ Stream \/ StreamOpensNative \/ ResponseStarts \/ RequestFails
           \/ ReceiveChunk \/ ReceiveEnd \/ ReceiveError \/ PushChunk
           \/ DecoderFinish \/ ResultNext \/ ResultNextClosed
           \/ NativeBatch \/ NativeEnd \/ NativeError
Close == SessionClose \/ SessionStreamsClosed \/ TransportClose
Next == Serve \/ ServerDisconnect \/ ConnectionBreaks \/ Consume
        \/ ConsumerStops \/ ConsumerBreaks \/ ConsumerCancelled \/ Close

\* Event loops run their ready tasks, the server notices a disconnect.
Fairness == WF_vars(Serve) /\ WF_vars(ServerDisconnect) /\ WF_vars(Consume)
Spec == Init /\ [][Next]_vars /\ Fairness

-----------------------------------------------------------------------------
Result == [i \in 1 .. len |-> i]

(* Batches arrive in order, without a gap and without a duplicate, however *)
(* the connection cuts the bytes and whoever closes the stream when        *)
(* (_DecodedIpcStream and its buffered decoder).                           *)
DeliveredInOrder == IsPrefix(got, Result)

(* While nobody closes the session, a loop that ends normally has seen the *)
(* whole result: a failed query, a broken connection or a body cut at a    *)
(* frame boundary raises instead (_read_next_chunk, _RemoteBatchStream).   *)
EndMeansComplete == outcome = "complete" /\ sess = "open" => got = Result

(* Once the session no longer keeps the stream of a consumer that is done, *)
(* however it ended, the admission slot is given back for good, also when  *)
(* the server learns of it in the middle of a read, of an encoding or of a *)
(* blocked write (_EncodedIpcStream.aclose, the response's background      *)
(* task, AsyncResultStream.aclose).  A consumer that breaks off keeps its  *)
(* slot until the session is closed.                                       *)
SlotReleased == (cli = "done" /\ ~strm.tracked) ~> [](nat.st # "open")

(* Every consumer that keeps reading comes to an end.                      *)
ConsumerEnds == (cli # "new") ~> (cli = "done")

=============================================================================
