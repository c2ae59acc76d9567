------------------------- MODULE ClientCallsProofs --------------------------
(***************************************************************************)
(* What holds of ClientCalls for results of any length, any buffer of the  *)
(* connection, any number of threads, callers, names and calls.  Each      *)
(* component has an inductive invariant; CallsInv asks for that of the one *)
(* that runs.                                                              *)
(***************************************************************************)
EXTENDS ClientCalls, FiniteSets, SequenceTheorems, FiniteSetTheorems, WellFoundedInduction, TLAPS

-----------------------------------------------------------------------------
(* The stream of a result.  Parts are numbered as the encoder writes them: *)
(* the two parts of frame f are 2f and 2f + 1.                             *)
WireParts == (0 .. MaxBatches + 1) \X BOOLEAN
\* The types, one variable at a time.
Natives == [st : {"none", "open", "gone"}, next : 1 .. MaxBatches + 1, cancelled : BOOLEAN]
Encoders == [pending : Seq(WireParts), finished : BOOLEAN, closed : BOOLEAN]
Decoders == [schema : BOOLEAN, pending : Seq(1 .. MaxBatches), buf : Seq(WireParts), partial : BOOLEAN,
             closed : BOOLEAN]
StreamRecords == [live : BOOLEAN, closed : BOOLEAN, tracked : BOOLEAN]
Servers == {"idle", "plan", "start", "next", "send", "read", "write", "done"}
Conns == {"none", "refused", "open", "ended", "broken", "closed"}
Clients == {"new", "ready", "done", "open", "request", "native", "chunk", "push", "finish"}
Sessions == {"open", "closing", "transport", "closed"}
Outcomes == {"none", "complete", "error", "cancelled", "stopped"}
StreamTypes ==
    /\ mode \in {"embedded", "remote"} /\ len \in 0 .. MaxBatches
    /\ nat \in Natives /\ srv \in Servers /\ enc \in Encoders /\ wire \in Seq(WireParts)
    /\ conn \in Conns /\ cli \in Clients /\ chunk \in Seq(WireParts) /\ dec \in Decoders
    /\ strm \in StreamRecords /\ sess \in Sessions /\ got \in Seq(1 .. MaxBatches)
    /\ outcome \in Outcomes

Pos(p) == 2 * p[1] + (IF p[2] THEN 1 ELSE 0)
Follow(s, a) == \A i \in 1 .. Len(s) : Pos(s[i]) = a + i - 1
AllParts == 2 * len + 4
\* The number of the next part the encoder will write.
Edge == IF enc.finished THEN AllParts
        ELSE IF srv \in {"plan", "start"} THEN 0
        ELSE IF srv = "write" THEN 2 * nat.next - 2 ELSE 2 * nat.next

\* What was delivered, and why a stream is closed before its consumer ended.
GotInv ==
    /\ Len(got) <= len /\ \A i \in 1 .. Len(got) : got[i] = i
    /\ nat.next <= len + 1
    /\ cli # "done" /\ (strm.closed \/ conn = "closed") => sess # "open"
    /\ outcome # "none" => cli = "done"
    /\ outcome = "complete" /\ sess = "open" => Len(got) = len
\* In the process the consumer reads the native stream itself.
EmbeddedInv == mode = "embedded" =>
    /\ srv = "idle" /\ conn = "none" /\ cli \in {"new", "open", "ready", "native", "done"}
    /\ Len(got) = nat.next - 1
    /\ cli \in {"new", "open"} => nat.st = "none" /\ ~nat.cancelled
    /\ cli \in {"ready", "native"} /\ sess = "open" => nat.st = "open" /\ ~nat.cancelled
\* The encoder reads a stream nobody else cancels, and has written what it read.
ServerInv == mode = "remote" =>
    /\ srv \in {"idle", "plan", "start"} =>
          enc.pending = <<>> /\ ~enc.finished /\ nat.next = 1 /\ ~nat.cancelled
    /\ srv = "idle" <=> cli = "new"
    /\ srv \in {"start", "next", "send", "read", "write"} /\ ~enc.finished
          => nat.st = "open" /\ ~nat.cancelled
    /\ enc.finished => srv \in {"next", "send", "done"}
    /\ srv = "send" => enc.pending # <<>>
    /\ srv \in {"read", "write"} => enc.pending = <<>>
    /\ conn = "open" => srv \notin {"idle", "done"}
    /\ srv = "idle" => conn = "none" /\ wire = <<>> /\ chunk = <<>> /\ dec.buf = <<>>
                       /\ dec.pending = <<>> /\ got = <<>>
\* Where the client's bytes are while it waits.
PointInv == mode = "remote" =>
    /\ cli \notin {"open", "native"}
    /\ cli \in {"request", "chunk", "finish"} => dec.buf = <<>>
    /\ cli \in {"request", "chunk", "ready", "finish"} => chunk = <<>>
    /\ cli \in {"request", "chunk", "push", "finish"} => dec.pending = <<>>
    /\ cli = "ready" => strm.live
    /\ cli = "finish" /\ sess = "open" => conn = "ended" /\ wire = <<>>
\* While the consumer reads, the parts that wait in the decoder, in the chunk, on the wire and
\* in the encoder follow each other from part a, the first that is not decoded, and the batches
\* delivered are those that end before a.
Decoded(a) ==
    LET n == Len(got) + Len(dec.pending) IN
    /\ n <= len /\ (n > 0 => a >= 2 * n + 2) /\ (n < len => a <= 2 * n + 3)
    /\ dec.pending # <<>> => dec.pending = <<Len(got) + 1>>
InFlight(a) ==
    LET b == a + Len(dec.buf)
        c == b + Len(chunk)
        w == c + Len(wire)
    IN  /\ Follow(dec.buf, a) /\ Follow(chunk, b) /\ Follow(wire, c) /\ w <= AllParts
        /\ conn = "open" => Follow(enc.pending, w) /\ w + Len(enc.pending) = Edge
        /\ conn = "ended" => w = AllParts
Reading == \/ cli \in {"request", "chunk", "push", "finish"}
           \/ cli = "ready" /\ ~strm.closed
ReadInv == mode = "remote" /\ Reading => \E a \in 0 .. AllParts : Decoded(a) /\ InFlight(a)
StreamsInv == StreamTypes /\ GotInv /\ EmbeddedInv /\ ServerInv /\ PointInv /\ ReadInv

\* What is assumed of a result's length and of the connection's buffer.
LEMMA StreamConstants == MaxBatches \in Nat /\ WireCap \in Nat \ {0}
  BY CallsAssumption DEF Streams!StreamsAssumption

\* The type invariant, one variable at a time.
LEMMA StreamTypesAre == Streams!TypeOK <=> StreamTypes
  BY DEF Streams!TypeOK, StreamTypes, Natives, Encoders, Decoders, StreamRecords, Servers, Conns, Clients,
     Sessions, Outcomes, WireParts, Streams!Awaiting

\* finish() of the native stream gives up the plan and keeps its place.
LEMMA FinishedIs ==
    ASSUME NEW n \in Natives
    PROVE  /\ Streams!Finished(n) \in Natives
           /\ Streams!Finished(n).next = n.next /\ Streams!Finished(n).cancelled = n.cancelled
  BY DEF Streams!Finished, Natives

\* cancel() of the native stream keeps its place, and does nothing to one that is not open.
LEMMA CancelledIs ==
    ASSUME NEW n \in Natives, NEW b
    PROVE  /\ Streams!Cancelled(n, b) \in Natives /\ Streams!Cancelled(n, b).next = n.next
           /\ n.st # "open" => Streams!Cancelled(n, b) = n
<1>1. n.st # "open" => Streams!Cancelled(n, b) = n
  BY DEF Streams!Cancelled
<1>2. [n EXCEPT !.cancelled = TRUE] \in Natives /\ [n EXCEPT !.cancelled = TRUE].next = n.next
  BY DEF Natives
<1>3. QED
  BY <1>1, <1>2, FinishedIs DEF Streams!Cancelled

\* A closed encoder has nothing pending.
LEMMA EncClosedIs ==
    ASSUME NEW e \in Encoders
    PROVE  /\ Streams!EncClosed(e) \in Encoders /\ Streams!EncClosed(e).pending = << >>
           /\ Streams!EncClosed(e).finished = e.finished
<1>1. << >> \in Seq(WireParts)
  OBVIOUS
<1>2. QED
  BY <1>1 DEF Streams!EncClosed, Encoders

\* A closed decoder drops the batches it had decoded and keeps its bytes.
LEMMA DecClosedIs ==
    ASSUME NEW d \in Decoders
    PROVE  /\ Streams!DecClosed(d) \in Decoders /\ Streams!DecClosed(d).pending = << >>
           /\ Streams!DecClosed(d).buf = d.buf
<1>1. << >> \in Seq(1 .. MaxBatches)
  OBVIOUS
<1>2. QED
  BY <1>1 DEF Streams!DecClosed, Decoders

\* aclose of the encoded stream.
LEMMA CloseEncodedIs ==
    ASSUME StreamTypes, Streams!CloseEncoded
    PROVE  /\ enc' \in Encoders /\ enc'.pending = << >> /\ enc'.finished = enc.finished
           /\ nat' \in Natives /\ nat'.next = nat.next
  BY EncClosedIs, CancelledIs DEF Streams!CloseEncoded, StreamTypes

\* The numbers of the parts of a sequence cut in two.
LEMMA FollowParts ==
    ASSUME NEW s \in Seq(WireParts), NEW t \in Seq(WireParts), NEW a \in Int
    PROVE  Follow(s \o t, a) <=> Follow(s, a) /\ Follow(t, a + Len(s))
<1> DEFINE u == s \o t
<1>1. /\ Len(s) \in Nat /\ Len(t) \in Nat /\ Len(u) = Len(s) + Len(t)
      /\ \A i \in 1 .. Len(s) + Len(t) : u[i] = IF i <= Len(s) THEN s[i] ELSE t[i - Len(s)]
  BY ConcatProperties, LenProperties
<1> HIDE DEF u
<1>2. ASSUME Follow(u, a) PROVE Follow(s, a) /\ Follow(t, a + Len(s))
  <2>1. ASSUME NEW i \in 1 .. Len(s) PROVE Pos(s[i]) = a + i - 1
    <3>1. i \in 1 .. Len(u) /\ u[i] = s[i]
      BY <1>1
    <3>2. QED
      BY <1>2, <3>1 DEF Follow
  <2>2. ASSUME NEW i \in 1 .. Len(t) PROVE Pos(t[i]) = (a + Len(s)) + i - 1
    <3>1. i + Len(s) \in 1 .. Len(u) /\ u[i + Len(s)] = t[i]
      <4>1. i + Len(s) \in 1 .. Len(s) + Len(t) /\ ~(i + Len(s) <= Len(s)) /\ (i + Len(s)) - Len(s) = i
        BY <1>1
      <4>2. QED
        BY <1>1, <4>1
    <3>2. Pos(t[i]) = a + (i + Len(s)) - 1
      BY <1>2, <3>1 DEF Follow
    <3>3. QED
      BY <1>1, <3>2
  <2>3. QED
    BY <2>1, <2>2 DEF Follow
<1>3. ASSUME Follow(s, a), Follow(t, a + Len(s)) PROVE Follow(u, a)
  <2> SUFFICES ASSUME NEW i \in 1 .. Len(u) PROVE Pos(u[i]) = a + i - 1
    BY DEF Follow
  <2>1. CASE i <= Len(s)
    <3>1. i \in 1 .. Len(s) /\ u[i] = s[i]
      BY <1>1, <2>1
    <3>2. QED
      BY <1>3, <3>1 DEF Follow
  <2>2. CASE ~(i <= Len(s))
    <3>1. i - Len(s) \in 1 .. Len(t) /\ u[i] = t[i - Len(s)]
      BY <1>1, <2>2
    <3>2. Pos(t[i - Len(s)]) = (a + Len(s)) + (i - Len(s)) - 1
      BY <1>3, <3>1 DEF Follow
    <3>3. (a + Len(s)) + (i - Len(s)) - 1 = a + i - 1
      BY <1>1
    <3>4. QED
      BY <3>1, <3>2, <3>3
  <2>3. QED
    BY <2>1, <2>2
<1>4. QED
  BY <1>2, <1>3 DEF u

\* No part follows any number.
LEMMA FollowNothing == \A a : Follow(<< >>, a)
  BY DEF Follow

\* The two parts of a frame.
LEMMA FrameFollows ==
    ASSUME NEW f \in 0 .. MaxBatches + 1
    PROVE  /\ Streams!Parts(f) \in Seq(WireParts) /\ Len(Streams!Parts(f)) = 2
           /\ Follow(Streams!Parts(f), 2 * f)
<1> DEFINE p == <<f, FALSE>>
           q == <<f, TRUE>>
<1>1. p \in WireParts /\ q \in WireParts
  BY DEF WireParts
<1>2. Pos(p) = 2 * f /\ Pos(q) = 2 * f + 1
  BY StreamConstants DEF Pos
<1>3. Streams!Parts(f) = <<p, q>>
  BY DEF Streams!Parts
<1> HIDE DEF p, q
<1>4. <<p, q>> \in Seq(WireParts) /\ Len(<<p, q>>) = 2 /\ <<p, q>>[1] = p /\ <<p, q>>[2] = q
  BY <1>1
<1>5. 2 * f \in Int /\ \A i \in 1 .. 2 : i = 1 \/ i = 2
  BY StreamConstants
<1>6. \A i \in 1 .. 2 : Pos(<<p, q>>[i]) = 2 * f + i - 1
  BY <1>2, <1>4, <1>5
<1>7. QED
  BY <1>3, <1>4, <1>6 DEF Follow

\* A sequence of parts cut in two: both pieces go on with the numbers.
LEMMA CutFollows ==
    ASSUME NEW s \in Seq(WireParts), NEW m \in 0 .. Len(s), NEW a \in Int
    PROVE  /\ SubSeq(s, 1, m) \in Seq(WireParts) /\ Len(SubSeq(s, 1, m)) = m
           /\ SubSeq(s, m + 1, Len(s)) \in Seq(WireParts) /\ Len(SubSeq(s, m + 1, Len(s))) = Len(s) - m
           /\ Follow(s, a) <=> Follow(SubSeq(s, 1, m), a) /\ Follow(SubSeq(s, m + 1, Len(s)), a + m)
<1> DEFINE x == SubSeq(s, 1, m)
           y == SubSeq(s, m + 1, Len(s))
<1>1. Len(s) \in Nat /\ m \in Nat /\ m <= Len(s)
  BY LenProperties
<1>2. x \in Seq(WireParts) /\ Len(x) = m
  BY <1>1
<1>3. y \in Seq(WireParts) /\ Len(y) = Len(s) - m
  BY <1>1
<1>4. x \o y = s
  <2>1. 1 \in 1 .. Len(s) + 1 /\ m \in 1 - 1 .. Len(s) /\ Len(s) \in m .. Len(s)
    BY <1>1
  <2>2. x \o y = SubSeq(s, 1, Len(s))
    BY <2>1, ConcatAdjacentSubSeq
  <2>3. SubSeq(s, 1, Len(s)) = s
    BY SubSeqFull
  <2>4. QED
    BY <2>2, <2>3
<1> HIDE DEF x, y
<1>5. Follow(s, a) <=> Follow(x, a) /\ Follow(y, a + m)
  BY <1>2, <1>3, <1>4, FollowParts
<1>6. QED
  BY <1>2, <1>3, <1>5 DEF x, y

\* Of the parts that follow part a, when n batches were decoded, the decoder consumes all, or
\* those up to the end of batch n + 1.
LEMMA DecodeIs ==
    ASSUME NEW buf \in Seq(WireParts), NEW a \in Nat, Follow(buf, a), len \in Nat, NEW n \in 0 .. len,
           n > 0 => a >= 2 * n + 2, n < len => a <= 2 * n + 3
    PROVE  /\ Streams!Decode(buf).schema \in BOOLEAN /\ Streams!Decode(buf).partial \in BOOLEAN
           /\ \E m \in 0 .. Len(buf) :
                 /\ Streams!Decode(buf).rest = SubSeq(buf, m + 1, Len(buf))
                 /\ \/ /\ Streams!Decode(buf).batch = << >> /\ m = Len(buf)
                       /\ n < len => a + m <= 2 * n + 3
                    \/ n < len /\ Streams!Decode(buf).batch = <<n + 1>> /\ a + m = 2 * n + 4
<1> DEFINE ends == {i \in 1 .. Len(buf) : buf[i][2] /\ buf[i][1] \in 1 .. len}
           stop == IF ends = {} THEN Len(buf) ELSE CHOOSE i \in ends : \A j \in ends : i <= j
           r == Streams!Decode(buf)
<1>1. /\ r.schema = (\E i \in 1 .. stop : buf[i] = <<0, TRUE>>)
      /\ r.batch = IF ends = {} THEN << >> ELSE << buf[stop][1] >>
      /\ r.rest = SubSeq(buf, stop + 1, Len(buf))
      /\ r.partial = IF stop = 0 THEN FALSE ELSE ~buf[stop][2]
  BY DEF Streams!Decode
<1>2. r.schema \in BOOLEAN /\ r.partial \in BOOLEAN
  <2> HIDE DEF stop, r
  <2> QED
    BY <1>1
<1>3. Len(buf) \in Nat /\ n \in Nat
  BY LenProperties
\* An end of a batch lies at the batch's odd number.
<1>4. ASSUME NEW i \in 1 .. Len(buf)
      PROVE  /\ buf[i][1] \in Nat /\ buf[i][2] \in BOOLEAN
             /\ a + i - 1 = 2 * buf[i][1] + (IF buf[i][2] THEN 1 ELSE 0)
  <2>1. buf[i] \in WireParts
    BY ElementOfSeq
  <2>2. Pos(buf[i]) = a + i - 1
    BY DEF Follow
  <2>3. QED
    BY <2>1, <2>2, StreamConstants DEF WireParts, Pos
<1>5. ASSUME NEW i \in ends PROVE /\ i \in 1 .. Len(buf) /\ i = 2 * buf[i][1] + 2 - a
                                  /\ buf[i][1] \in n + 1 .. len /\ i >= 2 * n + 4 - a
  <2>1. i \in 1 .. Len(buf) /\ buf[i][2] /\ buf[i][1] \in 1 .. len
    BY <1>5
  <2>2. a + i - 1 = 2 * buf[i][1] + 1
    BY <1>4, <2>1
  <2> DEFINE f == buf[i][1]
  <2>3. f \in 1 .. len /\ a + i - 1 = 2 * f + 1 /\ i \in Nat /\ i >= 1
    BY <2>1, <2>2
  <2> HIDE DEF f
  <2>4. i = 2 * f + 2 - a /\ f \in n + 1 .. len /\ i >= 2 * n + 4 - a
    <3>1. i = 2 * f + 2 - a /\ f \in Int /\ f >= 1 /\ f <= len /\ a <= 2 * f + 1
      BY <2>3
    <3>2. CASE n = 0
      BY <1>3, <3>1, <3>2
    <3>3. CASE n > 0
      <4>1. a >= 2 * n + 2
        BY <3>3
      <4>2. f >= n + 1
        BY <1>3, <3>1, <4>1
      <4>3. QED
        BY <1>3, <3>1, <4>2
    <3>4. QED
      BY <1>3, <3>2, <3>3
  <2>5. QED
    BY <2>1, <2>4 DEF f
<1> DEFINE e == 2 * n + 4 - a
<1>6. e \in Int
  BY <1>3
<1>7. CASE n < len /\ e <= Len(buf)
  <2>1. e \in 1 .. Len(buf)
    BY <1>3, <1>7
  <2>2. e \in ends /\ buf[e][1] = n + 1
    <3> DEFINE f == buf[e][1]
               g == buf[e][2]
    <3>1. f \in Nat /\ g \in BOOLEAN /\ a + e - 1 = 2 * f + (IF g THEN 1 ELSE 0)
      BY <1>4, <2>1
    <3>2. a + e - 1 = 2 * n + 3
      BY <1>3
    <3> HIDE DEF f, g, e
    <3>3. g /\ f = n + 1
      BY <1>3, <3>1, <3>2
    <3>4. f \in 1 .. len
      BY <1>3, <1>7, <3>3
    <3>5. QED
      BY <2>1, <3>3, <3>4 DEF f, g
  <2>3. \A j \in ends : e <= j
    BY <1>5
  <2>4. stop = e
    <3> HIDE DEF ends, e
    <3>1. ends # {}
      BY <2>2
    <3>2. \A i \in ends : i \in Int
      BY <1>5
    <3>3. stop \in ends /\ \A j \in ends : stop <= j
      BY <2>2, <2>3, <3>1
    <3> HIDE DEF stop
    <3>4. stop <= e /\ e <= stop /\ stop \in Int
      BY <2>2, <2>3, <3>2, <3>3
    <3>5. QED
      BY <1>6, <3>4
  <2>5. r.batch = <<n + 1>> /\ r.rest = SubSeq(buf, e + 1, Len(buf))
    <3> HIDE DEF stop, ends, r, e
    <3> QED
      BY <1>1, <2>2, <2>4
  <2>6. a + e = 2 * n + 4 /\ e \in 0 .. Len(buf)
    BY <1>3, <2>1
  <2> HIDE DEF e, r
  <2>7. QED
    BY <1>2, <1>7, <2>5, <2>6 DEF r
<1>8. CASE ~(n < len /\ e <= Len(buf))
  <2>1. ends = {}
    <3>1. ASSUME NEW i \in ends PROVE FALSE
      <4>1. i \in 1 .. Len(buf) /\ buf[i][1] \in n + 1 .. len /\ i >= e
        BY <1>5
      <4> HIDE DEF e
      <4>2. n < len
        BY <1>3, <4>1
      <4>3. QED
        BY <1>3, <1>6, <1>8, <4>1, <4>2
    <3>2. QED
      BY <3>1
  <2>2. r.batch = << >> /\ r.rest = SubSeq(buf, Len(buf) + 1, Len(buf))
    <3> HIDE DEF ends, r
    <3> QED
      BY <1>1, <2>1
  <2>3. n < len => a + Len(buf) <= 2 * n + 3
    BY <1>3, <1>8
  <2>4. Len(buf) \in 0 .. Len(buf)
    BY <1>3
  <2> HIDE DEF r
  <2>5. QED
    BY <1>2, <2>2, <2>3, <2>4 DEF r
<1>9. QED
  BY <1>7, <1>8

\* Nothing is in flight before the first call.
LEMMA StreamsInit ==
    ASSUME Streams!Init
    PROVE  StreamsInv
<1>1. << >> \in Seq(WireParts) /\ << >> \in Seq(1 .. MaxBatches) /\ Len(<< >>) = 0
  OBVIOUS
<1>2. StreamTypes
  BY <1>1, StreamConstants DEF Streams!Init, StreamTypes, Natives, Encoders, Decoders, StreamRecords, Servers,
     Conns, Clients, Sessions, Outcomes
<1>3. len \in Nat /\ nat.next = 1 /\ got = << >> /\ cli = "new" /\ outcome = "none"
  BY StreamConstants DEF Streams!Init
<1>4. GotInv
  BY <1>1, <1>3 DEF Streams!Init, GotInv
<1>5. EmbeddedInv
  BY <1>1, <1>3 DEF Streams!Init, EmbeddedInv
<1>6. ServerInv /\ PointInv
  BY DEF Streams!Init, ServerInv, PointInv
<1>7. ReadInv
  BY <1>3 DEF ReadInv, Reading
<1>8. QED
  BY <1>2, <1>4, <1>5, <1>6, <1>7 DEF StreamsInv

\* The consumer ends, however.
LEMMA EndsStep ==
    ASSUME StreamsInv, NEW o \in Outcomes, Streams!Ends(o), cli \notin {"new", "done"},
           UNCHANGED <<mode, len, srv, enc, sess, got>>,
           o = "complete" /\ sess = "open" => Len(got) = len
    PROVE  StreamsInv'
<1> USE DEF StreamsInv
<1>1. cli' = "done" /\ outcome' = o /\ chunk' = << >> /\ dec' = Streams!DecClosed(dec)
  BY DEF Streams!Ends, Streams!CloseResult
<1>2. strm' \in StreamRecords
  BY DEF Streams!Ends, Streams!CloseResult, StreamTypes, StreamRecords
<1>3. mode = "embedded" => /\ conn' = conn /\ wire' = wire /\ nat' \in Natives /\ nat'.next = nat.next
  BY CancelledIs DEF Streams!Ends, Streams!CloseResult, StreamTypes
<1>4. mode = "remote" => nat' = nat /\ wire' = << >> /\ conn' \in {conn, "closed"} /\ conn' # "open"
  BY DEF Streams!Ends, Streams!CloseResult, Streams!HttpClosed
<1>5. mode \in {"embedded", "remote"} /\ << >> \in Seq(WireParts)
  BY DEF StreamTypes
<1>6. StreamTypes'
  <2>1. nat' \in Natives /\ conn' \in Conns /\ wire' \in Seq(WireParts)
    BY <1>3, <1>4, <1>5 DEF StreamTypes, Conns
  <2>2. dec' \in Decoders
    BY <1>1, DecClosedIs DEF StreamTypes
  <2>3. QED
    BY <1>1, <1>2, <1>5, <2>1, <2>2 DEF StreamTypes, Clients
<1>7. GotInv'
  BY <1>1, <1>3, <1>4, <1>5 DEF GotInv
<1>8. EmbeddedInv'
  BY <1>1, <1>3 DEF EmbeddedInv
<1>9. ServerInv'
  BY <1>1, <1>4 DEF ServerInv
<1>10. PointInv'
  BY <1>1 DEF PointInv
<1>11. ReadInv'
  BY <1>1 DEF ReadInv, Reading
<1>12. QED
  BY <1>6, <1>7, <1>8, <1>9, <1>10, <1>11

\* The server's side: what the client holds stays.
LEMMA ServerMoves ==
    ASSUME StreamsInv, mode = "remote", UNCHANGED <<mode, len, cli, chunk, dec, strm, sess, got, outcome>>,
           nat' \in Natives, srv' \in Servers, enc' \in Encoders, wire' \in Seq(WireParts), conn' \in Conns,
           nat'.next <= len + 1, conn' = "closed" => conn = "closed",
           cli # "new", ServerInv', cli = "finish" /\ sess = "open" => conn' = conn /\ wire' = wire,
           \A a \in 0 .. AllParts : InFlight(a) => InFlight(a)'
    PROVE  StreamsInv'
<1> USE DEF StreamsInv
<1>1. StreamTypes'
  BY DEF StreamTypes
<1>2. GotInv'
  BY DEF GotInv
<1>3. EmbeddedInv'
  BY DEF EmbeddedInv
<1>4. PointInv'
  BY DEF PointInv
<1>5. ReadInv'
  <2> SUFFICES ASSUME Reading PROVE \E a \in 0 .. AllParts' : Decoded(a)' /\ InFlight(a)'
    BY DEF ReadInv, Reading
  <2>1. PICK a \in 0 .. AllParts : Decoded(a) /\ InFlight(a)
    BY DEF ReadInv
  <2>2. AllParts' = AllParts /\ Decoded(a)'
    BY <2>1 DEF AllParts, Decoded
  <2>3. QED
    BY <2>1, <2>2
<1>6. QED
  BY <1>1, <1>2, <1>3, <1>4, <1>5

\* A step of the server that sends nothing and adds nothing to what it will send.
LEMMA ServerQuiet ==
    ASSUME StreamsInv, UNCHANGED <<len, chunk, dec, wire>>,
           conn' \in {conn, "ended", "broken", "refused"}, conn' # "open" \/ (conn = "open" /\ Edge' = Edge /\ enc' = enc),
           conn' = "ended" => conn = "ended" \/ (conn = "open" /\ enc.finished /\ enc.pending = << >>)
    PROVE  \A a \in 0 .. AllParts : InFlight(a) => InFlight(a)'
<1> SUFFICES ASSUME NEW a \in 0 .. AllParts, InFlight(a) PROVE InFlight(a)'
  OBVIOUS
<1> DEFINE c == a + Len(dec.buf) + Len(chunk)
           w == c + Len(wire)
<1>1. len \in Nat /\ wire \in Seq(WireParts) /\ chunk \in Seq(WireParts) /\ dec.buf \in Seq(WireParts)
  BY StreamConstants DEF StreamsInv, StreamTypes, Decoders
<1>2. w \in Int /\ AllParts' = AllParts
  BY <1>1 DEF AllParts
<1>3. /\ Follow(dec.buf, a) /\ Follow(chunk, a + Len(dec.buf)) /\ Follow(wire, c) /\ w <= AllParts
      /\ conn = "open" => Follow(enc.pending, w) /\ w + Len(enc.pending) = Edge
      /\ conn = "ended" => w = AllParts
  BY DEF InFlight
<1>4. conn = "open" /\ enc.finished /\ enc.pending = << >> => w = AllParts
  BY <1>2, <1>3 DEF Edge
<1>5. conn' = "ended" => w = AllParts
  BY <1>3, <1>4
<1> HIDE DEF w, c
<1>6. conn' = "open" => Follow(enc'.pending, w) /\ w + Len(enc'.pending) = Edge'
  BY <1>3
<1>7. QED
  BY <1>2, <1>3, <1>5, <1>6 DEF InFlight, w, c

\* The encoder writes the two parts of a frame.
LEMMA EncoderWrites ==
    ASSUME StreamsInv, UNCHANGED <<len, chunk, dec, wire, conn>>, NEW f \in 0 .. MaxBatches + 1,
           enc.pending = << >>, enc'.pending = Streams!Parts(f), Edge = 2 * f, Edge' = 2 * f + 2
    PROVE  \A a \in 0 .. AllParts : InFlight(a) => InFlight(a)'
<1> SUFFICES ASSUME NEW a \in 0 .. AllParts, InFlight(a) PROVE InFlight(a)'
  OBVIOUS
<1> DEFINE c == a + Len(dec.buf) + Len(chunk)
           w == c + Len(wire)
<1>1. len \in Nat /\ wire \in Seq(WireParts) /\ chunk \in Seq(WireParts) /\ dec.buf \in Seq(WireParts)
  BY StreamConstants DEF StreamsInv, StreamTypes, Decoders
<1>2. w \in Int /\ AllParts' = AllParts
  BY <1>1 DEF AllParts
<1>3. /\ Follow(dec.buf, a) /\ Follow(chunk, a + Len(dec.buf)) /\ Follow(wire, c) /\ w <= AllParts
      /\ conn = "open" => w + Len(enc.pending) = Edge
      /\ conn = "ended" => w = AllParts
  BY DEF InFlight
<1>4. conn = "open" => w = 2 * f
  BY <1>2, <1>3
<1>5. conn = "open" => Follow(enc'.pending, w) /\ w + Len(enc'.pending) = Edge'
  BY <1>4, FrameFollows
<1> HIDE DEF w, c
<1>6. QED
  BY <1>2, <1>3, <1>5 DEF InFlight, w, c

\* The first part that waits in the encoder goes on the wire.
LEMMA EncoderSends ==
    ASSUME StreamsInv, UNCHANGED <<len, chunk, dec, conn>>, enc.pending # << >>, conn = "open",
           wire' = Append(wire, Head(enc.pending)), enc'.pending = Tail(enc.pending), Edge' = Edge,
           Edge <= AllParts
    PROVE  \A a \in 0 .. AllParts : InFlight(a) => InFlight(a)'
<1> SUFFICES ASSUME NEW a \in 0 .. AllParts, InFlight(a) PROVE InFlight(a)'
  OBVIOUS
<1> DEFINE c == a + Len(dec.buf) + Len(chunk)
           w == c + Len(wire)
           p == enc.pending
           h == <<Head(p)>>
           t == Tail(p)
<1>1. /\ len \in Nat /\ wire \in Seq(WireParts) /\ chunk \in Seq(WireParts) /\ dec.buf \in Seq(WireParts)
      /\ p \in Seq(WireParts) /\ p # << >>
  BY StreamConstants DEF StreamsInv, StreamTypes, Decoders, Encoders
<1>2. w \in Int /\ c \in Int /\ AllParts' = AllParts
  BY <1>1 DEF AllParts
<1>3. /\ Follow(dec.buf, a) /\ Follow(chunk, a + Len(dec.buf)) /\ Follow(wire, c) /\ w <= AllParts
      /\ Follow(p, w) /\ w + Len(p) = Edge
  BY DEF InFlight
<1>4. h \in Seq(WireParts) /\ t \in Seq(WireParts) /\ Len(h) = 1 /\ Len(t) = Len(p) - 1 /\ p = h \o t
  <2>1. Head(p) \in WireParts /\ t \in Seq(WireParts) /\ Len(t) = Len(p) - 1
    BY <1>1, HeadTailProperties
  <2>2. p = h \o t
    BY <1>1
  <2>3. QED
    BY <2>1, <2>2
<1>5. wire' = wire \o h
  <2>1. Head(p) \in WireParts
    BY <1>1, HeadTailProperties
  <2> DEFINE x == Head(p)
  <2>2. wire' = Append(wire, x) /\ x \in WireParts
    BY <2>1
  <2> HIDE DEF x
  <2>3. Append(wire, x) = wire \o <<x>>
    BY <1>1, <2>2
  <2>4. QED
    BY <2>2, <2>3 DEF x
<1> HIDE DEF h, t, w, p
<1>6. Follow(h, w) /\ Follow(t, w + 1)
  BY <1>2, <1>3, <1>4, FollowParts
<1>7. Follow(wire', c) /\ Len(wire') = Len(wire) + 1
  <2>1. w = c + Len(wire) /\ Len(wire) \in Nat
    BY <1>1, LenProperties DEF w
  <2>2. Follow(wire', c)
    <3> HIDE DEF c
    <3>1. Follow(h, c + Len(wire))
      BY <1>6, <2>1
    <3>2. Follow(wire \o h, c) <=> Follow(wire, c) /\ Follow(h, c + Len(wire))
      BY <1>1, <1>2, <1>4, FollowParts
    <3>3. QED
      BY <1>3, <1>5, <3>1, <3>2
  <2>3. QED
    BY <1>1, <1>4, <1>5, <2>2, ConcatProperties
<1>8. w + 1 <= AllParts /\ (w + 1) + Len(t) = Edge
  <2>1. Len(p) \in Nat /\ Len(t) \in Nat
    BY <1>1, <1>4, LenProperties
  <2>2. AllParts \in Int
    BY <1>1 DEF AllParts
  <2>3. Edge \in Int
    BY <1>2, <1>3, <2>1
  <2>4. QED
    BY <1>2, <1>3, <1>4, <2>1, <2>2, <2>3
<1>9. c + Len(wire') = w + 1
  <2>1. w = c + Len(wire) /\ Len(wire) \in Nat
    BY <1>1, LenProperties DEF w
  <2> HIDE DEF c
  <2>2. QED
    BY <1>2, <1>7, <2>1
<1>10. enc'.pending = t
  BY DEF t, p
<1> HIDE DEF c
<1>11. QED
  BY <1>2, <1>3, <1>6, <1>7, <1>8, <1>9, <1>10 DEF InFlight, c

\* Every step of the server's task: what it writes follows what it wrote.
LEMMA ServerSteps ==
    ASSUME StreamsInv, Streams!Serve \/ Streams!ServerDisconnect
    PROVE  StreamsInv'
<1> USE DEF StreamsInv, Streams!client
<1>1. srv # "idle"
  BY DEF Streams!Serve, Streams!ServerDisconnect, Streams!QueryPlanned, Streams!QueryRefused, Streams!EncodeStart,
     Streams!EncodeNext, Streams!SendChunk, Streams!EncodeRead, Streams!EncodeWrite, Streams!EncodeFinish,
     Streams!EncodeFails, Streams!EncodeRefused
<1>2. mode = "remote" /\ cli # "new"
  BY <1>1 DEF StreamTypes, EmbeddedInv, ServerInv
<1>3. /\ nat \in Natives /\ srv \in Servers /\ enc \in Encoders /\ wire \in Seq(WireParts) /\ conn \in Conns
      /\ len \in Nat /\ len <= MaxBatches /\ nat.next \in Nat /\ nat.next >= 1 /\ nat.next <= len + 1 /\ MaxBatches \in Nat
      /\ enc.pending \in Seq(WireParts) /\ enc.finished \in BOOLEAN
  BY StreamConstants DEF StreamTypes, GotInv, Natives, Encoders
<1>4. cli = "finish" /\ sess = "open" => conn = "ended"
  BY <1>2 DEF PointInv
<1>5. CASE Streams!QueryPlanned
  <2>1. /\ srv = "plan" /\ srv' = "start" /\ nat' = [nat EXCEPT !.st = "open"]
        /\ UNCHANGED <<mode, len, enc, wire, conn, cli, chunk, dec, strm, sess, got, outcome>>
    BY <1>5 DEF Streams!QueryPlanned
  <2>2. nat' \in Natives /\ nat'.next = nat.next /\ nat'.cancelled = nat.cancelled /\ nat'.st = "open" /\ srv' \in Servers
    BY <1>3, <2>1 DEF Natives, Servers
  <2>3. Edge' = Edge
    BY <1>2, <2>1 DEF Edge, ServerInv
  <2>4. ServerInv'
    BY <1>2, <2>1, <2>2 DEF ServerInv
  <2>5. \A a \in 0 .. AllParts : InFlight(a) => InFlight(a)'
    BY <2>1, <2>3, ServerQuiet
  <2>6. QED
    BY <1>2, <1>3, <2>1, <2>2, <2>4, <2>5, ServerMoves
<1>6. CASE Streams!QueryRefused
  <2>1. /\ srv = "plan" /\ srv' = "done" /\ conn' = IF conn = "open" THEN "refused" ELSE conn
        /\ UNCHANGED <<mode, len, nat, enc, wire, cli, chunk, dec, strm, sess, got, outcome>>
    BY <1>6 DEF Streams!QueryRefused
  <2>2. srv' \in Servers /\ conn' \in Conns
    BY <1>3, <2>1 DEF Conns, Servers
  <2>3. ServerInv'
    BY <1>2, <2>1 DEF ServerInv
  <2>4. \A a \in 0 .. AllParts : InFlight(a) => InFlight(a)'
    BY <2>1, ServerQuiet
  <2>5. QED
    BY <1>2, <1>3, <1>4, <2>1, <2>2, <2>3, <2>4, ServerMoves
<1>7. CASE Streams!EncodeStart
  <2>1. /\ srv = "start" /\ srv' = "next" /\ enc' = [enc EXCEPT !.pending = Streams!Parts(0)]
        /\ UNCHANGED <<mode, len, nat, wire, conn, cli, chunk, dec, strm, sess, got, outcome>>
    BY <1>7 DEF Streams!EncodeStart
  <2>2. /\ Streams!Parts(0) \in Seq(WireParts) /\ Len(Streams!Parts(0)) = 2 /\ 0 \in 0 .. MaxBatches + 1
    BY <1>3, FrameFollows
  <2>3. enc' \in Encoders /\ srv' \in Servers /\ enc'.pending = Streams!Parts(0) /\ enc'.finished = enc.finished
    BY <1>3, <2>1, <2>2 DEF Encoders, Servers
  <2>4. enc.pending = << >> /\ ~enc.finished /\ nat.next = 1
    BY <1>2, <2>1 DEF ServerInv
  <2>5. Edge = 2 * 0 /\ Edge' = 2 * 0 + 2
    BY <2>1, <2>3, <2>4 DEF Edge
  <2>6. ServerInv'
    BY <1>2, <2>1, <2>3, <2>4 DEF ServerInv
  <2>7. \A a \in 0 .. AllParts : InFlight(a) => InFlight(a)'
    BY <2>1, <2>2, <2>3, <2>4, <2>5, EncoderWrites
  <2>8. QED
    BY <1>2, <1>3, <2>1, <2>3, <2>6, <2>7, ServerMoves
<1>8. CASE Streams!EncodeNext
  <2>1. srv = "next" /\ UNCHANGED <<mode, len, wire, cli, chunk, dec, strm, sess, got, outcome>>
    BY <1>8 DEF Streams!EncodeNext
  <2>2. ASSUME srv' \in {"send", "read"}, UNCHANGED <<enc, nat, conn>>,
               srv' = "send" => enc.pending # << >>, srv' = "read" => enc.pending = << >> /\ ~enc.finished
        PROVE  StreamsInv'
    <3>1. Edge' = Edge
      BY <2>1, <2>2 DEF Edge, AllParts
    <3>2. ServerInv'
      BY <1>2, <2>1, <2>2 DEF ServerInv
    <3>3. \A a \in 0 .. AllParts : InFlight(a) => InFlight(a)'
      BY <2>1, <2>2, <3>1, ServerQuiet
    <3>4. QED
      BY <1>2, <1>3, <2>1, <2>2, <3>2, <3>3, ServerMoves DEF Servers
  <2>3. ASSUME enc.pending = << >>, enc.finished, srv' = "done", Streams!CloseEncoded,
               conn' = IF conn = "open" THEN "ended" ELSE conn
        PROVE  StreamsInv'
    <3>1. /\ enc' \in Encoders /\ enc'.pending = << >> /\ enc'.finished = enc.finished
          /\ nat' \in Natives /\ nat'.next = nat.next
      BY <2>3, CloseEncodedIs
    <3>2. ServerInv'
      BY <1>2, <2>1, <2>3, <3>1 DEF ServerInv
    <3>3. \A a \in 0 .. AllParts : InFlight(a) => InFlight(a)'
      BY <2>1, <2>3, ServerQuiet
    <3>4. srv' \in Servers /\ conn' \in Conns
      BY <1>3, <2>3 DEF Servers, Conns
    <3>5. QED
      BY <1>2, <1>3, <1>4, <2>1, <2>3, <3>1, <3>2, <3>3, <3>4, ServerMoves
  <2>4. QED
    BY <1>8, <2>2, <2>3 DEF Streams!EncodeNext
<1>9. CASE Streams!SendChunk
  <2>1. /\ srv = "send" /\ srv' = "next" /\ conn = "open"
        /\ wire' = Append(wire, Head(enc.pending)) /\ enc' = [enc EXCEPT !.pending = Tail(@)]
        /\ UNCHANGED <<mode, len, nat, conn, cli, chunk, dec, strm, sess, got, outcome>>
    BY <1>9 DEF Streams!SendChunk
  <2>2. enc.pending # << >>
    BY <1>2, <2>1 DEF ServerInv
  <2>3. Head(enc.pending) \in WireParts /\ Tail(enc.pending) \in Seq(WireParts)
    BY <1>3, <2>2, HeadTailProperties
  <2>4. wire' \in Seq(WireParts) /\ enc' \in Encoders /\ enc'.pending = Tail(enc.pending) /\ enc'.finished = enc.finished
    <3>1. wire' \in Seq(WireParts)
      BY <1>3, <2>1, <2>3, AppendProperties
    <3> DEFINE t == Tail(enc.pending)
    <3>2. t \in Seq(WireParts) /\ enc' = [enc EXCEPT !.pending = t]
      BY <2>1, <2>3
    <3> HIDE DEF t
    <3>3. enc' \in Encoders /\ enc'.pending = t /\ enc'.finished = enc.finished
      BY <1>3, <3>2 DEF Encoders
    <3>4. QED
      BY <3>1, <3>3 DEF t
  <2>5. Edge' = Edge /\ Edge <= AllParts
    BY <1>3, <2>1, <2>4 DEF Edge, AllParts
  <2>6. ServerInv'
    BY <1>2, <2>1, <2>4 DEF ServerInv
  <2>7. \A a \in 0 .. AllParts : InFlight(a) => InFlight(a)'
    BY <2>1, <2>2, <2>4, <2>5, EncoderSends
  <2>8. QED
    BY <1>2, <1>3, <1>4, <2>1, <2>4, <2>6, <2>7, ServerMoves DEF Servers
<1>10. CASE Streams!EncodeRead
  <2>1. /\ srv = "read" /\ srv' = "write" /\ nat.next <= len /\ nat' = [nat EXCEPT !.next = @ + 1]
        /\ UNCHANGED <<mode, len, enc, wire, conn, cli, chunk, dec, strm, sess, got, outcome>>
    BY <1>10 DEF Streams!EncodeRead, Streams!PollBatch
  <2>2. /\ nat' \in Natives /\ nat'.next = nat.next + 1 /\ nat'.st = nat.st /\ nat'.cancelled = nat.cancelled
    BY <1>3, <2>1 DEF Natives
  <2>3. ~enc.finished
    BY <1>2, <2>1 DEF ServerInv
  <2>4. Edge' = Edge
    BY <1>3, <2>1, <2>2, <2>3 DEF Edge
  <2>5. ServerInv'
    BY <1>2, <2>1, <2>2 DEF ServerInv
  <2>6. \A a \in 0 .. AllParts : InFlight(a) => InFlight(a)'
    BY <2>1, <2>4, ServerQuiet
  <2>7. QED
    BY <1>2, <1>3, <2>1, <2>2, <2>5, <2>6, ServerMoves DEF Servers
<1>11. CASE Streams!EncodeWrite
  <2> DEFINE f == nat.next - 1
  <2>1. /\ srv = "write" /\ srv' = "next" /\ enc' = [enc EXCEPT !.pending = @ \o Streams!Parts(f)]
        /\ UNCHANGED <<mode, len, nat, wire, conn, cli, chunk, dec, strm, sess, got, outcome>>
    BY <1>11 DEF Streams!EncodeWrite
  <2>2. enc.pending = << >> /\ ~enc.finished
    BY <1>2, <2>1 DEF ServerInv
  <2>3. f \in 0 .. MaxBatches + 1 /\ 2 * nat.next - 2 = 2 * f /\ 2 * nat.next = 2 * f + 2
    BY <1>3
  <2> HIDE DEF f
  <2>4. Streams!Parts(f) \in Seq(WireParts) /\ Len(Streams!Parts(f)) = 2
    BY <2>3, FrameFollows
  <2>5. << >> \o Streams!Parts(f) = Streams!Parts(f)
    BY <2>4, ConcatEmptySeq
  <2>6. enc' \in Encoders /\ enc'.pending = Streams!Parts(f) /\ enc'.finished = enc.finished
    <3>1. enc' = [enc EXCEPT !.pending = Streams!Parts(f)]
      BY <1>3, <2>1, <2>2, <2>5
    <3>2. QED
      BY <1>3, <2>4, <3>1 DEF Encoders
  <2>7. Edge = 2 * f /\ Edge' = 2 * f + 2
    BY <2>1, <2>2, <2>3, <2>6 DEF Edge
  <2>8. ServerInv'
    BY <1>2, <2>1, <2>2, <2>6 DEF ServerInv
  <2>9. \A a \in 0 .. AllParts : InFlight(a) => InFlight(a)'
    BY <2>1, <2>2, <2>3, <2>6, <2>7, EncoderWrites
  <2>10. QED
    BY <1>2, <1>3, <2>1, <2>6, <2>8, <2>9, ServerMoves DEF Servers
<1>12. CASE Streams!EncodeFinish
  <2> DEFINE f == len + 1
  <2>1. /\ srv = "read" /\ srv' = "next" /\ Streams!PollEnd
        /\ enc' = [enc EXCEPT !.finished = TRUE, !.pending = @ \o Streams!Parts(f)]
        /\ UNCHANGED <<mode, len, wire, conn, cli, chunk, dec, strm, sess, got, outcome>>
    BY <1>12 DEF Streams!EncodeFinish
  <2>2. enc.pending = << >> /\ ~enc.finished /\ nat.st = "open" /\ ~nat.cancelled
    BY <1>2, <2>1 DEF ServerInv
  <2>3. nat.next = len + 1 /\ nat' = Streams!Finished(nat)
    BY <1>3, <2>1, <2>2 DEF Streams!PollEnd
  <2>4. f \in 0 .. MaxBatches + 1 /\ 2 * nat.next = 2 * f /\ AllParts = 2 * f + 2
    BY <1>3, <2>3 DEF AllParts
  <2> HIDE DEF f
  <2>5. Streams!Parts(f) \in Seq(WireParts) /\ Len(Streams!Parts(f)) = 2
    BY <2>4, FrameFollows
  <2>6. << >> \o Streams!Parts(f) = Streams!Parts(f)
    BY <2>5, ConcatEmptySeq
  <2>7. enc' \in Encoders /\ enc'.pending = Streams!Parts(f) /\ enc'.finished
    <3>1. enc' = [enc EXCEPT !.finished = TRUE, !.pending = Streams!Parts(f)]
      BY <1>3, <2>1, <2>2, <2>6
    <3>2. QED
      BY <1>3, <2>5, <3>1 DEF Encoders
  <2>8. Edge = 2 * f /\ Edge' = 2 * f + 2
    BY <2>1, <2>2, <2>4, <2>7 DEF Edge, AllParts
  <2>9. nat' \in Natives /\ nat'.next = nat.next
    BY <1>3, <2>3, FinishedIs
  <2>10. ServerInv'
    BY <1>2, <2>1, <2>2, <2>7 DEF ServerInv
  <2>11. \A a \in 0 .. AllParts : InFlight(a) => InFlight(a)'
    BY <2>1, <2>2, <2>4, <2>7, <2>8, EncoderWrites
  <2>12. QED
    BY <1>2, <1>3, <2>1, <2>7, <2>9, <2>10, <2>11, ServerMoves DEF Servers
<1>13. CASE Streams!EncodeFails
  <2>1. /\ srv \in {"read", "write"} /\ srv' = "done" /\ conn' = IF conn = "open" THEN "broken" ELSE conn
        /\ UNCHANGED <<mode, len, wire, cli, chunk, dec, strm, sess, got, outcome>>
    BY <1>13 DEF Streams!EncodeFails
  <2>2. /\ enc' \in Encoders /\ enc'.pending = << >> /\ enc'.finished = enc.finished
        /\ nat' \in Natives /\ nat'.next = nat.next
    <3>1. CASE Streams!PollError /\ enc' = Streams!EncClosed(enc)
      BY <1>3, <3>1, EncClosedIs, FinishedIs DEF Streams!PollError
    <3>2. CASE Streams!CloseEncoded
      BY <3>2, CloseEncodedIs
    <3>3. QED
      BY <1>13, <3>1, <3>2 DEF Streams!EncodeFails
  <2>3. ServerInv'
    BY <1>2, <2>1, <2>2 DEF ServerInv
  <2>4. \A a \in 0 .. AllParts : InFlight(a) => InFlight(a)'
    BY <2>1, ServerQuiet
  <2>5. srv' \in Servers /\ conn' \in Conns
    BY <1>3, <2>1 DEF Servers, Conns
  <2>6. QED
    BY <1>2, <1>3, <1>4, <2>1, <2>2, <2>3, <2>4, <2>5, ServerMoves
<1>14. CASE Streams!ServerDisconnect
  <2>1. /\ srv \in {"next", "send", "read", "write"} /\ srv' = "done" /\ conn \in {"broken", "closed"} /\ conn' = conn
        /\ UNCHANGED <<mode, len, wire, cli, chunk, dec, strm, sess, got, outcome>> /\ Streams!CloseEncoded
    BY <1>14 DEF Streams!ServerDisconnect
  <2>2. /\ enc' \in Encoders /\ enc'.pending = << >> /\ enc'.finished = enc.finished
        /\ nat' \in Natives /\ nat'.next = nat.next
    BY <2>1, CloseEncodedIs
  <2>3. ServerInv'
    BY <1>2, <2>1, <2>2 DEF ServerInv
  <2>4. \A a \in 0 .. AllParts : InFlight(a) => InFlight(a)'
    BY <2>1, ServerQuiet
  <2>5. QED
    BY <1>2, <1>3, <2>1, <2>2, <2>3, <2>4, ServerMoves DEF Servers
<1>15. CASE Streams!EncodeRefused
  <2>1. /\ srv = "start" /\ srv' = "done" /\ conn' = IF conn = "open" THEN "refused" ELSE conn
        /\ nat' = Streams!Finished(nat)
        /\ UNCHANGED <<mode, len, enc, wire, cli, chunk, dec, strm, sess, got, outcome>>
    BY <1>15 DEF Streams!EncodeRefused
  <2>2. srv' \in Servers /\ conn' \in Conns /\ nat' \in Natives /\ nat'.next = nat.next
    BY <1>3, <2>1, FinishedIs DEF Conns, Servers
  <2>3. ServerInv'
    BY <1>2, <2>1, <2>2 DEF ServerInv
  <2>4. \A a \in 0 .. AllParts : InFlight(a) => InFlight(a)'
    BY <2>1, ServerQuiet
  <2>5. QED
    BY <1>2, <1>3, <1>4, <2>1, <2>2, <2>3, <2>4, ServerMoves
<1>16. QED
  BY <1>5, <1>6, <1>7, <1>8, <1>9, <1>10, <1>11, <1>12, <1>13, <1>14, <1>15 DEF Streams!Serve

\* In the process: nothing is on a wire.
LEMMA EmbeddedMoves ==
    ASSUME StreamsInv, mode = "embedded", UNCHANGED <<mode, len, srv, enc, wire, conn, chunk, dec>>,
           nat' \in Natives, cli' \in Clients, strm' \in StreamRecords, sess' \in Sessions,
           got' \in Seq(1 .. MaxBatches), outcome' \in Outcomes, GotInv', EmbeddedInv'
    PROVE  StreamsInv'
<1>1. StreamTypes'
  BY DEF StreamsInv, StreamTypes
<1>2. ServerInv' /\ PointInv' /\ ReadInv'
  BY DEF ServerInv, PointInv, ReadInv
<1>3. QED
  BY <1>1, <1>2 DEF StreamsInv

\* The consumer is handed the batch after the last one it has.
LEMMA GotGrows ==
    ASSUME StreamTypes, GotInv, Len(got) < len, got' = Append(got, Len(got) + 1)
    PROVE  /\ got' \in Seq(1 .. MaxBatches) /\ Len(got') = Len(got) + 1
           /\ \A i \in 1 .. Len(got') : got'[i] = i
<1> DEFINE k == Len(got) + 1
<1>1. k \in 1 .. MaxBatches /\ got \in Seq(1 .. MaxBatches) /\ Len(got) \in Nat
  BY StreamConstants DEF StreamTypes
<1>2. /\ got' \in Seq(1 .. MaxBatches) /\ Len(got') = Len(got) + 1
      /\ \A i \in 1 .. Len(got) : got'[i] = got[i]
      /\ got'[Len(got) + 1] = k
  BY <1>1, AppendProperties
<1>3. \A i \in 1 .. Len(got) + 1 : i \in 1 .. Len(got) \/ i = k
  BY <1>1
<1>4. QED
  BY <1>2, <1>3 DEF GotInv

\* The consumer that reads the native stream in its own process.
LEMMA EmbeddedSteps ==
    ASSUME StreamsInv, mode = "embedded",
           \/ Streams!Stream \/ Streams!StreamOpensNative \/ Streams!ResultNext
           \/ Streams!NativeBatch \/ Streams!NativeEnd \/ Streams!NativeError
    PROVE  StreamsInv'
<1> USE DEF StreamsInv, Streams!server
<1>1. /\ nat \in Natives /\ strm \in StreamRecords /\ got \in Seq(1 .. MaxBatches) /\ Len(got) \in Nat
      /\ len \in Nat /\ nat.next \in Nat /\ sess \in Sessions /\ outcome \in Outcomes /\ cli \in Clients
  BY StreamConstants DEF StreamTypes, Natives
<1>2. CASE Streams!Stream
  <2>1. cli = "new" /\ cli' = "open" /\ UNCHANGED <<mode, len, nat, srv, enc, wire, conn, chunk, dec, strm, sess, got, outcome>>
    BY <1>2 DEF Streams!Stream
  <2>2. GotInv' /\ EmbeddedInv'
    BY <2>1 DEF GotInv, EmbeddedInv
  <2>3. QED
    BY <1>1, <2>1, <2>2, EmbeddedMoves DEF Clients
<1>3. CASE Streams!StreamOpensNative
  <2>1. cli = "open" /\ UNCHANGED <<mode, len, srv, enc, wire, conn, chunk, dec, sess, got>>
    BY <1>3 DEF Streams!StreamOpensNative
  <2>2. CASE nat' = [nat EXCEPT !.st = "open"] /\ Streams!Opened /\ cli' = "ready" /\ UNCHANGED outcome
    <3>1. nat' \in Natives /\ nat'.next = nat.next /\ nat'.st = "open" /\ nat'.cancelled = nat.cancelled
      BY <1>1, <2>2 DEF Natives
    <3>2. strm' \in StreamRecords /\ ~strm'.closed
      BY <2>2 DEF Streams!Opened, StreamRecords
    <3>3. GotInv' /\ EmbeddedInv'
      BY <2>1, <2>2, <3>1, <3>2 DEF GotInv, EmbeddedInv
    <3>4. QED
      BY <1>1, <2>1, <2>2, <3>1, <3>2, <3>3, EmbeddedMoves DEF Clients
  <2>3. CASE cli' = "done" /\ outcome' = "error" /\ UNCHANGED <<nat, strm>>
    <3>1. GotInv' /\ EmbeddedInv'
      BY <2>1, <2>3 DEF GotInv, EmbeddedInv
    <3>2. QED
      BY <1>1, <2>1, <2>3, <3>1, EmbeddedMoves DEF Clients, Outcomes
  <2>4. QED
    BY <1>3, <2>2, <2>3 DEF Streams!StreamOpensNative
<1>4. CASE Streams!ResultNext
  <2>1. cli = "ready" /\ cli' = "native" /\ UNCHANGED <<mode, len, nat, srv, enc, wire, conn, chunk, dec, strm, sess, got, outcome>>
    BY <1>4 DEF Streams!ResultNext
  <2>2. GotInv' /\ EmbeddedInv'
    BY <2>1 DEF GotInv, EmbeddedInv
  <2>3. QED
    BY <1>1, <2>1, <2>2, EmbeddedMoves DEF Clients
<1>5. CASE Streams!NativeBatch
  <2>1. /\ cli = "native" /\ cli' = "ready" /\ nat.next <= len /\ nat' = [nat EXCEPT !.next = @ + 1]
        /\ got' = Append(got, nat.next) /\ UNCHANGED <<mode, len, srv, enc, wire, conn, chunk, dec, strm, sess, outcome>>
    BY <1>5 DEF Streams!NativeBatch, Streams!PollBatch
  <2>2. nat.next = Len(got) + 1
    BY <1>1 DEF EmbeddedInv
  <2>3. /\ nat' \in Natives /\ nat'.next = nat.next + 1 /\ nat'.st = nat.st /\ nat'.cancelled = nat.cancelled
    <3>1. nat.next + 1 \in 1 .. MaxBatches + 1
      BY <1>1, <2>1, StreamConstants DEF StreamTypes
    <3>2. QED
      BY <1>1, <2>1, <3>1 DEF Natives
  <2>4. /\ got' \in Seq(1 .. MaxBatches) /\ Len(got') = Len(got) + 1 /\ \A i \in 1 .. Len(got') : got'[i] = i
    <3>1. Len(got) < len /\ got' = Append(got, Len(got) + 1)
      BY <1>1, <2>1, <2>2
    <3>2. QED
      BY <3>1, GotGrows
  <2>5. outcome = "none"
    BY <2>1 DEF GotInv
  <2>6. GotInv' /\ EmbeddedInv'
    BY <1>1, <2>1, <2>2, <2>3, <2>4, <2>5 DEF GotInv, EmbeddedInv
  <2>7. QED
    BY <1>1, <2>1, <2>3, <2>4, <2>6, EmbeddedMoves DEF Clients
<1>6. CASE Streams!NativeEnd
  <2>1. /\ cli = "native" /\ cli' = "done" /\ outcome' = "complete" /\ Streams!PollEnd
        /\ strm' = [strm EXCEPT !.closed = TRUE, !.tracked = FALSE]
        /\ UNCHANGED <<mode, len, srv, enc, wire, conn, chunk, dec, sess, got>>
    BY <1>6 DEF Streams!NativeEnd
  <2>2. nat' \in Natives /\ nat'.next = nat.next /\ strm' \in StreamRecords
    BY <1>1, <2>1, FinishedIs DEF Streams!PollEnd, StreamRecords
  <2>3. sess = "open" => Len(got) = len
    <3>1. sess = "open" => nat.st = "open" /\ ~nat.cancelled
      BY <2>1 DEF EmbeddedInv
    <3>2. sess = "open" => nat.next > len
      BY <2>1, <3>1 DEF Streams!PollEnd
    <3>3. Len(got) = nat.next - 1 /\ Len(got) <= len
      BY DEF EmbeddedInv, GotInv
    <3>4. QED
      BY <1>1, <3>2, <3>3
  <2>4. GotInv' /\ EmbeddedInv'
    BY <2>1, <2>2, <2>3 DEF GotInv, EmbeddedInv
  <2>5. QED
    BY <1>1, <2>1, <2>2, <2>4, EmbeddedMoves DEF Clients, Outcomes
<1>7. CASE Streams!NativeError
  <2>1. /\ cli = "native" /\ cli' = "done" /\ outcome' = "error" /\ Streams!PollError
        /\ strm' = [strm EXCEPT !.closed = TRUE, !.tracked = FALSE]
        /\ UNCHANGED <<mode, len, srv, enc, wire, conn, chunk, dec, sess, got>>
    BY <1>7 DEF Streams!NativeError
  <2>2. nat' \in Natives /\ nat'.next = nat.next /\ strm' \in StreamRecords
    BY <1>1, <2>1, FinishedIs DEF Streams!PollError, StreamRecords
  <2>3. GotInv' /\ EmbeddedInv'
    BY <2>1, <2>2 DEF GotInv, EmbeddedInv
  <2>4. QED
    BY <1>1, <2>1, <2>2, <2>3, EmbeddedMoves DEF Clients, Outcomes
<1>8. QED
  BY <1>2, <1>3, <1>4, <1>5, <1>6, <1>7

\* Over HTTP: what the server holds stays.
LEMMA ClientMoves ==
    ASSUME StreamsInv, mode = "remote", UNCHANGED <<mode, len, nat, srv, enc, conn, sess, outcome>>,
           cli \notin {"new", "done"}, cli' \in Clients \ {"new", "done"},
           wire' \in Seq(WireParts), chunk' \in Seq(WireParts), dec' \in Decoders, strm' \in StreamRecords,
           got' \in Seq(1 .. MaxBatches), strm'.closed => strm.closed,
           Len(got') <= len, \A i \in 1 .. Len(got') : got'[i] = i, PointInv', ReadInv'
    PROVE  StreamsInv'
<1> USE DEF StreamsInv
<1>1. StreamTypes'
  BY DEF StreamTypes
<1>2. outcome = "none"
  BY DEF GotInv
<1>3. GotInv'
  BY <1>2 DEF GotInv
<1>4. ServerInv' /\ EmbeddedInv'
  BY DEF ServerInv, EmbeddedInv
<1>5. QED
  BY <1>1, <1>3, <1>4

\* Where the parts are, when the client moves them on.
LEMMA FlightMoves ==
    ASSUME StreamsInv, NEW a \in 0 .. AllParts, InFlight(a), UNCHANGED <<len, nat, srv, enc, conn>>,
           NEW e \in 0 .. AllParts, chunk' \in Seq(WireParts), dec'.buf \in Seq(WireParts), wire' \in Seq(WireParts),
           Follow(dec'.buf, e), Follow(chunk', e + Len(dec'.buf)), Follow(wire', e + Len(dec'.buf) + Len(chunk')),
           e + Len(dec'.buf) + Len(chunk') + Len(wire') = a + Len(dec.buf) + Len(chunk) + Len(wire)
    PROVE  InFlight(e)'
<1>1. AllParts' = AllParts /\ Edge' = Edge
  BY DEF AllParts, Edge
<1> DEFINE w == a + Len(dec.buf) + Len(chunk) + Len(wire)
<1>2. conn = "open" => Follow(enc.pending, w) /\ w + Len(enc.pending) = Edge
  BY DEF InFlight
<1>3. conn = "ended" => w = AllParts
  BY DEF InFlight
<1>4. w <= AllParts
  BY DEF InFlight
<1>5. e + Len(dec'.buf) + Len(chunk') + Len(wire') = w
  OBVIOUS
<1> HIDE DEF w
<1>6. QED
  BY <1>1, <1>2, <1>3, <1>4, <1>5 DEF InFlight

\* The decoder takes the chunk: all of it, or up to the end of the next batch.
LEMMA PushStep ==
    ASSUME StreamsInv, Streams!PushChunk
    PROVE  StreamsInv'
<1> USE DEF StreamsInv, Streams!server
<1> DEFINE total == dec.buf \o chunk
           r == Streams!Decode(total)
           d == [dec EXCEPT !.schema = @ \/ r.schema, !.pending = @ \o r.batch, !.buf = r.rest, !.partial = r.partial]
           k == Streams!Resume(d, conn = "closed")
           n == Len(got)
<1>1. /\ cli = "push" /\ chunk' = << >> /\ cli' = k
      /\ IF k = "ready" THEN Streams!Return(d) ELSE dec' = d /\ UNCHANGED <<got, strm>>
      /\ UNCHANGED <<mode, len, nat, srv, enc, wire, conn, sess, outcome>>
  BY DEF Streams!PushChunk
<1>2. mode = "remote"
  BY <1>1 DEF EmbeddedInv, StreamTypes
<1>3. /\ dec \in Decoders /\ chunk \in Seq(WireParts) /\ wire \in Seq(WireParts) /\ dec.buf \in Seq(WireParts)
      /\ got \in Seq(1 .. MaxBatches) /\ n \in Nat /\ len \in Nat /\ len <= MaxBatches /\ MaxBatches \in Nat
      /\ strm \in StreamRecords
  BY StreamConstants DEF StreamTypes, Decoders
<1>4. dec.pending = << >> /\ n <= len /\ \A i \in 1 .. n : got[i] = i
  BY <1>1, <1>2 DEF PointInv, GotInv
<1>5. PICK a \in 0 .. AllParts : Decoded(a) /\ InFlight(a)
  BY <1>1, <1>2 DEF ReadInv, Reading
<1>6. a \in Nat /\ (n > 0 => a >= 2 * n + 2) /\ (n < len => a <= 2 * n + 3)
  BY <1>3, <1>4, <1>5 DEF Decoded, AllParts
<1>7. total \in Seq(WireParts) /\ Len(total) = Len(dec.buf) + Len(chunk) /\ Follow(total, a)
  <2>1. Follow(dec.buf, a) /\ Follow(chunk, a + Len(dec.buf))
    BY <1>5 DEF InFlight
  <2>2. QED
    BY <1>3, <1>6, <2>1, FollowParts, ConcatProperties
<1>70. n = Len(got) /\ n \in 0 .. len
  BY <1>3, <1>4
<1> HIDE DEF total, n
<1>80. /\ Streams!Decode(total).schema \in BOOLEAN /\ Streams!Decode(total).partial \in BOOLEAN
       /\ \E m \in 0 .. Len(total) :
             /\ Streams!Decode(total).rest = SubSeq(total, m + 1, Len(total))
             /\ \/ /\ Streams!Decode(total).batch = << >> /\ m = Len(total)
                   /\ n < len => a + m <= 2 * n + 3
                \/ n < len /\ Streams!Decode(total).batch = <<n + 1>> /\ a + m = 2 * n + 4
  <2>1. /\ total \in Seq(WireParts) /\ a \in Nat /\ Follow(total, a) /\ len \in Nat /\ n \in 0 .. len
        /\ n > 0 => a >= 2 * n + 2
        /\ n < len => a <= 2 * n + 3
    BY <1>3, <1>6, <1>7, <1>70
  <2>2. QED
    BY <2>1, DecodeIs, Zenon
<1>8. r.schema \in BOOLEAN /\ r.partial \in BOOLEAN
  BY <1>80
<1>9. PICK m \in 0 .. Len(total) :
         /\ r.rest = SubSeq(total, m + 1, Len(total))
         /\ \/ /\ r.batch = << >> /\ m = Len(total)
               /\ n < len => a + m <= 2 * n + 3
            \/ n < len /\ r.batch = <<n + 1>> /\ a + m = 2 * n + 4
  BY <1>80
<1> HIDE DEF r
<1>10. /\ r.rest \in Seq(WireParts) /\ Len(r.rest) = Len(total) - m /\ Follow(r.rest, a + m)
       /\ Len(total) \in Nat /\ m \in Nat /\ m <= Len(total)
  <2>1. a \in Int
    BY <1>6
  <2>2. /\ SubSeq(total, m + 1, Len(total)) \in Seq(WireParts)
        /\ Len(SubSeq(total, m + 1, Len(total))) = Len(total) - m
        /\ Follow(SubSeq(total, m + 1, Len(total)), a + m)
    BY <1>7, <2>1, CutFollows
  <2>3. Len(total) \in Nat
    BY <1>7, LenProperties
  <2>4. QED
    BY <1>9, <2>2, <2>3
<1>11. r.batch \in Seq(1 .. MaxBatches) /\ (r.batch = << >> \/ (r.batch = <<n + 1>> /\ n < len))
  <2>1. n < len => n + 1 \in 1 .. MaxBatches
    BY <1>3, <1>70
  <2>2. n < len => <<n + 1>> \in Seq(1 .. MaxBatches)
    BY <2>1
  <2>3. << >> \in Seq(1 .. MaxBatches)
    OBVIOUS
  <2>4. QED
    BY <1>9, <2>2, <2>3
<1>12. << >> \o r.batch = r.batch
  BY <1>11, ConcatEmptySeq
<1>13. d \in Decoders /\ d.pending = r.batch /\ d.buf = r.rest
  BY <1>3, <1>4, <1>8, <1>10, <1>11, <1>12 DEF Decoders
<1> HIDE DEF d
\* The parts that are left, whatever of d the client keeps.
<1>14. a + m \in 0 .. AllParts
  <2>1. a + Len(dec.buf) + Len(chunk) + Len(wire) <= AllParts
    BY <1>5 DEF InFlight
  <2>2. Len(dec.buf) \in Nat /\ Len(chunk) \in Nat /\ Len(wire) \in Nat /\ AllParts \in Nat
    BY <1>3, LenProperties DEF AllParts
  <2>3. QED
    BY <1>6, <1>7, <1>10, <2>1, <2>2
<1>15. ASSUME dec'.buf = d.buf PROVE InFlight(a + m)'
  <2>1. Follow(wire, a + Len(dec.buf) + Len(chunk))
    BY <1>5 DEF InFlight
  <2>2. Len(dec.buf) \in Nat /\ Len(chunk) \in Nat /\ Len(wire) \in Nat /\ Len(<< >>) = 0
    BY <1>3, LenProperties
  <2>3. (a + m) + Len(r.rest) = a + Len(dec.buf) + Len(chunk)
    <3>1. Len(r.rest) = (Len(dec.buf) + Len(chunk)) - m
      BY <1>7, <1>10
    <3>2. a \in Int /\ m \in Int /\ Len(dec.buf) \in Int /\ Len(chunk) \in Int
      BY <1>6, <1>10, <2>2
    <3>3. PICK p \in Int : p = Len(dec.buf)
      BY <3>2
    <3>4. PICK q \in Int : q = Len(chunk)
      BY <3>2
    <3>5. PICK x \in Int : x = Len(r.rest)
      <4>1. Len(r.rest) \in Nat
        BY <1>10, LenProperties
      <4>2. QED
        BY <4>1
    <3>6. x = (p + q) - m
      BY <3>1, <3>3, <3>4, <3>5, Zenon
    <3>7. (a + m) + x = a + p + q
      BY <3>2, <3>6
    <3>8. QED
      BY <3>3, <3>4, <3>5, <3>7, Zenon
  <2>4. (a + m) + Len(r.rest) + 0 = a + Len(dec.buf) + Len(chunk)
    BY <1>6, <1>10, <2>2, <2>3
  <2>5. << >> \in Seq(WireParts) /\ Follow(<< >>, (a + m) + Len(r.rest))
    <3>1. << >> \in Seq(WireParts)
      OBVIOUS
    <3>2. QED
      BY <3>1, FollowNothing, Zenon
  <2>6. /\ dec'.buf = r.rest /\ chunk' = << >> /\ wire' = wire
    BY <1>1, <1>13, <1>15
  <2>7. QED
    BY <1>1, <1>3, <1>5, <1>10, <1>14, <2>1, <2>2, <2>4, <2>5, <2>6, FlightMoves
<1>16. AllParts' = AllParts /\ 1 \in Nat
  BY <1>1 DEF AllParts
<1>17. cli' \in {"ready", "push", "chunk", "finish"}
  BY <1>1 DEF Streams!Resume
<1>18. << >> \in Seq(WireParts) /\ << >> \in Seq(1 .. MaxBatches) /\ Len(<< >>) = 0
  OBVIOUS
<1>19. CASE k = "ready" /\ strm.live
  <2>1. d.pending = <<n + 1>> /\ n < len /\ a + m = 2 * n + 4
    BY <1>9, <1>11, <1>13, <1>19 DEF Streams!Resume
  <2>2. /\ got' = Append(got, Head(d.pending)) /\ dec' = [d EXCEPT !.pending = Tail(@)] /\ UNCHANGED strm
    BY <1>1, <1>19 DEF Streams!Return
  <2>3. Head(d.pending) = n + 1 /\ Tail(d.pending) = << >>
    BY <1>3, <2>1
  <2>4. dec' \in Decoders /\ dec'.pending = << >> /\ dec'.buf = d.buf
    BY <1>13, <1>18, <2>2, <2>3 DEF Decoders
  <2>5. /\ got' \in Seq(1 .. MaxBatches) /\ Len(got') = n + 1 /\ \A i \in 1 .. Len(got') : got'[i] = i
    BY <1>70, <2>1, <2>2, <2>3, GotGrows
  <2>6. PointInv'
    BY <1>1, <1>19, <2>2 DEF PointInv
  <2>7. Decoded(a + m)'
    BY <1>70, <1>1, <1>3, <1>18, <2>1, <2>4, <2>5 DEF Decoded
  <2>8. ReadInv'
    BY <1>14, <1>15, <1>16, <2>4, <2>7 DEF ReadInv
  <2>9. Len(got') <= len
    BY <1>3, <1>70, <2>1, <2>5
  <2>10. /\ cli \notin {"new", "done"} /\ cli' \in Clients \ {"new", "done"}
         /\ strm' \in StreamRecords /\ strm' = strm
    BY <1>1, <1>3, <1>17, <2>2 DEF Clients
  <2>11. QED
    BY <1>1, <1>2, <1>3, <1>18, <2>4, <2>5, <2>6, <2>8, <2>9, <2>10, ClientMoves
<1>20. CASE k # "ready" \/ ~strm.live
  <2>1. dec' = d /\ got' = got
    BY <1>1, <1>20 DEF Streams!Return
  <2>2. /\ strm' \in StreamRecords /\ (strm'.closed => strm.closed)
        /\ k = "ready" => strm'.live
    <3>1. CASE k = "ready"
      <4>1. strm' = [live |-> TRUE, closed |-> FALSE, tracked |-> TRUE]
        <5>1. ~strm.live /\ Streams!Return(d)
          BY <1>1, <1>20, <3>1
        <5>2. QED
          BY <5>1 DEF Streams!Return, Streams!Opened
      <4>2. QED
        BY <4>1 DEF StreamRecords
    <3>2. CASE k # "ready"
      BY <1>1, <1>3, <3>2
    <3>3. QED
      BY <3>1, <3>2
  <2>3. k # "ready" => d.pending = << >>
    BY DEF Streams!Resume
  <2>4. k \in {"chunk", "finish"} => d.buf = << >>
    BY DEF Streams!Resume
  <2>5. k = "finish" => conn = "closed"
    BY DEF Streams!Resume
  <2>6. conn = "closed" => sess # "open"
    BY <1>1 DEF GotInv
  <2> HIDE DEF k
  <2>7. PointInv'
    BY <1>1, <1>17, <2>1, <2>2, <2>3, <2>4, <2>5, <2>6 DEF PointInv
  <2>8. Decoded(a + m)'
    <3>1. CASE r.batch = << >> /\ (n < len => a + m <= 2 * n + 3)
      <4>1. dec'.pending = << >> /\ got' = got /\ len' = len
        BY <1>1, <1>13, <2>1, <3>1
      <4>2. n > 0 => a + m >= 2 * n + 2
        BY <1>3, <1>6, <1>10
      <4>3. QED
        BY <1>70, <1>3, <1>4, <1>18, <3>1, <4>1, <4>2 DEF Decoded
    <3>2. CASE n < len /\ r.batch = <<n + 1>> /\ a + m = 2 * n + 4
      <4>1. dec'.pending = <<n + 1>> /\ got' = got /\ len' = len
        BY <1>1, <1>13, <2>1, <3>2
      <4>2. Len(<<n + 1>>) = 1
        OBVIOUS
      <4>3. QED
        BY <1>70, <1>3, <3>2, <4>1, <4>2 DEF Decoded
    <3>3. QED
      BY <1>9, <3>1, <3>2
  <2>9. ReadInv'
    BY <1>14, <1>15, <1>16, <2>1, <2>8 DEF ReadInv
  <2>10. QED
    BY <1>70, <1>1, <1>2, <1>3, <1>4, <1>13, <1>17, <1>18, <2>1, <2>2, <2>7, <2>9, ClientMoves DEF Clients
<1>21. QED
  BY <1>19, <1>20

\* A request of the remote transport: nothing is in flight.
LEMMA RequestStep ==
    ASSUME StreamsInv, mode = "remote", Streams!Stream
    PROVE  StreamsInv'
<1> USE DEF StreamsInv
<1>1. /\ cli = "new" /\ cli' = "request" /\ srv' = "plan" /\ conn' = "open"
      /\ UNCHANGED <<mode, len, nat, enc, wire, chunk, dec, strm, sess, got, outcome>>
  BY DEF Streams!Stream
<1>2. srv = "idle"
  BY <1>1 DEF ServerInv
<1>3. /\ enc.pending = << >> /\ ~enc.finished /\ nat.next = 1 /\ ~nat.cancelled /\ wire = << >> /\ chunk = << >>
      /\ dec.buf = << >> /\ dec.pending = << >> /\ got = << >>
  BY <1>2 DEF ServerInv
<1>4. StreamTypes'
  BY <1>1 DEF StreamTypes, Servers, Conns, Clients
<1>5. GotInv' /\ EmbeddedInv'
  BY <1>1 DEF GotInv, EmbeddedInv
<1>6. ServerInv' /\ PointInv'
  BY <1>1, <1>3 DEF ServerInv, PointInv
<1>7. ReadInv'
  <2>1. len' = len /\ len \in Nat /\ Len(<< >>) = 0
    BY <1>1, StreamConstants DEF StreamTypes
  <2>2. Edge' = 0 /\ AllParts' \in Nat
    BY <1>1, <1>3, <2>1 DEF Edge, AllParts
  <2>3. Decoded(0)'
    BY <1>1, <1>3, <2>1 DEF Decoded
  <2>4. \A e : Follow(<< >>, e)
    BY FollowNothing
  <2>5. InFlight(0)'
    BY <1>1, <1>3, <2>1, <2>2, <2>4 DEF InFlight
  <2>6. 0 \in (0 .. AllParts)'
    BY <2>2
  <2>7. QED
    BY <2>3, <2>5, <2>6 DEF ReadInv
<1>8. QED
  BY <1>4, <1>5, <1>6, <1>7

\* The client's bytes stay where they are: only what it waits for changes.
LEMMA ClientWaits ==
    ASSUME StreamsInv, mode = "remote", Reading, cli' \in Clients \ {"new", "done"}, PointInv',
           UNCHANGED <<mode, len, nat, srv, enc, wire, conn, chunk, dec, strm, sess, got, outcome>>
    PROVE  StreamsInv'
<1> USE DEF StreamsInv
<1>1. PICK a \in 0 .. AllParts : Decoded(a) /\ InFlight(a)
  BY DEF ReadInv
<1>2. Decoded(a)' /\ AllParts' = AllParts /\ Edge' = Edge
  BY <1>1 DEF Decoded, AllParts, Edge
<1>3. InFlight(a)'
  BY <1>1, <1>2 DEF InFlight, Follow
<1>4. ReadInv'
  BY <1>2, <1>3 DEF ReadInv
<1>5. cli \notin {"new", "done"}
  BY DEF Reading
<1>6. /\ wire' \in Seq(WireParts) /\ chunk' \in Seq(WireParts) /\ dec' \in Decoders /\ strm' \in StreamRecords
      /\ got' \in Seq(1 .. MaxBatches)
  BY DEF StreamTypes
<1>7. Len(got') <= len /\ \A i \in 1 .. Len(got') : got'[i] = i
  BY DEF GotInv
<1>8. QED
  BY <1>4, <1>5, <1>6, <1>7, ClientMoves

\* The response starts.
LEMMA BodyStarts ==
    ASSUME StreamsInv, Streams!ResponseStarts
    PROVE  StreamsInv'
<1> USE DEF StreamsInv, Streams!server
<1>1. /\ cli = "request" /\ cli' = "chunk"
      /\ UNCHANGED <<mode, len, nat, srv, enc, wire, conn, chunk, dec, strm, sess, got, outcome>>
  BY DEF Streams!ResponseStarts
<1>2. mode = "remote"
  BY <1>1 DEF EmbeddedInv, StreamTypes
<1>3. PointInv' /\ Reading /\ cli' \in Clients \ {"new", "done"}
  BY <1>1, <1>2 DEF PointInv, Reading, Clients
<1>4. QED
  BY <1>1, <1>2, <1>3, ClientWaits

\* The body ended: everything was received.
LEMMA BodyEnds ==
    ASSUME StreamsInv, Streams!ReceiveEnd
    PROVE  StreamsInv'
<1> USE DEF StreamsInv, Streams!server
<1>1. /\ cli = "chunk" /\ conn = "ended" /\ wire = << >> /\ cli' = "finish"
      /\ UNCHANGED <<mode, len, nat, srv, enc, wire, conn, chunk, dec, strm, sess, got, outcome>>
  BY DEF Streams!ReceiveEnd
<1>2. mode = "remote"
  BY <1>1 DEF EmbeddedInv, StreamTypes
<1>3. PointInv' /\ Reading /\ cli' \in Clients \ {"new", "done"}
  BY <1>1, <1>2 DEF PointInv, Reading, Clients
<1>4. QED
  BY <1>1, <1>2, <1>3, ClientWaits

\* A chunk is a beginning of what is on the wire.
LEMMA ChunkArrives ==
    ASSUME StreamsInv, Streams!ReceiveChunk
    PROVE  StreamsInv'
<1> USE DEF StreamsInv, Streams!server
<1>1. /\ cli = "chunk" /\ cli' = "push"
      /\ UNCHANGED <<mode, len, nat, srv, enc, conn, dec, strm, sess, got, outcome>>
  BY DEF Streams!ReceiveChunk
<1>2. mode = "remote"
  BY <1>1 DEF EmbeddedInv, StreamTypes
<1>3. wire \in Seq(WireParts) /\ Len(wire) \in Nat /\ dec \in Decoders /\ strm \in StreamRecords /\ WireCap \in Nat
      /\ len \in Nat /\ << >> \in Seq(WireParts) /\ Len(<< >>) = 0
  BY StreamConstants DEF StreamTypes
<1>4. PICK k \in 1 .. WireCap : /\ k <= Len(wire) /\ chunk' = SubSeq(wire, 1, k)
                                /\ wire' = SubSeq(wire, k + 1, Len(wire))
  BY DEF Streams!ReceiveChunk
<1>5. k \in 0 .. Len(wire)
  BY <1>3, <1>4
<1>6. PICK a \in 0 .. AllParts : Decoded(a) /\ InFlight(a)
  BY <1>1, <1>2 DEF ReadInv, Reading
<1>7. dec.buf = << >> /\ chunk = << >> /\ dec.pending = << >>
  BY <1>1, <1>2 DEF PointInv
<1>8. AllParts \in Nat /\ AllParts' = AllParts /\ a \in Int /\ a \in Nat
  BY <1>1, <1>3, <1>6 DEF AllParts
<1>9. Follow(wire, a)
  <2>1. Follow(wire, a + Len(dec.buf) + Len(chunk))
    BY <1>6 DEF InFlight
  <2>2. a + Len(dec.buf) + Len(chunk) = a
    BY <1>3, <1>7, <1>8
  <2>3. QED
    BY <2>1, <2>2
<1>10. /\ chunk' \in Seq(WireParts) /\ Len(chunk') = k /\ wire' \in Seq(WireParts) /\ Len(wire') = Len(wire) - k
       /\ Follow(chunk', a) /\ Follow(wire', a + k)
  <2>1. /\ SubSeq(wire, 1, k) \in Seq(WireParts) /\ Len(SubSeq(wire, 1, k)) = k
        /\ SubSeq(wire, k + 1, Len(wire)) \in Seq(WireParts) /\ Len(SubSeq(wire, k + 1, Len(wire))) = Len(wire) - k
        /\ Follow(SubSeq(wire, 1, k), a) /\ Follow(SubSeq(wire, k + 1, Len(wire)), a + k)
    BY <1>3, <1>5, <1>8, <1>9, CutFollows
  <2>2. QED
    BY <1>4, <2>1
<1>11. InFlight(a)'
  <2>1. dec'.buf = << >>
    BY <1>1, <1>7
  <2>2. a + Len(dec'.buf) = a /\ a + Len(dec'.buf) + Len(chunk') = a + k
    BY <1>3, <1>5, <1>8, <1>10, <2>1
  <2>3. a + Len(dec'.buf) + Len(chunk') + Len(wire') = a + Len(dec.buf) + Len(chunk) + Len(wire)
    BY <1>3, <1>5, <1>7, <1>8, <1>10, <2>1
  <2>4. Follow(dec'.buf, a)
    BY <2>1, FollowNothing
  <2>5. /\ dec'.buf \in Seq(WireParts) /\ Follow(chunk', a + Len(dec'.buf))
        /\ Follow(wire', a + Len(dec'.buf) + Len(chunk'))
    BY <1>3, <1>10, <2>1, <2>2
  <2>6. QED
    BY <1>1, <1>6, <1>10, <2>3, <2>4, <2>5, FlightMoves
<1>12. Decoded(a)'
  BY <1>1, <1>6 DEF Decoded
<1>13. ReadInv'
  BY <1>8, <1>11, <1>12 DEF ReadInv
<1>14. PointInv'
  BY <1>1, <1>7 DEF PointInv
<1>15. Len(got') <= len /\ got' \in Seq(1 .. MaxBatches) /\ \A i \in 1 .. Len(got') : got'[i] = i
  BY <1>1 DEF GotInv, StreamTypes
<1>16. cli \notin {"new", "done"} /\ cli' \in Clients \ {"new", "done"}
  BY <1>1 DEF Clients
<1>17. QED
  BY <1>1, <1>2, <1>3, <1>10, <1>13, <1>14, <1>15, <1>16, ClientMoves

\* The consumer of a remote stream asks for the next batch.
LEMMA RemoteNext ==
    ASSUME StreamsInv, mode = "remote", Streams!ResultNext
    PROVE  StreamsInv'
<1> USE DEF StreamsInv, Streams!server
<1>1. /\ cli = "ready" /\ ~strm.closed
      /\ UNCHANGED <<mode, len, nat, srv, enc, wire, conn, chunk, sess, outcome>>
  BY DEF Streams!ResultNext
<1>2. strm.live /\ chunk = << >> /\ Reading
  BY <1>1 DEF PointInv, Reading
<1>3. CASE dec.pending # << >>
  <2>1. /\ cli' = "ready" /\ got' = Append(got, Head(dec.pending)) /\ dec' = [dec EXCEPT !.pending = Tail(@)]
        /\ strm' = strm
    BY <1>2, <1>3 DEF Streams!ResultNext, Streams!Return
  <2>2. PICK a \in 0 .. AllParts : Decoded(a) /\ InFlight(a)
    BY <1>2 DEF ReadInv
  <2>3. /\ got \in Seq(1 .. MaxBatches) /\ Len(got) \in Nat /\ len \in Nat /\ dec \in Decoders
        /\ chunk \in Seq(WireParts) /\ wire \in Seq(WireParts) /\ strm \in StreamRecords
    BY StreamConstants DEF StreamTypes
  <2> DEFINE n == Len(got)
  <2>4. /\ dec.pending = <<n + 1>> /\ n + Len(dec.pending) <= len
        /\ n + Len(dec.pending) > 0 => a >= 2 * (n + Len(dec.pending)) + 2
        /\ n + Len(dec.pending) < len => a <= 2 * (n + Len(dec.pending)) + 3
    BY <1>3, <2>2 DEF Decoded
  <2>5. n \in Nat /\ n = Len(got)
    BY <2>3
  <2> HIDE DEF n
  <2>6. Head(<<n + 1>>) = n + 1 /\ Tail(<<n + 1>>) = << >> /\ Len(<<n + 1>>) = 1 /\ << >> \in Seq(1 .. MaxBatches)
        /\ Len(<< >>) = 0
    OBVIOUS
  <2>7. n < len
    BY <2>3, <2>4, <2>5, <2>6
  <2>8. dec' \in Decoders /\ dec'.pending = << >> /\ dec'.buf = dec.buf
    BY <2>1, <2>3, <2>4, <2>6 DEF Decoders
  <2>9. got' = Append(got, n + 1)
    BY <2>1, <2>4, <2>6
  <2>10. got' \in Seq(1 .. MaxBatches) /\ Len(got') = n + 1 /\ \A i \in 1 .. Len(got') : got'[i] = i
    BY <2>5, <2>7, <2>9, GotGrows
  <2>11. Len(got') <= len
    BY <2>3, <2>5, <2>7, <2>10
  <2>12. Decoded(a)'
    <3>1. Len(got') + Len(dec'.pending) = n + 1 /\ n + Len(dec.pending) = n + 1
      BY <2>4, <2>5, <2>6, <2>8, <2>10
    <3>2. QED
      BY <1>1, <2>4, <2>8, <3>1 DEF Decoded
  <2>13. InFlight(a)'
    <3>1. AllParts' = AllParts /\ Edge' = Edge
      BY <1>1 DEF AllParts, Edge
    <3>2. QED
      BY <1>1, <2>2, <2>8, <3>1 DEF InFlight, Follow
  <2>14. ReadInv'
    <3>1. AllParts' = AllParts
      BY <1>1 DEF AllParts
    <3>2. QED
      BY <2>12, <2>13, <3>1 DEF ReadInv
  <2>15. PointInv'
    BY <1>1, <1>2, <2>1 DEF PointInv
  <2>16. cli \notin {"new", "done"} /\ cli' \in Clients \ {"new", "done"} /\ dec' \in Decoders /\ strm' \in StreamRecords
         /\ wire' \in Seq(WireParts) /\ chunk' \in Seq(WireParts) /\ (strm'.closed => strm.closed)
    BY <1>1, <2>1, <2>3, <2>8 DEF Clients
  <2>17. QED
    BY <1>1, <2>10, <2>11, <2>14, <2>15, <2>16, ClientMoves
<1>4. CASE dec.pending = << >>
  <2>1. cli' = Streams!Resume(dec, FALSE) /\ UNCHANGED <<got, dec, strm>>
    BY <1>4 DEF Streams!ResultNext
  <2>2. cli' \in {"push", "chunk"} /\ (cli' = "chunk" => dec.buf = << >>)
    BY <1>2, <1>4, <2>1 DEF Streams!Resume
  <2>3. PointInv'
    BY <1>1, <1>2, <1>4, <2>1, <2>2 DEF PointInv
  <2>4. cli' \in Clients \ {"new", "done"}
    BY <2>2 DEF Clients
  <2>5. QED
    BY <1>1, <1>2, <2>1, <2>3, <2>4, ClientWaits
<1>5. QED
  BY <1>3, <1>4

\* A body that ended was decoded to its last part.
LEMMA FinishedIsWhole ==
    ASSUME StreamsInv, cli = "finish", sess = "open"
    PROVE  Len(got) = len
<1> USE DEF StreamsInv
<1>1. mode = "remote"
  BY DEF EmbeddedInv, StreamTypes
<1>2. /\ conn = "ended" /\ wire = << >> /\ dec.buf = << >> /\ chunk = << >> /\ dec.pending = << >>
  BY <1>1 DEF PointInv
<1>3. PICK a \in 0 .. AllParts : Decoded(a) /\ InFlight(a)
  BY <1>1 DEF ReadInv, Reading
<1>4. Len(got) \in Nat /\ len \in Nat /\ Len(<< >>) = 0 /\ AllParts \in Nat /\ AllParts = 2 * len + 4
  BY StreamConstants DEF StreamTypes, AllParts
<1>5. a + Len(dec.buf) + Len(chunk) + Len(wire) = AllParts
  BY <1>2, <1>3 DEF InFlight
<1>6. a = AllParts
  BY <1>2, <1>4, <1>5
<1>7. Len(got) + 0 <= len /\ (Len(got) + 0 < len => a <= 2 * (Len(got) + 0) + 3)
  BY <1>2, <1>3, <1>4 DEF Decoded
<1>8. QED
  BY <1>4, <1>6, <1>7

\* Every way the consumer ends.
LEMMA ConsumerEnding ==
    ASSUME StreamsInv,
           \/ Streams!RequestFails \/ Streams!ReceiveError \/ Streams!DecoderFinish \/ Streams!ResultNextClosed
           \/ Streams!ConsumerStops \/ Streams!ConsumerBreaks \/ Streams!ConsumerCancelled
    PROVE  StreamsInv'
<1> USE DEF StreamsInv, Streams!server
<1>1. \A o \in {"error", "complete", "stopped", "cancelled"} : o \in Outcomes
  BY DEF Outcomes
<1>2. CASE Streams!RequestFails
  BY <1>1, <1>2, EndsStep DEF Streams!RequestFails
<1>3. CASE Streams!ReceiveError
  BY <1>1, <1>3, EndsStep DEF Streams!ReceiveError
<1>4. CASE Streams!DecoderFinish
  <2>1. cli = "finish" /\ UNCHANGED <<mode, len, srv, enc, sess, got>>
    BY <1>4 DEF Streams!DecoderFinish
  <2>2. sess = "open" => Len(got) = len
    BY <2>1, FinishedIsWhole
  <2>3. Streams!Ends("error") \/ Streams!Ends("complete")
    BY <1>4 DEF Streams!DecoderFinish
  <2>4. QED
    BY <1>1, <2>1, <2>2, <2>3, EndsStep
<1>5. CASE Streams!ResultNextClosed
  <2>1. /\ cli = "ready" /\ strm.closed /\ Streams!Ends("complete")
        /\ UNCHANGED <<mode, len, srv, enc, sess, got>>
    BY <1>5 DEF Streams!ResultNextClosed
  <2>2. sess # "open"
    BY <2>1 DEF GotInv
  <2>3. QED
    BY <1>1, <2>1, <2>2, EndsStep
<1>6. CASE Streams!ConsumerStops
  BY <1>1, <1>6, EndsStep DEF Streams!ConsumerStops
<1>7. CASE Streams!ConsumerCancelled
  BY <1>1, <1>7, EndsStep DEF Streams!ConsumerCancelled, Streams!Awaiting
<1>8. CASE Streams!ConsumerBreaks
  <2>1. /\ cli = "ready" /\ cli' = "done" /\ outcome' = "stopped"
        /\ UNCHANGED <<mode, len, nat, srv, enc, wire, conn, chunk, dec, strm, sess, got>>
    BY <1>8 DEF Streams!ConsumerBreaks
  <2>2. StreamTypes' /\ GotInv' /\ EmbeddedInv' /\ ServerInv' /\ PointInv'
    BY <1>1, <2>1 DEF StreamTypes, GotInv, EmbeddedInv, ServerInv, PointInv, Clients
  <2>3. ~Reading'
    BY <2>1 DEF Reading
  <2>4. QED
    BY <2>2, <2>3 DEF ReadInv
<1>9. QED
  BY <1>2, <1>3, <1>4, <1>5, <1>6, <1>7, <1>8

\* The connection breaks: what was sent and not received is cut, and what follows is lost.
LEMMA BreakStep ==
    ASSUME StreamsInv, Streams!ConnectionBreaks
    PROVE  StreamsInv'
<1> USE DEF StreamsInv, Streams!server, Streams!client
<1>1. /\ conn = "open" /\ conn' = "broken"
      /\ UNCHANGED <<mode, len, nat, srv, enc, cli, chunk, dec, strm, sess, got, outcome>>
  BY DEF Streams!ConnectionBreaks
<1>2. mode = "remote" /\ cli # "new"
  BY <1>1 DEF EmbeddedInv, ServerInv, StreamTypes
<1>3. wire \in Seq(WireParts) /\ Len(wire) \in Nat /\ chunk \in Seq(WireParts) /\ dec.buf \in Seq(WireParts)
      /\ Len(chunk) \in Nat /\ Len(dec.buf) \in Nat /\ len \in Nat
  BY StreamConstants DEF StreamTypes, Decoders
<1>4. PICK k \in 0 .. Len(wire) : wire' = SubSeq(wire, 1, k)
  BY DEF Streams!ConnectionBreaks
<1>5. wire' \in Seq(WireParts) /\ Len(wire') = k
  BY <1>3, <1>4, CutFollows
<1>6. ASSUME NEW a \in 0 .. AllParts, InFlight(a) PROVE InFlight(a)'
  <2>1. a \in Int /\ a \in Nat /\ AllParts \in Nat /\ AllParts' = AllParts
    BY <1>1, <1>3 DEF AllParts
  <2> DEFINE c == a + Len(dec.buf) + Len(chunk)
  <2>2. /\ Follow(dec.buf, a) /\ Follow(chunk, a + Len(dec.buf)) /\ Follow(wire, c)
        /\ c + Len(wire) <= AllParts
    BY <1>6 DEF InFlight
  <2>3. c \in Int /\ c = a + Len(dec.buf) + Len(chunk)
    BY <1>3, <2>1
  <2> HIDE DEF c
  <2>4. Follow(wire', c)
    BY <1>3, <1>4, <2>2, <2>3, CutFollows
  <2>5. c + Len(wire') <= AllParts
    <3>1. k \in Int /\ k <= Len(wire)
      BY <1>3, <1>4
    <3>2. c + k <= AllParts
      BY <1>3, <2>1, <2>2, <2>3, <3>1
    <3>3. QED
      BY <1>5, <3>2
  <2>6. /\ Follow(dec'.buf, a) /\ Follow(chunk', a + Len(dec'.buf))
        /\ Follow(wire', a + Len(dec'.buf) + Len(chunk'))
        /\ a + Len(dec'.buf) + Len(chunk') + Len(wire') <= AllParts
    BY <1>1, <2>2, <2>3, <2>4, <2>5
  <2>7. QED
    BY <1>1, <2>1, <2>6 DEF InFlight
<1>7. ServerInv'
  BY <1>1, <1>2 DEF ServerInv
<1>8. nat' \in Natives /\ srv' \in Servers /\ enc' \in Encoders /\ conn' \in Conns /\ nat'.next <= len + 1
  BY <1>1 DEF StreamTypes, Conns, GotInv
<1>9. ~(cli = "finish" /\ sess = "open")
  BY <1>1, <1>2 DEF PointInv
<1>10. QED
  BY <1>1, <1>2, <1>5, <1>6, <1>7, <1>8, <1>9, ServerMoves

\* The closer moves: what is on the wire is dropped or stays, what the decoder holds is dropped
\* only under a stream that is closed.
LEMMA CloserMoves ==
    ASSUME StreamsInv, mode = "remote", UNCHANGED <<mode, len, nat, srv, enc, cli, chunk, got, outcome>>,
           sess' \in Sessions \ {"open"}, strm' \in StreamRecords, strm'.live = strm.live,
           strm.closed => strm'.closed, dec' \in Decoders, dec'.buf = dec.buf,
           dec'.pending = dec.pending \/ (dec'.pending = << >> /\ strm'.closed),
           \/ UNCHANGED <<conn, wire>>
           \/ wire' = << >> /\ conn' \in Conns \ {"open", "ended"} /\ (conn = "none" => conn' = "none")
    PROVE  StreamsInv'
<1> USE DEF StreamsInv
<1>1. StreamTypes'
  <2>1. << >> \in Seq(WireParts)
    OBVIOUS
  <2>2. QED
    BY <2>1 DEF StreamTypes
<1>2. GotInv' /\ EmbeddedInv'
  BY DEF GotInv, EmbeddedInv, Sessions
<1>3. ServerInv'
  BY DEF ServerInv
<1>4. PointInv'
  BY DEF PointInv
<1>5. ASSUME Reading' PROVE \E a \in 0 .. AllParts' : Decoded(a)' /\ InFlight(a)'
  <2>1. Reading
    BY <1>5 DEF Reading
  <2>2. PICK a \in 0 .. AllParts : Decoded(a) /\ InFlight(a)
    BY <2>1 DEF ReadInv
  <2>3. dec'.pending = dec.pending
    BY <1>5 DEF Reading, PointInv
  <2>4. AllParts' = AllParts
    BY DEF AllParts
  <2>5. Decoded(a)'
    BY <2>2, <2>3 DEF Decoded
  <2>6. InFlight(a)'
    <3>1. CASE UNCHANGED <<conn, wire>>
      <4>1. Edge' = Edge
        BY <2>4 DEF Edge
      <4>2. QED
        BY <2>2, <2>4, <3>1, <4>1 DEF InFlight, Follow
    <3>2. CASE wire' = << >> /\ conn' \notin {"open", "ended"}
      <4>1. /\ len \in Nat /\ wire \in Seq(WireParts) /\ chunk \in Seq(WireParts) /\ dec.buf \in Seq(WireParts)
        BY StreamConstants DEF StreamTypes, Decoders
      <4>2. /\ a \in Nat /\ AllParts \in Nat /\ Len(wire) \in Nat /\ Len(chunk) \in Nat /\ Len(dec.buf) \in Nat
            /\ Len(<< >>) = 0
        BY <4>1 DEF AllParts
      <4>3. /\ Follow(dec.buf, a) /\ Follow(chunk, a + Len(dec.buf))
            /\ a + Len(dec.buf) + Len(chunk) + Len(wire) <= AllParts
        BY <2>2 DEF InFlight
      <4>4. Follow(<< >>, a + Len(dec.buf) + Len(chunk))
        BY FollowNothing
      <4>5. a + Len(dec.buf) + Len(chunk) + 0 <= AllParts
        BY <4>2, <4>3
      <4>6. QED
        BY <2>4, <3>2, <4>2, <4>3, <4>4, <4>5 DEF InFlight
    <3>3. QED
      BY <3>1, <3>2
  <2>7. QED
    BY <2>4, <2>5, <2>6
<1>6. ReadInv'
  BY <1>5 DEF ReadInv
<1>7. QED
  BY <1>1, <1>2, <1>3, <1>4, <1>6

\* AsyncSession.close, whatever the consumer is doing.
LEMMA CloseSteps ==
    ASSUME StreamsInv, Streams!Close
    PROVE  StreamsInv'
<1> USE DEF StreamsInv, Streams!server, Streams!client
<1>1. /\ nat \in Natives /\ strm \in StreamRecords /\ dec \in Decoders /\ conn \in Conns /\ cli \in Clients
      /\ got \in Seq(1 .. MaxBatches) /\ outcome \in Outcomes /\ mode \in {"embedded", "remote"}
      /\ << >> \in Seq(WireParts)
  BY DEF StreamTypes
<1>2. UNCHANGED <<mode, len, srv, enc, cli, chunk, got, outcome>> /\ sess' \in Sessions \ {"open"}
  BY DEF Streams!Close, Streams!SessionClose, Streams!SessionStreamsClosed, Streams!TransportClose, Sessions
<1>3. strm' \in StreamRecords /\ strm'.live = strm.live /\ (strm.closed => strm'.closed)
  BY <1>1 DEF Streams!Close, Streams!SessionClose, Streams!SessionStreamsClosed, Streams!TransportClose, StreamRecords
<1>4. CASE mode = "embedded"
  <2>1. conn' = conn /\ dec' = dec /\ wire' \in Seq(WireParts)
    <3>1. conn = "none" /\ wire \in Seq(WireParts)
      BY <1>4 DEF EmbeddedInv, StreamTypes
    <3>2. QED
      BY <1>1, <1>4, <3>1 DEF Streams!Close, Streams!SessionClose, Streams!SessionStreamsClosed,
         Streams!TransportClose
  <2>2. nat' \in Natives /\ nat'.next = nat.next /\ (nat.st # "open" => nat' = nat)
    BY <1>1, <1>4, CancelledIs DEF Streams!Close, Streams!SessionClose, Streams!SessionStreamsClosed,
       Streams!TransportClose
  <2>3. GotInv'
    BY <1>2, <2>1, <2>2 DEF GotInv
  <2>4. EmbeddedInv'
    BY <1>2, <1>4, <2>1, <2>2 DEF EmbeddedInv
  <2>5. StreamTypes'
    BY <1>1, <1>2, <1>3, <2>1, <2>2 DEF StreamTypes
  <2>6. ServerInv' /\ PointInv' /\ ReadInv'
    BY <1>2, <1>4 DEF ServerInv, PointInv, ReadInv
  <2>7. QED
    BY <2>3, <2>4, <2>5, <2>6
<1>5. CASE mode = "remote"
  <2>1. nat' = nat
    BY <1>5 DEF Streams!Close, Streams!SessionClose, Streams!SessionStreamsClosed, Streams!TransportClose
  <2>2. /\ dec' \in Decoders /\ dec'.buf = dec.buf
        /\ dec'.pending = dec.pending \/ (dec'.pending = << >> /\ strm'.closed)
    <3>1. CASE dec' = dec
      BY <1>1, <3>1
    <3>2. CASE dec' # dec
      <4>1. dec' = Streams!DecClosed(dec) /\ strm' = [strm EXCEPT !.closed = TRUE]
        BY <1>5, <3>2 DEF Streams!Close, Streams!SessionClose, Streams!SessionStreamsClosed, Streams!TransportClose
      <4>2. strm'.closed
        BY <1>1, <4>1 DEF StreamRecords
      <4>3. QED
        BY <1>1, <4>1, <4>2, DecClosedIs
    <3>3. QED
      BY <3>1, <3>2
  <2>3. \/ UNCHANGED <<conn, wire>>
        \/ wire' = << >> /\ conn' \in Conns \ {"open", "ended"} /\ (conn = "none" => conn' = "none")
    BY <1>1, <1>5 DEF Streams!Close, Streams!SessionClose, Streams!SessionStreamsClosed, Streams!TransportClose,
       Streams!HttpClosed, Conns
  <2>4. QED
    BY <1>2, <1>3, <1>5, <2>1, <2>2, <2>3, CloserMoves
<1>6. QED
  BY <1>1, <1>4, <1>5

\* Every step of the three tasks, and none.
LEMMA StreamsStep ==
    ASSUME StreamsInv, [Streams!Next]_Streams!vars
    PROVE  StreamsInv'
<1>1. CASE Streams!Serve \/ Streams!ServerDisconnect
  BY <1>1, ServerSteps
<1>2. CASE Streams!ConnectionBreaks
  BY <1>2, BreakStep
<1>3. CASE Streams!Close
  BY <1>3, CloseSteps
<1>4. mode \in {"embedded", "remote"}
  BY DEF StreamsInv, StreamTypes
<1>5. CASE \/ Streams!RequestFails \/ Streams!ReceiveError \/ Streams!DecoderFinish \/ Streams!ResultNextClosed
           \/ Streams!ConsumerStops \/ Streams!ConsumerBreaks \/ Streams!ConsumerCancelled
  BY <1>5, ConsumerEnding
<1>6. CASE Streams!ResponseStarts \/ Streams!ReceiveChunk \/ Streams!ReceiveEnd \/ Streams!PushChunk
  BY <1>6, BodyStarts, ChunkArrives, BodyEnds, PushStep
<1>7. CASE Streams!Stream \/ Streams!ResultNext
  BY <1>4, <1>7, EmbeddedSteps, RequestStep, RemoteNext
<1>8. CASE Streams!StreamOpensNative \/ Streams!NativeBatch \/ Streams!NativeEnd \/ Streams!NativeError
  <2>1. cli \in {"open", "native"}
    BY <1>8 DEF Streams!StreamOpensNative, Streams!NativeBatch, Streams!NativeEnd, Streams!NativeError
  <2>2. mode = "embedded"
    BY <1>4, <2>1 DEF StreamsInv, PointInv
  <2>3. QED
    BY <1>8, <2>2, EmbeddedSteps
<1>9. CASE UNCHANGED Streams!vars
  <2>1. UNCHANGED <<mode, len, nat, srv, enc, wire, conn, cli, chunk, dec, strm, sess, got, outcome>>
    BY <1>9 DEF Streams!vars
  <2>2. StreamTypes' /\ GotInv' /\ EmbeddedInv' /\ ServerInv' /\ PointInv'
    BY <2>1 DEF StreamsInv, StreamTypes, GotInv, EmbeddedInv, ServerInv, PointInv
  <2>3. ReadInv'
    <3>1. Reading' = Reading /\ AllParts' = AllParts /\ Edge' = Edge
      BY <2>1 DEF Reading, Edge, AllParts
    <3>2. \A a \in 0 .. AllParts : Decoded(a) => Decoded(a)'
      BY <2>1 DEF Decoded
    <3>3. \A a \in 0 .. AllParts : InFlight(a) => InFlight(a)'
      BY <2>1, <3>1 DEF InFlight, Follow
    <3>4. QED
      BY <2>1, <3>1, <3>2, <3>3 DEF StreamsInv, ReadInv
  <2>4. QED
    BY <2>2, <2>3 DEF StreamsInv
<1>10. QED
  BY <1>1, <1>2, <1>3, <1>5, <1>6, <1>7, <1>8, <1>9 DEF Streams!Next, Streams!Consume

\* What the invariant says of the properties of ResultStreams.
LEMMA StreamsHolds ==
    ASSUME StreamsInv
    PROVE  Streams!TypeOK /\ Streams!DeliveredInOrder /\ Streams!EndMeansComplete
<1>1. Streams!TypeOK
  BY StreamTypesAre DEF StreamsInv
<1> DEFINE R == Streams!Result
           g == Len(got)
<1>2. /\ g \in Nat /\ len \in Nat /\ len <= MaxBatches /\ MaxBatches \in Nat /\ g <= len
      /\ got \in Seq(1 .. MaxBatches) /\ got \in [1 .. g -> 1 .. MaxBatches] /\ \A i \in 1 .. g : got[i] = i
  BY StreamConstants, LenProperties DEF StreamsInv, StreamTypes, GotInv
<1>3. R = [i \in 1 .. len |-> i]
  BY DEF Streams!Result
<1>4. R \in Seq(1 .. MaxBatches) /\ Len(R) = len /\ \A i \in 1 .. len : R[i] = i
  <2>1. \A i \in 1 .. len : i \in 1 .. MaxBatches
    BY <1>2
  <2>2. [i \in 1 .. len |-> i] \in [1 .. len -> 1 .. MaxBatches]
    BY <2>1
  <2>3. QED
    BY <1>2, <1>3, <2>2, LenProperties, SeqDef
<1>5. g = len => got = R
  <2>1. SUFFICES ASSUME g = len PROVE got = R
    OBVIOUS
  <2>2. got \in [1 .. len -> 1 .. MaxBatches] /\ R \in [1 .. len -> 1 .. MaxBatches]
    BY <1>2, <1>4, <2>1, LenProperties
  <2>3. QED
    BY <1>2, <1>4, <2>1, <2>2
<1>6. SubSeq(got, 1, g) = SubSeq(R, 1, g)
  <2>1. /\ SubSeq(got, 1, g) = [i \in 1 .. g |-> got[i]] /\ SubSeq(R, 1, g) = [i \in 1 .. g |-> R[i]]
    BY <1>2, <1>4
  <2>2. \A i \in 1 .. g : got[i] = R[i]
    BY <1>2, <1>4
  <2>3. QED
    BY <2>1, <2>2
<1>7. Streams!DeliveredInOrder
  BY <1>2, <1>4, <1>6 DEF Streams!DeliveredInOrder, Streams!IsPrefix
<1>8. Streams!EndMeansComplete
  BY <1>5 DEF StreamsInv, GotInv, Streams!EndMeansComplete
<1>9. QED
  BY <1>1, <1>7, <1>8
-----------------------------------------------------------------------------
(* The blocking session: one thread closes it, once.                       *)
Released == {"finally", "stop", "join", "closed"}
CloserInv ==
    /\ \A t \in Threads :
          job[t].kind \in {"close", "aclose"} \/ pc[t] \in Released \cup {"readers"} => t \in Closers
    /\ \A t \in Closers :
          /\ pc[t] \in Released => transport = "closed" \/ session = "broken"
          /\ pc[t] \notin Released =>
                /\ ~closed /\ ~bridge /\ loop = "running"
                /\ job[t].kind # "close" \/ job[t].at \in {"queued", "running"} => session = "open"
                /\ job[t].kind = "close" /\ job[t].at = "done" => transport = "closed" \/ session = "broken"
    /\ \A t \in Threads : pc[t] \in {"idle", "result", "raised", "readers"} \cup Released => job[t].kind = "none"
BlockingInv == Blocking!TypeOK /\ CloserInv

\* One thread closes; what it has handed to the loop is its own close.
LEMMA BlockingInit ==
    ASSUME Blocking!BlockingAssumption, Blocking!Init
    PROVE  BlockingInv
<1>1. Blocking!TypeOK
  <2>1. /\ pc \in [Threads -> {"idle", "checked", "submit", "wait", "result", "raised",
                             "readers", "finally", "stop", "join", "closed"}]
        /\ job \in [Threads -> {Blocking!NoJob} \cup
                              [kind : Blocking!Kinds, at : {"queued", "running", "suspended", "done"}]]
    BY DEF Blocking!Init
  <2>2. /\ calls \in [Threads -> 0 .. ThreadCalls] /\ reader \subseteq Threads
        /\ snap \in [Threads -> SUBSET Threads]
    BY DEF Blocking!BlockingAssumption, Blocking!Init
  <2>3. QED
    BY <2>1, <2>2 DEF Blocking!Init, Blocking!TypeOK
<1>2. CloserInv
  BY DEF Blocking!BlockingAssumption, Blocking!Init, CloserInv, Blocking!NoJob, Released
<1>3. QED
  BY <1>1, <1>2 DEF BlockingInv

\* A step of one thread: where the thread that closes is, and what its job is, decides.
LEMMA BlockingStep ==
    ASSUME Blocking!BlockingAssumption, OneCloser, BlockingInv, Blocking!Next
    PROVE  BlockingInv'
<1> USE DEF Blocking!BlockingAssumption, BlockingInv, Blocking!TypeOK, CloserInv, Released, OneCloser,
        Blocking!Goto, Blocking!Starts, Blocking!NoJob, Blocking!Kinds
<1>1. CASE Blocking!LoopStops
  BY <1>1 DEF Blocking!LoopStops
<1>2. ASSUME NEW t \in Threads, NEW k \in {"operation", "stream"}, Blocking!RunSync(t, k)
      PROVE  BlockingInv'
  <2>1. CASE closed
    BY <1>2, <2>1 DEF Blocking!RunSync
  <2>2. CASE ~closed
    <3>1. job' = [job EXCEPT ![t] = [kind |-> k, at |-> "queued"]] /\ pc' = [pc EXCEPT ![t] = "checked"]
      BY <1>2, <2>2 DEF Blocking!RunSync
    <3>2. Blocking!TypeOK'
      BY <1>2, <3>1 DEF Blocking!RunSync
    <3>3. CloserInv'
      BY <1>2, <3>1 DEF Blocking!RunSync
    <3>4. QED
      BY <3>2, <3>3
  <2>3. QED
    BY <2>1, <2>2
<1>3. ASSUME NEW t \in Threads, Blocking!Call(t) PROVE BlockingInv'
  <2>1. CASE Blocking!ReaderNext(t)
    BY <2>1 DEF Blocking!ReaderNext
  <2>2. CASE Blocking!CloseSession(t)
    BY <2>2 DEF Blocking!CloseSession
  <2>3. QED
    BY <1>2, <1>3, <2>1, <2>2 DEF Blocking!Call, Blocking!CatalogOperation, Blocking!QueryOperation,
       Blocking!IndexOperation, Blocking!OpenReader
<1>4. ASSUME NEW t \in Threads, Blocking!Refused(t), pc[t] \in {"checked", "submit"},
             bridge \/ loop = "closed",
             UNCHANGED <<calls, closed, bridge, loop, session, transport>>
      PROVE  BlockingInv'
  <2>1. t \notin Closers
    BY <1>4
  <2>2. job[t].kind \notin {"close", "aclose"}
    BY <2>1
  <2>3. pc' = [pc EXCEPT ![t] = "raised"] /\ UNCHANGED <<reader, snap>> /\ job' = [job EXCEPT ![t] = Blocking!NoJob]
    BY <1>4, <2>2 DEF Blocking!Refused
  <2>4. QED
    BY <1>4, <2>1, <2>3
<1>5. ASSUME NEW t \in Threads, Blocking!Result(t) PROVE BlockingInv'
  BY <1>5 DEF Blocking!Result, Blocking!ReaderGone
<1>6. ASSUME NEW t \in Threads, Blocking!ThreadStep(t) PROVE BlockingInv'
  <2>1. CASE Blocking!BridgeCheck(t)
    <3>1. CASE bridge
      BY <1>4, <2>1, <3>1 DEF Blocking!BridgeCheck
    <3>2. CASE ~bridge
      BY <2>1, <3>2 DEF Blocking!BridgeCheck
    <3>3. QED
      BY <3>1, <3>2
  <2>2. CASE Blocking!Submit(t)
    <3>1. CASE loop = "closed"
      BY <1>4, <2>2, <3>1 DEF Blocking!Submit
    <3>2. CASE loop # "closed"
      BY <2>2, <3>2 DEF Blocking!Submit
    <3>3. QED
      BY <3>1, <3>2
  <2>3. CASE Blocking!Returns(t)
    BY <2>3 DEF Blocking!Returns
  <2>4. CASE Blocking!CloseReaders(t)
    BY <2>4 DEF Blocking!CloseReaders
  <2>5. CASE Blocking!CloseFinally(t)
    <3>1. t \in Closers /\ (transport = "closed" \/ session = "broken") /\ UNCHANGED <<job, calls, reader, snap, loop, session, transport>>
      BY <2>5 DEF Blocking!CloseFinally
    <3>2. pc' \in {[pc EXCEPT ![t] = "closed"], [pc EXCEPT ![t] = "stop"]} /\ closed' = TRUE /\ bridge' \in BOOLEAN
      BY <2>5 DEF Blocking!CloseFinally
    <3>3. \A s \in Closers : s = t
      BY <3>1
    <3>4. CloserInv'
      BY <2>5, <3>1, <3>2, <3>3 DEF Blocking!CloseFinally
    <3>5. QED
      BY <3>1, <3>2, <3>4
  <2>6. CASE Blocking!StopLoop(t) \/ Blocking!JoinLoop(t)
    BY <2>6 DEF Blocking!StopLoop, Blocking!JoinLoop
  <2>7. QED
    BY <1>5, <1>6, <2>1, <2>2, <2>3, <2>4, <2>5, <2>6 DEF Blocking!ThreadStep
<1>7. ASSUME NEW t \in Threads, Blocking!LoopStep(t) PROVE BlockingInv'
  <2>1. CASE Blocking!LoopStarts(t) \/ Blocking!LoopCompletes(t)
    <3>1. PICK a \in {"running", "done"} : job' = [job EXCEPT ![t].at = a]
      BY <2>1 DEF Blocking!LoopStarts, Blocking!LoopCompletes
    <3>2. /\ pc[t] = "wait" /\ job[t].at \in {"queued", "running"} /\ (a = "done" => job[t].kind # "close")
          /\ UNCHANGED <<pc, calls, reader, snap, closed, bridge, loop, session, transport>>
      BY <2>1, <3>1 DEF Blocking!LoopStarts, Blocking!LoopCompletes
    <3>3. job[t] \in [kind : Blocking!Kinds, at : {"queued", "running", "suspended", "done"}]
      BY <3>2
    <3>4. job'[t] = [kind |-> job[t].kind, at |-> a] /\ \A s \in Threads \ {t} : job'[s] = job[s]
      BY <3>1, <3>3
    <3>5. Blocking!TypeOK'
      BY <3>1, <3>2, <3>3
    <3>6. CloserInv'
      BY <3>2, <3>4
    <3>7. QED
      BY <3>5, <3>6
  <2>2. CASE Blocking!LoopCloses(t)
    BY <2>2 DEF Blocking!LoopCloses
  <2>3. QED
    BY <1>7, <2>1, <2>2 DEF Blocking!LoopStep
<1>8. QED
  BY <1>1, <1>3, <1>6, <1>7 DEF Blocking!Next

\* What the invariant says of the blocking session's own properties.
LEMMA BlockingHolds ==
    ASSUME BlockingInv, Blocking!BlockingAssumption
    PROVE  Blocking!TypeOK /\ Blocking!CloseReleases
  BY DEF BlockingInv, CloserInv, Released, Blocking!CloseReleases, Blocking!BlockingAssumption

-----------------------------------------------------------------------------
(* Registered tables.                                                      *)
TableCallRecords == [op : Registry!Ops \cup {"none"}, n : TableNames \cup {0}, at : Registry!Points,
                     got : Seq(TableNames), tokens : Seq(Nat)]
OutRecords == [op : Registry!Ops \cup {"none"}, n : TableNames \cup {0}, res : Registry!Results]
TableTypes ==
    /\ catalog \in [TableNames -> Registry!Ids \cup {Registry!None}]
    /\ ctx \in [TableNames -> Registry!Ids \cup {Registry!None}]
    /\ calls \in [Callers -> 0 .. TableCalls] /\ restarts \in 0 .. TableRestarts
    /\ unsettled \subseteq TableNames
    /\ call \in [Callers -> TableCallRecords] /\ out \in [Callers -> OutRecords]
\* Which call is where.
Registering == {"encode", "handle", "validate", "check", "context", "provider", "create", "publish",
                "bind", "undo"}
PlaceOk(r) ==
    /\ r.at \in Registering => r.op = "register"
    /\ r.at \in {"load", "drop", "forget"} => r.op = "deregister"
    /\ r.at \in {"describe", "definition"} => r.op \in {"register", "table"}
    /\ r.at \in {"page", "listed"} => r.op \in {"list", "table", "deregister"}
    /\ r.at = "request" => r.op \in {"register", "table", "deregister"}
    /\ r.at = "idle" <=> r = Registry!Idle
    /\ r.op \in {"register", "table", "deregister"} => r.n \in TableNames
PlaceInv == /\ \A c \in Callers : PlaceOk(call[c])
            /\ \A c \in Callers : out[c].op = "register" => out[c].n \in TableNames
\* Registrations are numbered as they begin, and one that has not created its definition is
\* nowhere.
Early == {"encode", "request", "handle", "validate", "check", "context", "provider", "create"}
Known(i) == \A c \in Callers, k \in Nat : i = <<c, k>> => k <= calls[c]
IdInv ==
    /\ \A n \in TableNames : Known(catalog[n]) /\ Known(ctx[n])
    /\ \A c \in Callers, n \in TableNames :
          call[c].op = "register" /\ call[c].at \in Early
             => catalog[n] # Registry!Id(c) /\ ctx[n] # Registry!Id(c)
\* A settled name: one registration at most is past its creation, and session and catalog differ only while it, or a deregistration, is between the two.
Defines(c, n) == call[c].op = "register" /\ call[c].n = n
Removes(c, n) == call[c].op = "deregister" /\ call[c].n = n
NameOk(n) ==
    /\ \A c, d \in Callers : ~(Defines(c, n) /\ Removes(d, n))
    /\ \A c \in Callers : Defines(c, n) =>
          /\ call[c].at \in {"publish", "undo"} => catalog[n] = Registry!Id(c) /\ ctx[n] = Registry!None
          /\ call[c].at \in {"bind", "describe", "definition"} =>
                catalog[n] = Registry!Id(c) /\ ctx[n] = Registry!Id(c)
    /\ \A c \in Callers : Removes(c, n) /\ call[c].at = "forget" => catalog[n] = Registry!None
    /\ catalog[n] # ctx[n] =>
          \/ \E c \in Callers : Defines(c, n) /\ call[c].at \in {"publish", "undo"}
          \/ catalog[n] = Registry!None /\ \E c \in Callers : Removes(c, n) /\ call[c].at = "forget"
NameInv == \A n \in TableNames \ unsettled : NameOk(n)
\* A listing: its tokens grow, and it holds the first names in order while nothing changes.
Offset(r) == IF r.tokens = <<>> THEN 0 ELSE r.tokens[Len(r.tokens)]
Named(s) == {s[i] : i \in DOMAIN s}
ListOk(r, h, reg) ==
    /\ h.always \subseteq h.ever
    /\ r.at \in {"page", "listed"} => Named(r.got) \subseteq h.ever
    /\ r.at = "page" =>
          /\ h.always \subseteq reg /\ reg \subseteq h.ever
          /\ \A i \in DOMAIN r.tokens : r.tokens[i] <= Offset(r)
          /\ h.always = h.ever =>
                /\ Offset(r) <= Cardinality(reg)
                /\ r.got = SubSeq(Registry!InOrder(reg), 1, Offset(r))
    /\ r.at = "listed" /\ h.always = h.ever => r.got = Registry!InOrder(h.ever)
ListInv == /\ hist \in [Callers -> [always : SUBSET TableNames, ever : SUBSET TableNames]]
           /\ \A c \in Callers : ListOk(call[c], hist[c], Registry!Registered)
           /\ \A c \in Callers : out[c].res # "repeated"
TableInv == TableTypes /\ PlaceInv /\ IdInv /\ NameInv /\ Registry!FailedLeavesNothing
RegistryInv == TableInv /\ ListInv

\* A set of numbers has a least one.
LEMMA LeastOf ==
    ASSUME NEW T, T \subseteq Nat, T # {}
    PROVE  \E x \in T : \A y \in T : x <= y
<1> DEFINE R == OpToRel(<, Nat)
<1>1. IsWellFoundedOn(R, Nat)
  BY NatLessThanWellFounded
<1>2. PICK x \in T : \A y \in T : ~ (<<y, x>> \in R)
  <2> HIDE DEF R
  <2> QED
    BY <1>1, WFMin
<1>3. \A y \in T : ~(y < x)
  BY <1>2 DEF OpToRel
<1>4. QED
  BY <1>3

\* A finite set of numbers can be listed in order: the smallest number of members for which
\* one could not would be one more than that of a set that can.
Increasing(s) == \A i, j \in DOMAIN s : i < j => s[i] < s[j]
Orders(S) == {s \in [1 .. Cardinality(S) -> S] : Increasing(s)}

\* The least element in front of an order of the others.
LEMMA OrderAdds ==
    ASSUME NEW S, S \subseteq Nat, IsFiniteSet(S), NEW x \in S, \A y \in S : x <= y,
           NEW f \in Orders(S \ {x})
    PROVE  \E s \in Orders(S) : TRUE
<1> DEFINE k == Cardinality(S)
           g == [i \in 1 .. k |-> IF i = 1 THEN x ELSE f[i - 1]]
<1>1. k \in Nat /\ Cardinality(S \ {x}) = k - 1
  BY FS_RemoveElement, FS_CardinalityType
<1>2. f \in [1 .. k - 1 -> S \ {x}] /\ Increasing(f)
  BY <1>1 DEF Orders
<1> HIDE DEF k
<1>3. ASSUME NEW i \in 1 .. k, i # 1 PROVE i - 1 \in 1 .. k - 1 /\ g[i] = f[i - 1] /\ g[i] \in S /\ x < g[i]
  <2>1. i - 1 \in 1 .. k - 1
    BY <1>1, <1>3
  <2>2. f[i - 1] \in S \ {x}
    BY <1>2, <2>1
  <2>3. g[i] = f[i - 1]
    BY <1>3
  <2> HIDE DEF g
  <2>4. x \in Nat /\ g[i] \in Nat /\ x <= g[i] /\ x # g[i] /\ g[i] \in S
    BY <2>2, <2>3
  <2>5. x < g[i]
    BY <2>4
  <2>6. QED
    BY <2>1, <2>3, <2>4, <2>5
<1>4. g \in [1 .. k -> S]
  BY <1>3
<1>5. Increasing(g)
  <2> SUFFICES ASSUME NEW i \in 1 .. k, NEW j \in 1 .. k, i < j PROVE g[i] < g[j]
    BY <1>4 DEF Increasing
  <2>1. j # 1 /\ g[j] = f[j - 1] /\ j - 1 \in 1 .. k - 1 /\ x < g[j]
    BY <1>1, <1>3
  <2>2. CASE i = 1
    BY <2>1, <2>2
  <2>3. CASE i # 1
    <3>1. g[i] = f[i - 1] /\ i - 1 \in 1 .. k - 1 /\ i - 1 < j - 1
      BY <1>1, <1>3, <2>3
    <3>2. f[i - 1] < f[j - 1]
      BY <1>2, <2>1, <3>1 DEF Increasing
    <3>3. QED
      BY <2>1, <3>1, <3>2
  <2>4. QED
    BY <2>2, <2>3
<1>6. QED
  BY <1>4, <1>5 DEF Orders, k

\* A finite set of numbers has an order: there is no least size that has none.
LEMMA OrderExists ==
    ASSUME NEW S, S \subseteq Nat, IsFiniteSet(S)
    PROVE  \E s \in Orders(S) : TRUE
<1> DEFINE T == {k \in Nat : \E U \in SUBSET Nat : IsFiniteSet(U) /\ Cardinality(U) = k /\ Orders(U) = {}}
<1>1. ASSUME T # {} PROVE FALSE
  <2>1. PICK k \in T : \A m \in T : k <= m
    <3>1. T \subseteq Nat
      OBVIOUS
    <3> HIDE DEF T
    <3>2. QED
      BY <1>1, <3>1, LeastOf
  <2>2. PICK U \in SUBSET Nat : IsFiniteSet(U) /\ Cardinality(U) = k /\ Orders(U) = {}
    BY <2>1
  <2>3. k \in Nat
    BY <2>1
  <2>4. U # {}
    <3>1. ASSUME U = {} PROVE FALSE
      <4>1. Cardinality(U) = 0
        BY <3>1, FS_EmptySet
      <4>2. << >> \in [1 .. 0 -> U] /\ Increasing(<< >>)
        BY DEF Increasing
      <4>3. QED
        BY <2>2, <4>1, <4>2 DEF Orders
    <3>2. QED
      BY <3>1
  <2>5. PICK x \in U : \A y \in U : x <= y
    BY <2>2, <2>4, LeastOf
  <2>6. IsFiniteSet(U \ {x}) /\ Cardinality(U \ {x}) = k - 1 /\ U \ {x} \in SUBSET Nat
    BY <2>2, <2>5, FS_RemoveElement
  <2>7. k - 1 \in Nat
    BY <2>6, FS_CardinalityType
  <2>8. Orders(U \ {x}) # {}
    <3>1. ASSUME Orders(U \ {x}) = {} PROVE FALSE
      <4>1. k - 1 \in T
        BY <2>6, <2>7, <3>1
      <4> HIDE DEF T
      <4>2. k <= k - 1
        BY <2>1, <4>1
      <4>3. QED
        BY <2>3, <4>2
    <3>2. QED
      BY <3>1
  <2>9. QED
    BY <2>2, <2>5, <2>8, OrderAdds
<1>2. Cardinality(S) \in Nat
  BY FS_CardinalityType
<1>3. QED
  BY <1>1, <1>2

\* The registry's instances of the library's operators are the library's.
LEMMA RegistryOperators ==
    /\ \A S : Registry!Cardinality(S) = Cardinality(S)
    /\ \A S : Registry!IsFiniteSet(S) <=> IsFiniteSet(S)
    /\ \A S : Registry!InOrder(S) = CHOOSE s \in Orders(S) : TRUE
    /\ \A f : Registry!Range(f) = {f[x] : x \in DOMAIN f}
    /\ \A S : Registry!Min(S) = CHOOSE x \in S : \A y \in S : x <= y
    /\ \A s : Registry!Last(s) = s[Len(s)]
<1>1. \A S : Registry!Cardinality(S) = Cardinality(S)
  BY DEF Cardinality, Registry!Cardinality
<1>2. \A S : Registry!IsFiniteSet(S) <=> IsFiniteSet(S)
  BY DEF IsFiniteSet, Registry!IsFiniteSet
<1>3. ASSUME NEW S PROVE Registry!InOrder(S) = CHOOSE s \in Orders(S) : TRUE
  <2>1. \A s : s \in Orders(S) <=> s \in [1 .. Registry!Cardinality(S) -> S]
                                      /\ \A i, j \in DOMAIN s : i < j => s[i] < s[j]
    BY <1>1 DEF Orders, Increasing
  <2>2. QED
    BY <2>1 DEF Registry!InOrder
<1>4. \A f : Registry!Range(f) = {f[x] : x \in DOMAIN f}
  BY DEF Registry!Range
<1>5. \A S : Registry!Min(S) = CHOOSE x \in S : \A y \in S : x <= y
  BY DEF Registry!Min
<1>6. \A s : Registry!Last(s) = s[Len(s)]
  BY DEF Registry!Last
<1>7. QED
  BY <1>1, <1>2, <1>3, <1>4, <1>5, <1>6

\* A listing holds the names of a set once each, in order.
LEMMA InOrderIs ==
    ASSUME NEW S, S \subseteq TableNames
    PROVE  /\ IsFiniteSet(S) /\ Cardinality(S) \in Nat
           /\ Registry!InOrder(S) \in Seq(S) /\ Len(Registry!InOrder(S)) = Cardinality(S)
           /\ Registry!InOrder(S) \in Seq(TableNames)
<1>1. TableNames \subseteq Nat /\ IsFiniteSet(TableNames)
  BY CallsAssumption, RegistryOperators DEF Registry!RegistryAssumption
<1>2. S \subseteq Nat /\ IsFiniteSet(S) /\ Cardinality(S) \in Nat
  BY <1>1, FS_Subset, FS_CardinalityType
<1>3. Registry!InOrder(S) \in Orders(S)
  BY <1>2, OrderExists, RegistryOperators
<1>4. Registry!InOrder(S) \in [1 .. Cardinality(S) -> S]
  BY <1>3 DEF Orders
<1> DEFINE s == Registry!InOrder(S)
           k == Cardinality(S)
<1>5. s \in [1 .. k -> S] /\ k \in Nat
  BY <1>2, <1>4
<1> HIDE DEF s, k
<1>6. s \in Seq(S)
  BY <1>5, IsASeq
<1>7. Len(s) \in Nat /\ 1 .. Len(s) = 1 .. k
  BY <1>5, <1>6, LenProperties
<1>8. Len(s) = k
  <2>1. Len(s) < k => k \in 1 .. k /\ k \notin 1 .. Len(s)
    BY <1>5, <1>7
  <2>2. k < Len(s) => Len(s) \in 1 .. Len(s) /\ Len(s) \notin 1 .. k
    BY <1>5, <1>7
  <2>3. QED
    BY <1>5, <1>7, <2>1, <2>2
<1>9. s \in Seq(TableNames)
  BY <1>6
<1>10. QED
  BY <1>2, <1>6, <1>8, <1>9 DEF s, k


\* What is assumed of names, callers, pages and bounds.
LEMMA RegistryConstants ==
    /\ TableNames \subseteq Nat /\ IsFiniteSet(TableNames) /\ IsFiniteSet(Callers)
    /\ Callers # {} /\ PageSize \in Nat \ {0} /\ TableCalls \in Nat /\ TableRestarts \in Nat
  BY CallsAssumption, RegistryOperators DEF Registry!RegistryAssumption

\* Registrations of two callers are two registrations.
LEMMA IdsDiffer ==
    ASSUME TableTypes, NEW c \in Callers
    PROVE  /\ Registry!Id(c) # Registry!None /\ Registry!Id(c) \in Registry!Ids
           /\ \A d \in Callers : Registry!Id(c) = Registry!Id(d) => c = d
<1>1. calls[c] \in 0 .. TableCalls
  BY DEF TableTypes
<1>2. QED
  BY <1>1 DEF Registry!Id, Registry!None, Registry!Ids

\* The calls are counted over all callers, so that no caller begins more than that.
LEMMA RoomForCall ==
    ASSUME TableTypes, NEW c \in Callers, Registry!Cardinality(Registry!Begun) < TableCalls
    PROVE  calls[c] + 1 \in 0 .. TableCalls
<1> DEFINE k == calls[c]
           S == {<<c, i>> : i \in 1 .. k}
           B == Registry!Begun
<1>1. k \in Nat /\ k <= TableCalls /\ TableCalls \in Nat
  BY RegistryConstants DEF TableTypes
<1>2. S \subseteq B
  BY <1>1 DEF Registry!Begun, Registry!Ids
<1>3. IsFiniteSet(B)
  <2>1. IsFiniteSet(0 .. TableCalls)
    BY <1>1, FS_Interval
  <2>2. IsFiniteSet(Callers \X (0 .. TableCalls))
    BY <2>1, RegistryConstants, FS_Product
  <2>3. B \subseteq Callers \X (0 .. TableCalls)
    BY DEF Registry!Begun, Registry!Ids
  <2>4. QED
    BY <2>2, <2>3, FS_Subset
<1>4. IsFiniteSet(1 .. k) /\ Cardinality(1 .. k) = k
  <2>1. \A m \in Nat : IsFiniteSet(1 .. m) /\ Cardinality(1 .. m) = IF 1 > m THEN 0 ELSE m - 1 + 1
    BY FS_Interval
  <2>2. QED
    BY <1>1, <2>1
<1>5. Cardinality(S) = k
  <2> DEFINE f == [i \in 1 .. k |-> <<c, i>>]
  <2>1. f \in Bijection(1 .. k, S)
    BY DEF Bijection, Injection, Surjection, IsInjective
  <2>2. QED
    BY <1>4, <2>1, FS_Bijection DEF ExistsBijection
<1>6. Cardinality(S) <= Cardinality(B) /\ Cardinality(B) \in Nat
  BY <1>2, <1>3, FS_Subset, FS_CardinalityType
<1>7. Cardinality(B) < TableCalls
  BY RegistryOperators
<1> HIDE DEF S, B, k
<1>8. k + 1 \in 0 .. TableCalls
  BY <1>1, <1>5, <1>6, <1>7
<1>9. QED
  BY <1>8 DEF k

\* A caller that does nothing is where it should be.
LEMMA IdleIs ==
    /\ Registry!Idle \in TableCallRecords /\ Registry!Idle.op = "none" /\ Registry!Idle.at = "idle"
    /\ Registry!Idle.n = 0 /\ PlaceOk(Registry!Idle)
<1>1. << >> \in Seq(TableNames) /\ << >> \in Seq(Nat)
  OBVIOUS
<1>2. QED
  BY <1>1 DEF Registry!Idle, TableCallRecords, Registry!Ops, Registry!Points, PlaceOk, Registering

\* After the first restart session and catalog agree.
LEMMA RegistryInitTables ==
    ASSUME Registry!Init
    PROVE  TableInv
<1>1. PICK x \in Callers : catalog \in [TableNames -> {Registry!None, <<x, 0>>}]
  <2>1. \E x \in Callers : TRUE
    BY RegistryConstants
  <2>2. (CHOOSE x \in Callers : TRUE) \in Callers
    BY <2>1
  <2>3. QED
    BY <2>2 DEF Registry!Init
<1>2. <<x, 0>> \in Registry!Ids
  BY RegistryConstants DEF Registry!Ids
<1>3. Registry!NoOutcome \in OutRecords
  BY DEF Registry!NoOutcome, OutRecords, Registry!Ops, Registry!Results
<1>4. TableTypes
  <2>1. /\ catalog \in [TableNames -> Registry!Ids \cup {Registry!None}]
        /\ ctx \in [TableNames -> Registry!Ids \cup {Registry!None}]
    BY <1>1, <1>2 DEF Registry!Init
  <2>2. calls \in [Callers -> 0 .. TableCalls] /\ restarts \in 0 .. TableRestarts /\ unsettled \subseteq TableNames
    BY RegistryConstants DEF Registry!Init
  <2>3. call \in [Callers -> TableCallRecords] /\ out \in [Callers -> OutRecords]
    BY <1>3, IdleIs DEF Registry!Init
  <2>4. QED
    BY <2>1, <2>2, <2>3 DEF TableTypes
<1>5. \A c \in Callers : call[c] = Registry!Idle /\ out[c] = Registry!NoOutcome /\ calls[c] = 0
  BY DEF Registry!Init
<1>6. ctx = catalog
  BY DEF Registry!Init
<1>7. PlaceInv
  BY <1>5, IdleIs DEF PlaceInv, Registry!NoOutcome
<1>8. \A n \in TableNames : Known(catalog[n])
  <2>1. Known(Registry!None)
    BY DEF Known, Registry!None
  <2>2. Known(<<x, 0>>)
    BY <1>5 DEF Known
  <2>3. QED
    BY <1>1, <2>1, <2>2
<1>9. IdInv
  BY <1>5, <1>6, <1>8, IdleIs DEF IdInv
<1>10. NameInv
  BY <1>5, <1>6, IdleIs DEF NameInv, NameOk, Defines, Removes
<1>11. Registry!FailedLeavesNothing
  BY <1>5 DEF Registry!FailedLeavesNothing, Registry!NoOutcome
<1>12. QED
  BY <1>4, <1>7, <1>9, <1>10, <1>11 DEF TableInv

\* What a step of one caller leaves alone.
Elsewhere(c, r) ==
    /\ call' = [call EXCEPT ![c] = r] /\ r \in TableCallRecords /\ PlaceOk(r)
    /\ UNCHANGED <<calls, restarts>> /\ unsettled \subseteq unsettled' /\ unsettled' \subseteq TableNames
    /\ \A n \in TableNames \ {call[c].n} : catalog'[n] = catalog[n] /\ ctx'[n] = ctx[n]
    /\ r.op \in {"none", call[c].op} /\ (r.op = "none" \/ r.n = call[c].n)
    /\ r.op = "register" /\ r.at \in Early => call[c].at \in Early
Answered(c, res) ==
    out' = [out EXCEPT ![c] = [op |-> call[c].op, n |-> call[c].n, res |-> res]]
\* A failed registration of a settled name leaves nothing.
Clean(c, res) ==
    /\ res \in Registry!Results
    /\ call[c].op = "register" /\ res \in {"exists", "invalid", "failed"} /\ call[c].n \notin unsettled'
          => catalog'[call[c].n] # Registry!Id(c) /\ ctx'[call[c].n] # Registry!Id(c)
Answers(c, r) == \/ r.at # "idle" /\ out' = out
                 \/ r = Registry!Idle /\ \E res : Answered(c, res) /\ Clean(c, res)
\* What it does to the name it is about.
TablesMay(c) ==
    /\ catalog' \in [TableNames -> Registry!Ids \cup {Registry!None}]
    /\ ctx' \in [TableNames -> Registry!Ids \cup {Registry!None}]
    /\ LET n == call[c].n
       IN  n \in TableNames => /\ catalog'[n] \in {catalog[n], Registry!None, Registry!Id(c)}
                               /\ ctx'[n] \in {ctx[n], Registry!None, Registry!Id(c)}
\* A registration that stays before its creation creates nothing.
Stays(r) == r.op = "register" /\ r.at \in Early => UNCHANGED <<catalog, ctx>>

\* One caller moves: the names it does not work on are as they were.
LEMMA CallerMoves ==
    ASSUME TableInv, NEW c \in Callers, NEW r, Elsewhere(c, r), Answers(c, r), TablesMay(c), Stays(r),
           \A n \in TableNames \ unsettled' : n = call[c].n => NameOk(n)'
    PROVE  TableInv'
<1> USE DEF TableInv
<1>1. /\ call' \in [Callers -> TableCallRecords] /\ call'[c] = r
      /\ \A d \in Callers \ {c} : call'[d] = call[d]
  BY DEF Elsewhere, TableTypes
<1>2. call[c] \in TableCallRecords /\ PlaceOk(call[c])
  BY DEF TableTypes, PlaceInv
<1>3. /\ out' \in [Callers -> OutRecords] /\ \A d \in Callers \ {c} : out'[d] = out[d]
      /\ (out'[c] = out[c] \/ (out'[c].op = call[c].op /\ out'[c].n = call[c].n))
  <2>1. CASE out' = out
    <3>1. out' \in [Callers -> OutRecords]
      BY <2>1 DEF TableTypes
    <3>2. QED
      BY <2>1, <3>1
  <2>2. CASE \E res : Answered(c, res) /\ Clean(c, res)
    <3>1. PICK res \in Registry!Results : Answered(c, res)
      BY <2>2 DEF Clean
    <3>2. [op |-> call[c].op, n |-> call[c].n, res |-> res] \in OutRecords
      BY <1>2 DEF TableCallRecords, OutRecords
    <3>3. QED
      BY <3>1, <3>2 DEF Answered, TableTypes
  <2>3. QED
    BY <2>1, <2>2 DEF Answers
<1>4. \A n \in TableNames : /\ catalog'[n] \in {catalog[n], Registry!None, Registry!Id(c)}
                            /\ ctx'[n] \in {ctx[n], Registry!None, Registry!Id(c)}
  BY DEF Elsewhere, TablesMay
<1>5. calls' = calls /\ restarts' = restarts /\ unsettled \subseteq unsettled' /\ \A d \in Callers : Registry!Id(d)' = Registry!Id(d)
  BY DEF Elsewhere, Registry!Id
<1>6. TableTypes'
  BY <1>1, <1>3, <1>5 DEF TableTypes, TablesMay, Elsewhere
<1>7. PlaceInv'
  <2>1. \A d \in Callers : PlaceOk(call'[d])
    BY <1>1 DEF PlaceInv, Elsewhere
  <2>2. \A d \in Callers : out'[d].op = "register" => out'[d].n \in TableNames
    BY <1>2, <1>3 DEF PlaceInv, PlaceOk
  <2>3. QED
    BY <2>1, <2>2 DEF PlaceInv
<1>8. IdInv'
  <2>1. Known(Registry!Id(c)) /\ Known(Registry!None)
    BY DEF Known, Registry!Id, Registry!None, TableTypes
  <2>2. \A n \in TableNames : Known(catalog'[n]) /\ Known(ctx'[n])
    BY <1>4, <2>1 DEF IdInv
  <2>3. \A n \in TableNames : Known(catalog[n])' /\ Known(ctx[n])'
    BY <1>5, <2>2 DEF Known
  <2>4. ASSUME NEW d \in Callers, NEW n \in TableNames, call'[d].op = "register", call'[d].at \in Early
        PROVE  catalog'[n] # Registry!Id(d) /\ ctx'[n] # Registry!Id(d)
    <3>1. CASE d = c
      BY <1>1, <1>2, <2>4, <3>1 DEF IdInv, Elsewhere, Stays
    <3>2. CASE d # c
      BY <1>1, <1>4, <2>4, <3>2, IdsDiffer DEF IdInv
    <3>3. QED
      BY <3>1, <3>2
  <2>5. QED
    BY <1>5, <2>3, <2>4 DEF IdInv
<1>9. NameInv'
  <2> SUFFICES ASSUME NEW n \in TableNames \ unsettled' PROVE NameOk(n)'
    BY <1>5 DEF NameInv
  <2>1. CASE n = call[c].n
    BY <2>1
  <2>2. CASE n # call[c].n
    <3>1. NameOk(n) /\ catalog'[n] = catalog[n] /\ ctx'[n] = ctx[n]
      BY <1>5, <2>2 DEF NameInv, Elsewhere
    <3>2. \A d \in Callers : /\ Defines(d, n)' <=> Defines(d, n)
                             /\ Removes(d, n)' <=> Removes(d, n)
                             /\ Defines(d, n) \/ Removes(d, n) => call'[d] = call[d]
      BY <1>1, <2>2 DEF Defines, Removes, Elsewhere
    <3>3. QED
      BY <1>5, <3>1, <3>2 DEF NameOk
  <2>3. QED
    BY <2>1, <2>2
<1>10. Registry!FailedLeavesNothing'
  <2> SUFFICES ASSUME NEW d \in Callers, call'[d].at = "idle", out'[d].op = "register", out'[d].n \notin unsettled',
                      out'[d].res \in {"exists", "invalid", "failed"}
               PROVE  catalog'[out'[d].n] # Registry!Id(d) /\ ctx'[out'[d].n] # Registry!Id(d)
    BY <1>5 DEF Registry!FailedLeavesNothing, Registry!At
  <2>1. CASE d = c
    <3>1. PICK res : Answered(c, res) /\ Clean(c, res)
      BY <1>1, <2>1 DEF Answers
    <3>2. out'[c].op = call[c].op /\ out'[c].n = call[c].n /\ out'[c].res = res
      BY <3>1 DEF Answered, TableTypes
    <3>3. QED
      BY <2>1, <3>1, <3>2 DEF Clean
  <2>2. CASE d # c
    <3>1. out[d].n \in TableNames /\ out'[d] = out[d] /\ call'[d] = call[d]
      BY <1>1, <1>3, <2>2 DEF PlaceInv
    <3>2. catalog[out[d].n] # Registry!Id(d) /\ ctx[out[d].n] # Registry!Id(d)
      BY <1>5, <3>1 DEF Registry!FailedLeavesNothing, Registry!At
    <3>3. QED
      BY <1>4, <2>2, <3>1, <3>2, IdsDiffer
  <2>3. QED
    BY <2>1, <2>2
<1>11. QED
  BY <1>6, <1>7, <1>8, <1>9, <1>10

\* A step that leaves the tables alone: the call goes on, and says nothing.
LEMMA QuietMoves ==
    ASSUME TableInv, NEW c \in Callers, NEW r \in TableCallRecords, call' = [call EXCEPT ![c] = r],
           UNCHANGED <<catalog, ctx, out, calls, restarts, unsettled>>, PlaceOk(r), r.at # "idle",
           r.op = call[c].op, r.n = call[c].n,
           r.op = "register" => /\ r.at \in Early => call[c].at \in Early
                                /\ r.at \in {"publish", "undo"} <=> call[c].at \in {"publish", "undo"}
                                /\ r.at \in {"bind", "describe", "definition"}
                                      => call[c].at \in {"bind", "describe", "definition"},
           r.op = "deregister" => /\ call[c].at # "forget"
                                  /\ r.at = "forget" => catalog[r.n] = Registry!None
    PROVE  TableInv'
<1>1. Elsewhere(c, r) /\ Answers(c, r) /\ TablesMay(c) /\ Stays(r)
  BY DEF Elsewhere, Answers, TablesMay, Stays, TableInv, TableTypes
<1>2. call'[c] = r /\ \A d \in Callers \ {c} : call'[d] = call[d]
  BY DEF TableInv, TableTypes
<1>3. ASSUME NEW n \in TableNames \ unsettled, n = call[c].n PROVE NameOk(n)'
  <2>1. NameOk(n)
    BY DEF TableInv, NameInv
  <2>2. \A d \in Callers : /\ Defines(d, n)' <=> Defines(d, n)
                           /\ Removes(d, n)' <=> Removes(d, n)
                           /\ Registry!Id(d)' = Registry!Id(d)
    BY <1>2 DEF Defines, Removes, Registry!Id
  <2>3. \A d, e \in Callers : ~(Defines(d, n)' /\ Removes(e, n)')
    BY <2>1, <2>2 DEF NameOk
  <2>4. ASSUME NEW d \in Callers, Defines(d, n)
        PROVE  /\ call'[d].at \in {"publish", "undo"} => catalog[n] = Registry!Id(d) /\ ctx[n] = Registry!None
               /\ call'[d].at \in {"bind", "describe", "definition"} =>
                     catalog[n] = Registry!Id(d) /\ ctx[n] = Registry!Id(d)
    BY <1>2, <2>1, <2>4 DEF NameOk, Defines
  <2>5. \A d \in Callers : Removes(d, n) /\ call'[d].at = "forget" => catalog[n] = Registry!None
    BY <1>2, <1>3, <2>1 DEF NameOk, Removes
  <2>6. catalog[n] # ctx[n] =>
          \/ \E d \in Callers : Defines(d, n) /\ call'[d].at \in {"publish", "undo"}
          \/ catalog[n] = Registry!None /\ \E d \in Callers : Removes(d, n) /\ call'[d].at = "forget"
    BY <1>2, <2>1 DEF NameOk, Defines, Removes
  <2>7. QED
    BY <2>2, <2>3, <2>4, <2>5, <2>6 DEF NameOk
<1>4. QED
  BY <1>1, <1>3, CallerMoves

\* The call is not, or no longer, a listing, and no page token was seen twice.
Leaves(c) ==
    /\ \E r \in TableCallRecords : call' = [call EXCEPT ![c] = r] /\ r.at \notin {"page", "listed"}
    /\ out' = out \/ \E res \in Registry!Results \ {"repeated"} : Answered(c, res)

\* A call goes on without touching catalog or session.
LEMMA QuietGoes ==
    ASSUME TableInv, NEW c \in Callers, NEW p \in Registry!Points \ {"idle", "page", "listed"},
           Registry!Goto(c, p), Registry!Kept, UNCHANGED <<catalog, ctx>>,
           PlaceOk([call[c] EXCEPT !.at = p]),
           call[c].op = "register" => /\ p \in Early => call[c].at \in Early
                                      /\ p \in {"publish", "undo"} <=> call[c].at \in {"publish", "undo"}
                                      /\ p \in {"bind", "describe", "definition"}
                                            => call[c].at \in {"bind", "describe", "definition"},
           call[c].op = "deregister" => /\ call[c].at # "forget"
                                        /\ p = "forget" => catalog[call[c].n] = Registry!None
    PROVE  TableInv' /\ Leaves(c)
<1> DEFINE r == [call[c] EXCEPT !.at = p]
<1>1. /\ r \in TableCallRecords /\ r.op = call[c].op /\ r.n = call[c].n /\ r.at = p
      /\ call' = [call EXCEPT ![c] = r] /\ out' = out
  BY DEF Registry!Goto, TableInv, TableTypes, TableCallRecords
<1>2. UNCHANGED <<catalog, ctx, out, calls, restarts, unsettled>>
  BY <1>1 DEF Registry!Kept
<1>3. PlaceOk(r)
  OBVIOUS
<1> HIDE DEF r
<1>4. TableInv'
  BY <1>1, <1>2, <1>3, QuietMoves
<1>5. QED
  BY <1>1, <1>4 DEF Leaves

\* The call ends and leaves the tables alone.
LEMMA QuietEndsHere ==
    ASSUME TableInv, NEW c \in Callers, NEW res \in Registry!Results, Registry!EndsHere(c, res),
           Registry!Kept, UNCHANGED <<catalog, ctx>>,
           call[c].op = "register" => call[c].at \notin {"publish", "undo"},
           call[c].op = "deregister" => call[c].at # "forget",
           call[c].op = "register" /\ res \in {"exists", "invalid", "failed"} =>
              \/ call[c].at \in Early
              \/ /\ call[c].at \in {"describe", "definition"}
                 /\ ctx[call[c].n] = Registry!None \/ catalog[call[c].n] = Registry!None
    PROVE  TableInv' /\ (res # "repeated" => Leaves(c))
<1> DEFINE r == Registry!Idle
<1>1. call' = [call EXCEPT ![c] = r] /\ Answered(c, res)
  BY DEF Registry!EndsHere, Answered
<1>2. UNCHANGED <<catalog, ctx, calls, restarts, unsettled>>
  BY DEF Registry!Kept
<1>3. r \in TableCallRecords /\ PlaceOk(r) /\ r.op = "none" /\ r.at = "idle"
  BY IdleIs
<1>4. Clean(c, res)
  <2> SUFFICES ASSUME call[c].op = "register", res \in {"exists", "invalid", "failed"}, call[c].n \notin unsettled
               PROVE  catalog[call[c].n] # Registry!Id(c) /\ ctx[call[c].n] # Registry!Id(c)
    BY <1>2 DEF Clean
  <2>1. call[c].n \in TableNames
    BY DEF TableInv, PlaceInv, PlaceOk
  <2>2. CASE call[c].at \in Early
    BY <2>1, <2>2 DEF TableInv, IdInv
  <2>3. CASE /\ call[c].at \in {"describe", "definition"}
             /\ ctx[call[c].n] = Registry!None \/ catalog[call[c].n] = Registry!None
    <3>1. NameOk(call[c].n)
      BY <2>1 DEF TableInv, NameInv
    <3>2. catalog[call[c].n] = Registry!Id(c) /\ ctx[call[c].n] = Registry!Id(c)
      BY <2>3, <3>1 DEF NameOk, Defines
    <3>3. QED
      BY <2>3, <3>2, IdsDiffer DEF TableInv
  <2>4. QED
    BY <2>2, <2>3
<1>5. Elsewhere(c, r) /\ TablesMay(c) /\ Stays(r)
  BY <1>1, <1>2, <1>3 DEF Elsewhere, TablesMay, Stays, TableInv, TableTypes
<1>6. Answers(c, r)
  BY <1>1, <1>4 DEF Answers
<1>7. ASSUME NEW n \in TableNames \ unsettled, n = call[c].n PROVE NameOk(n)'
  <2>1. NameOk(n)
    BY DEF TableInv, NameInv
  <2>2. call'[c] = r /\ \A d \in Callers \ {c} : call'[d] = call[d]
    BY <1>1 DEF TableInv, TableTypes
  <2> HIDE DEF r
  <2>3. \A d \in Callers : /\ Defines(d, n)' => d # c /\ Defines(d, n) /\ call'[d] = call[d]
                           /\ Removes(d, n)' => d # c /\ Removes(d, n) /\ call'[d] = call[d]
                           /\ Registry!Id(d)' = Registry!Id(d)
                           /\ d # c /\ Defines(d, n) => Defines(d, n)'
                           /\ d # c /\ Removes(d, n) => Removes(d, n)'
    BY <1>2, <1>3, <2>2 DEF Defines, Removes, Registry!Id
  <2>4. /\ Defines(c, n) => call[c].at \notin {"publish", "undo"}
        /\ Removes(c, n) => call[c].at # "forget"
    BY DEF Defines, Removes
  <2>5. QED
    BY <1>2, <2>1, <2>3, <2>4, <2>2 DEF NameOk
<1>8. TableInv'
  BY <1>2, <1>5, <1>6, <1>7, CallerMoves
<1>9. QED
  BY <1>1, <1>3, <1>8 DEF Leaves

\* A call is answered without touching catalog or session.
LEMMA QuietTableEnds ==
    ASSUME TableInv, NEW c \in Callers, NEW res \in Registry!Results \ {"repeated"}, Registry!Ends(c, res),
           Registry!Kept, UNCHANGED <<catalog, ctx>>,
           call[c].op = "register" => call[c].at \notin {"publish", "undo"},
           call[c].op = "deregister" => call[c].at # "forget",
           call[c].op = "register" /\ res \in {"exists", "invalid", "failed"} =>
              \/ call[c].at \in Early
              \/ /\ call[c].at \in {"describe", "definition"}
                 /\ ctx[call[c].n] = Registry!None \/ catalog[call[c].n] = Registry!None
    PROVE  TableInv' /\ Leaves(c)
<1>1. CASE Registry!EndsHere(c, res)
  BY <1>1, QuietEndsHere
<1>2. CASE Registry!EndsHere(c, "unavailable")
  <2>1. "unavailable" \in Registry!Results
    BY DEF Registry!Results
  <2>2. QED
    BY <1>2, <2>1, QuietEndsHere
<1>3. QED
  BY <1>1, <1>2 DEF Registry!Ends

\* The way of a call to the service, and its reads.
LEMMA QuietSteps ==
    ASSUME TableInv, NEW c \in Callers,
           \/ Registry!EncodeRegistration(c) \/ Registry!Request(c) \/ Registry!HandleRegistration(c)
           \/ Registry!ValidateRegistration(c) \/ Registry!ResolveIdentifier(c)
           \/ Registry!CheckDefinition(c) \/ Registry!CheckContext(c) \/ Registry!BuildProvider(c)
           \/ Registry!Describe(c) \/ Registry!Definition(c) \/ Registry!LoadDefinition(c)
    PROVE  TableInv' /\ Leaves(c)
<1> USE DEF Registry!At
<1>1. call[c] \in TableCallRecords /\ PlaceOk(call[c])
  BY DEF TableInv, TableTypes, PlaceInv
<1>2. \A p : /\ [call[c] EXCEPT !.at = p].at = p
             /\ [call[c] EXCEPT !.at = p].op = call[c].op /\ [call[c] EXCEPT !.at = p].n = call[c].n
  BY <1>1 DEF TableCallRecords
<1>3. \A res \in {"ok", "exists", "invalid", "failed", "unavailable"} : res \in Registry!Results \ {"repeated"}
  BY DEF Registry!Results
<1>4. Registry!Kept /\ UNCHANGED <<catalog, ctx>>
  BY DEF Registry!EncodeRegistration, Registry!Request, Registry!HandleRegistration,
     Registry!ValidateRegistration, Registry!ResolveIdentifier, Registry!CheckDefinition,
     Registry!CheckContext, Registry!BuildProvider, Registry!Describe, Registry!Definition,
     Registry!LoadDefinition
\* A registration before its creation.
<1>5. ASSUME call[c].op = "register", call[c].at \in Early,
             NEW p \in {"request", "handle", "validate", "check", "context", "provider", "create"},
             Registry!Goto(c, p)
      PROVE  TableInv' /\ Leaves(c)
  <2>1. PlaceOk([call[c] EXCEPT !.at = p])
    BY <1>1, <1>2, <1>5, IdleIs DEF PlaceOk, Registering
  <2>2. p \in Registry!Points \ {"idle", "page", "listed"}
    BY DEF Registry!Points
  <2>3. QED
    BY <1>4, <1>5, <2>1, <2>2, QuietGoes DEF Early
<1>6. ASSUME call[c].op = "register", call[c].at \in Early,
             NEW res \in {"exists", "invalid", "failed", "unavailable"},
             Registry!Ends(c, res) \/ Registry!EndsHere(c, res)
      PROVE  TableInv' /\ Leaves(c)
  <2>1. Registry!Ends(c, res)
    BY <1>6 DEF Registry!Ends
  <2>2. QED
    BY <1>3, <1>4, <1>6, <2>1, QuietTableEnds DEF Early
<1>7. CASE Registry!EncodeRegistration(c)
  BY <1>1, <1>5, <1>6, <1>7 DEF Registry!EncodeRegistration, PlaceOk, Registering, Early
<1>8. CASE Registry!Request(c)
  <2>1. call[c].at = "request" /\ call[c].op \in {"register", "table", "deregister"}
    BY <1>1, <1>8 DEF Registry!Request, PlaceOk
  <2>2. CASE Registry!EndsHere(c, "unavailable")
    BY <1>3, <1>4, <2>1, <2>2, QuietTableEnds DEF Registry!Ends
  <2>3. CASE call[c].op = "register" /\ Registry!Goto(c, "handle")
    BY <1>5, <2>1, <2>3 DEF Early
  <2>4. ASSUME NEW p \in {"describe", "load"}, Registry!Goto(c, p), p = "describe" <=> call[c].op = "table",
               call[c].op # "register"
        PROVE  TableInv' /\ Leaves(c)
    <3>1. PlaceOk([call[c] EXCEPT !.at = p])
      BY <1>1, <1>2, <2>1, <2>4, IdleIs DEF PlaceOk, Registering
    <3>2. p \in Registry!Points \ {"idle", "page", "listed"}
      BY DEF Registry!Points
    <3>3. QED
      BY <1>4, <2>1, <2>4, <3>1, <3>2, QuietGoes
  <2>5. QED
    BY <1>8, <2>1, <2>2, <2>3, <2>4 DEF Registry!Request, Registry!ServiceStart
<1>9. CASE Registry!HandleRegistration(c)
  BY <1>1, <1>5, <1>6, <1>9 DEF Registry!HandleRegistration, Registry!ServiceStart, PlaceOk, Registering, Early
<1>10. CASE Registry!ValidateRegistration(c)
  BY <1>1, <1>5, <1>6, <1>10 DEF Registry!ValidateRegistration, PlaceOk, Registering, Early
<1>11. CASE Registry!ResolveIdentifier(c)
  <2>1. call[c].at = "listed" /\ call[c].op \in {"list", "table", "deregister"}
    BY <1>1, <1>11 DEF Registry!ResolveIdentifier, PlaceOk
  <2>2. CASE call[c].op # "list" /\ Registry!Goto(c, "request")
    <3>1. PlaceOk([call[c] EXCEPT !.at = "request"])
      BY <1>1, <1>2, <2>1, <2>2, IdleIs DEF PlaceOk, Registering
    <3>2. "request" \in Registry!Points \ {"idle", "page", "listed"}
      BY DEF Registry!Points
    <3>3. QED
      BY <1>4, <2>1, <2>2, <3>1, <3>2, QuietGoes
  <2>3. ASSUME NEW res \in {"ok", "invalid"}, Registry!EndsHere(c, res)
        PROVE  TableInv' /\ Leaves(c)
    BY <1>3, <1>4, <2>1, <2>3, QuietTableEnds DEF Registry!Ends
  <2>4. QED
    BY <1>11, <2>2, <2>3 DEF Registry!ResolveIdentifier
<1>12. CASE Registry!CheckDefinition(c)
  BY <1>1, <1>5, <1>6, <1>12 DEF Registry!CheckDefinition, PlaceOk, Registering, Early
<1>13. CASE Registry!CheckContext(c)
  BY <1>1, <1>5, <1>6, <1>13 DEF Registry!CheckContext, PlaceOk, Registering, Early
<1>14. CASE Registry!BuildProvider(c)
  BY <1>1, <1>5, <1>6, <1>14 DEF Registry!BuildProvider, PlaceOk, Registering, Early
<1>15. CASE Registry!Describe(c)
  <2>1. call[c].at = "describe" /\ call[c].op \in {"register", "table"}
    BY <1>1, <1>15 DEF Registry!Describe, PlaceOk
  <2>2. CASE ctx[call[c].n] = Registry!None
    <3>1. Registry!Ends(c, "failed")
      BY <1>15, <2>2 DEF Registry!Describe
    <3>2. QED
      BY <1>3, <1>4, <2>1, <2>2, <3>1, QuietTableEnds
  <2>3. CASE ctx[call[c].n] # Registry!None
    <3>1. Registry!Goto(c, "definition")
      BY <1>15, <2>3 DEF Registry!Describe
    <3>2. PlaceOk([call[c] EXCEPT !.at = "definition"])
      <4> DEFINE e == [call[c] EXCEPT !.at = "definition"]
      <4>1. e.at = "definition" /\ e.op = call[c].op /\ e.n = call[c].n
        BY <1>1, <1>2 DEF TableCallRecords
      <4> HIDE DEF e
      <4>2. e # Registry!Idle
        BY <4>1, IdleIs
      <4>3. PlaceOk(e)
        BY <1>1, <2>1, <4>1, <4>2 DEF PlaceOk, Registering
      <4>4. QED
        BY <4>3 DEF e
    <3>3. "definition" \in Registry!Points \ {"idle", "page", "listed"} /\ "definition" \notin Early
      BY DEF Registry!Points, Early
    <3>4. QED
      BY <1>4, <2>1, <3>1, <3>2, <3>3, QuietGoes
  <2>4. QED
    BY <2>2, <2>3
<1>16. CASE Registry!Definition(c)
  <2>1. call[c].at = "definition" /\ call[c].op \in {"register", "table"}
    BY <1>1, <1>16 DEF Registry!Definition, PlaceOk
  <2>2. CASE catalog[call[c].n] = Registry!None
    <3>1. Registry!Ends(c, "invalid")
      BY <1>16, <2>2 DEF Registry!Definition
    <3>2. QED
      BY <1>3, <1>4, <2>1, <2>2, <3>1, QuietTableEnds
  <2>3. CASE catalog[call[c].n] # Registry!None
    <3>1. Registry!Ends(c, "ok")
      BY <1>16, <2>3 DEF Registry!Definition
    <3>2. QED
      BY <1>3, <1>4, <2>1, <3>1, QuietTableEnds
  <2>4. QED
    BY <2>2, <2>3
<1>17. CASE Registry!LoadDefinition(c)
  <2>1. call[c].at = "load" /\ call[c].op = "deregister"
    BY <1>1, <1>17 DEF Registry!LoadDefinition, PlaceOk
  <2>2. PICK p \in {"forget", "drop"} : Registry!Goto(c, p) /\ (p = "forget" => catalog[call[c].n] = Registry!None)
    BY <1>17 DEF Registry!LoadDefinition
  <2>3. PlaceOk([call[c] EXCEPT !.at = p])
    BY <1>1, <1>2, <2>1, IdleIs DEF PlaceOk, Registering
  <2>4. p \in Registry!Points \ {"idle", "page", "listed"}
    BY DEF Registry!Points
  <2>5. QED
    BY <1>4, <2>1, <2>2, <2>3, <2>4, QuietGoes
<1>18. QED
  BY <1>7, <1>8, <1>9, <1>10, <1>11, <1>12, <1>13, <1>14, <1>15, <1>16, <1>17

\* A call that is at a table: what it writes at its name, and where it goes.
LEMMA LoudMoves ==
    ASSUME TableInv, NEW c \in Callers, NEW r \in TableCallRecords, call' = [call EXCEPT ![c] = r],
           Registry!Kept, PlaceOk(r), r.at \notin Early \cup {"page", "listed"},
           r.op = "none" \/ (r.op = call[c].op /\ r.n = call[c].n),
           call[c].n \in TableNames,
           NEW a \in {catalog[call[c].n], Registry!None, Registry!Id(c)},
           NEW b \in {ctx[call[c].n], Registry!None, Registry!Id(c)},
           catalog' = [catalog EXCEPT ![call[c].n] = a], ctx' = [ctx EXCEPT ![call[c].n] = b],
           \/ r.at # "idle" /\ out' = out
           \/ r = Registry!Idle /\ \E res \in Registry!Results \ {"repeated"} : Answered(c, res) /\ Clean(c, res),
           \A n \in TableNames \ unsettled : n = call[c].n /\ NameOk(n) => NameOk(n)'
    PROVE  TableInv' /\ Leaves(c)
<1>1. TablesMay(c)
  <2>1. a \in Registry!Ids \cup {Registry!None} /\ b \in Registry!Ids \cup {Registry!None}
    BY IdsDiffer DEF TableInv, TableTypes
  <2>2. QED
    BY <2>1 DEF TablesMay, TableInv, TableTypes
<1>2. Elsewhere(c, r) /\ Stays(r)
  BY DEF Elsewhere, Stays, TableInv, TableTypes, Registry!Kept
<1>3. Answers(c, r)
  BY DEF Answers
<1>4. TableInv'
  <2>1. \A n \in TableNames \ unsettled' : n = call[c].n => NameOk(n)'
    BY DEF TableInv, NameInv, Registry!Kept
  <2>2. QED
    BY <1>1, <1>2, <1>3, <2>1, CallerMoves
<1>5. QED
  BY <1>4 DEF Leaves

\* A call that goes on from a table, or ends there.
LEMMA LoudGoes ==
    ASSUME TableInv, NEW c \in Callers, NEW p \in Registry!Points \ (Early \cup {"idle", "page", "listed"}),
           Registry!Goto(c, p), PlaceOk([call[c] EXCEPT !.at = p]),
           Registry!Kept, call[c].n \in TableNames,
           NEW a \in {catalog[call[c].n], Registry!None, Registry!Id(c)},
           NEW b \in {ctx[call[c].n], Registry!None, Registry!Id(c)},
           catalog' = [catalog EXCEPT ![call[c].n] = a], ctx' = [ctx EXCEPT ![call[c].n] = b],
           \A n \in TableNames \ unsettled : n = call[c].n /\ NameOk(n) => NameOk(n)'
    PROVE  TableInv' /\ Leaves(c)
<1> DEFINE r == [call[c] EXCEPT !.at = p]
<1>1. /\ r \in TableCallRecords /\ r.op = call[c].op /\ r.n = call[c].n /\ r.at = p
      /\ call' = [call EXCEPT ![c] = r] /\ out' = out /\ PlaceOk(r)
  BY DEF Registry!Goto, TableInv, TableTypes, TableCallRecords
<1> HIDE DEF r
<1>2. QED
  BY <1>1, LoudMoves

\* A call is answered by the step that changes the catalog or the session.
LEMMA LoudEnds ==
    ASSUME TableInv, NEW c \in Callers, NEW res \in Registry!Results \ {"repeated"}, Registry!Ends(c, res),
           Registry!Kept, call[c].n \in TableNames,
           NEW a \in {catalog[call[c].n], Registry!None, Registry!Id(c)},
           NEW b \in {ctx[call[c].n], Registry!None, Registry!Id(c)},
           catalog' = [catalog EXCEPT ![call[c].n] = a], ctx' = [ctx EXCEPT ![call[c].n] = b],
           call[c].op = "register" /\ call[c].n \notin unsettled => a # Registry!Id(c) /\ b # Registry!Id(c),
           \A n \in TableNames \ unsettled : n = call[c].n /\ NameOk(n) => NameOk(n)'
    PROVE  TableInv' /\ Leaves(c)
<1> DEFINE r == Registry!Idle
<1>1. r \in TableCallRecords /\ PlaceOk(r) /\ r.op = "none" /\ r.at = "idle" /\ r.at \notin Early
  BY IdleIs DEF Early
<1>2. catalog'[call[c].n] = a /\ ctx'[call[c].n] = b
  BY DEF TableInv, TableTypes
<1>3. call' = [call EXCEPT ![c] = r]
  BY DEF Registry!Ends, Registry!EndsHere
<1>4. \E x \in Registry!Results \ {"repeated"} : Answered(c, x)
  BY DEF Registry!Ends, Registry!EndsHere, Answered, Registry!Results
<1>5. \E x \in Registry!Results \ {"repeated"} : Answered(c, x) /\ Clean(c, x)
  BY <1>2, <1>4 DEF Clean, Registry!Kept
<1> HIDE DEF r
<1>6. QED
  BY <1>1, <1>3, <1>5, LoudMoves DEF r

\* Where the call is after such a step, and that the others are where they were.
LEMMA LoudCalls ==
    ASSUME TableInv, NEW c \in Callers, call[c].n \in TableNames,
           NEW p, (p = "idle" /\ \E res : Registry!Ends(c, res)) \/ (p # "idle" /\ Registry!Goto(c, p)),
           Registry!Kept
    PROVE  /\ \A d \in Callers \ {c} : call'[d] = call[d]
           /\ p = "idle" => call'[c].op = "none"
           /\ p # "idle" => call'[c].op = call[c].op /\ call'[c].n = call[c].n /\ call'[c].at = p
           /\ \A d \in Callers : Registry!Id(d)' = Registry!Id(d)
<1>1. \A d \in Callers : Registry!Id(d)' = Registry!Id(d)
  BY DEF Registry!Kept, Registry!Id
<1>2. call[c] \in TableCallRecords /\ call \in [Callers -> TableCallRecords]
  BY DEF TableInv, TableTypes
<1>3. CASE p = "idle"
  BY <1>1, <1>2, <1>3, IdleIs DEF Registry!Ends, Registry!EndsHere
<1>4. CASE p # "idle"
  <2>1. call' = [call EXCEPT ![c] = [call[c] EXCEPT !.at = p]]
    BY <1>4 DEF Registry!Goto
  <2>2. QED
    BY <1>1, <1>2, <1>4, <2>1 DEF TableCallRecords
<1>5. QED
  BY <1>3, <1>4

\* The definition is withdrawn, or drop_table failed and the name is no longer settled.
Withdrawn(c) == catalog' = [catalog EXCEPT ![call[c].n] = Registry!None] /\ UNCHANGED unsettled
LEMMA UndoFails ==
    ASSUME TableInv, NEW c \in Callers, Registry!UndoDefinition(c), ~Withdrawn(c)
    PROVE  TableInv' /\ Leaves(c) /\ UNCHANGED <<catalog, ctx>>
<1> DEFINE r == Registry!Idle
<1>1. /\ call[c].at = "undo" /\ UNCHANGED <<catalog, ctx, calls, restarts>>
      /\ unsettled' = unsettled \cup {call[c].n} /\ Registry!Ends(c, "failed")
  BY DEF Registry!UndoDefinition, Registry!At, Withdrawn
<1>2. r \in TableCallRecords /\ PlaceOk(r) /\ r.op = "none" /\ r.at = "idle"
  BY IdleIs
<1>3. call[c].op = "register" /\ call[c].n \in TableNames
  BY <1>1 DEF TableInv, PlaceInv, PlaceOk, Registering
<1>4. call' = [call EXCEPT ![c] = r]
  BY <1>1 DEF Registry!Ends, Registry!EndsHere
<1>5. PICK res \in Registry!Results \ {"repeated"} : Answered(c, res)
  BY <1>1 DEF Registry!Ends, Registry!EndsHere, Answered, Registry!Results
<1>6. Clean(c, res) /\ Answers(c, r)
  BY <1>1, <1>5 DEF Clean, Answers
<1>7. Elsewhere(c, r) /\ TablesMay(c) /\ Stays(r)
  BY <1>1, <1>2, <1>3, <1>4 DEF Elsewhere, TablesMay, Stays, TableInv, TableTypes
<1> HIDE DEF r
<1>8. TableInv'
  BY <1>1, <1>6, <1>7, CallerMoves
<1>9. QED
  BY <1>1, <1>2, <1>4, <1>5, <1>8 DEF Leaves

\* The steps that write.
LEMMA LoudSteps ==
    ASSUME TableInv, NEW c \in Callers,
           \/ Registry!CreateDefinition(c) \/ Registry!PublishTable(c) \/ Registry!BindSource(c)
           \/ Registry!UndoDefinition(c) /\ Withdrawn(c)
           \/ Registry!DropDefinition(c) \/ Registry!ForgetTable(c)
    PROVE  TableInv' /\ Leaves(c)
<1> USE DEF Registry!At
<1> DEFINE n == call[c].n
           none == Registry!None
           id == Registry!Id(c)
<1>1. call[c] \in TableCallRecords /\ PlaceOk(call[c])
  BY DEF TableInv, TableTypes, PlaceInv
<1>2. \A p : /\ [call[c] EXCEPT !.at = p].at = p
             /\ [call[c] EXCEPT !.at = p].op = call[c].op /\ [call[c] EXCEPT !.at = p].n = call[c].n
  BY <1>1 DEF TableCallRecords
<1>3. \A res \in {"ok", "exists", "invalid", "failed", "unavailable"} : res \in Registry!Results \ {"repeated"}
  BY DEF Registry!Results
<1>4. Registry!Kept /\ call[c].at \in {"create", "publish", "bind", "undo", "drop", "forget"}
  BY DEF Registry!CreateDefinition, Registry!PublishTable, Registry!BindSource, Registry!UndoDefinition,
     Registry!DropDefinition, Registry!ForgetTable, Withdrawn, Registry!Kept
<1>5. /\ n \in TableNames
      /\ call[c].at \in {"create", "publish", "bind", "undo"} => call[c].op = "register"
      /\ call[c].at \in {"drop", "forget"} => call[c].op = "deregister"
  BY <1>1, <1>4 DEF PlaceOk, Registering
<1>6. catalog \in [TableNames -> Registry!Ids \cup {none}] /\ ctx \in [TableNames -> Registry!Ids \cup {none}]
  BY DEF TableInv, TableTypes
<1>7. catalog = [catalog EXCEPT ![n] = catalog[n]] /\ ctx = [ctx EXCEPT ![n] = ctx[n]]
  BY <1>6
<1>8. id # none /\ \A d \in Callers : Registry!Id(d) = id => d = c
  BY IdsDiffer DEF TableInv
<1>9. unsettled' = unsettled /\ n \in Nat \cup TableNames
  BY <1>4, <1>5 DEF Registry!Kept
<1>10. CASE Registry!CreateDefinition(c)
  <2>1. call[c].at = "create" /\ call[c].op = "register" /\ UNCHANGED ctx
    BY <1>5, <1>10 DEF Registry!CreateDefinition
  <2>2. CASE catalog[n] # none
    <3>1. Registry!Ends(c, "exists") /\ UNCHANGED catalog
      BY <1>10, <2>2 DEF Registry!CreateDefinition
    <3>2. QED
      BY <1>3, <1>4, <2>1, <3>1, QuietTableEnds DEF Early
  <2>3. CASE catalog[n] = none
    <3>1. catalog' = [catalog EXCEPT ![n] = id] /\ ctx' = [ctx EXCEPT ![n] = ctx[n]] /\ Registry!Goto(c, "publish")
      BY <1>7, <1>10, <2>1, <2>3 DEF Registry!CreateDefinition
    <3>2. PlaceOk([call[c] EXCEPT !.at = "publish"])
      BY <1>1, <1>2, <2>1, IdleIs DEF PlaceOk, Registering
    <3>3. ASSUME NEW m \in TableNames \ unsettled, m = n, NameOk(m) PROVE NameOk(m)'
      <4>1. ctx[m] = none /\ ctx'[m] = none /\ catalog'[m] = id
        BY <1>6, <1>8, <2>1, <2>3, <3>1, <3>3, IdsDiffer DEF NameOk, Defines, TableInv
      <4>2. /\ \A d \in Callers \ {c} : call'[d] = call[d]
            /\ call'[c].op = call[c].op /\ call'[c].n = call[c].n /\ call'[c].at = "publish"
            /\ \A d \in Callers : Registry!Id(d)' = Registry!Id(d)
        BY <1>4, <1>5, <3>1, LoudCalls
      <4>3. \A d \in Callers : Defines(d, m) /\ d # c => call[d].at \notin {"publish", "undo", "bind", "describe", "definition"}
        BY <2>3, <3>3, IdsDiffer DEF NameOk, TableInv
      <4>4. \A d \in Callers : ~Removes(d, m)
        BY <2>1, <3>3 DEF NameOk, Defines
      <4>5. QED
        BY <2>1, <3>3, <4>1, <4>2, <4>3, <4>4 DEF NameOk, Defines, Removes
    <3>4. QED
      BY <1>4, <1>5, <3>1, <3>2, <3>3, LoudGoes DEF Registry!Points, Early
  <2>4. QED
    BY <2>2, <2>3
<1>11. CASE Registry!PublishTable(c)
  <2>1. call[c].at = "publish" /\ call[c].op = "register" /\ UNCHANGED catalog
    BY <1>5, <1>11 DEF Registry!PublishTable
  <2>2. CASE ctx[n] # none
    <3>1. Registry!Goto(c, "undo") /\ UNCHANGED ctx
      BY <1>11, <2>2 DEF Registry!PublishTable
    <3>2. PlaceOk([call[c] EXCEPT !.at = "undo"])
      BY <1>1, <1>2, <2>1, IdleIs DEF PlaceOk, Registering
    <3>3. QED
      BY <1>4, <2>1, <3>1, <3>2, QuietGoes DEF Registry!Points, Early
  <2>3. CASE ctx[n] = none
    <3>1. catalog' = [catalog EXCEPT ![n] = catalog[n]] /\ ctx' = [ctx EXCEPT ![n] = id] /\ Registry!Goto(c, "bind")
      BY <1>7, <1>11, <2>1, <2>3 DEF Registry!PublishTable
    <3>2. PlaceOk([call[c] EXCEPT !.at = "bind"])
      BY <1>1, <1>2, <2>1, IdleIs DEF PlaceOk, Registering
    <3>3. ASSUME NEW m \in TableNames \ unsettled, m = n, NameOk(m) PROVE NameOk(m)'
      <4>1. ctx'[m] = id /\ catalog[m] = id /\ catalog'[m] = id
        BY <1>6, <2>1, <3>1, <3>3 DEF NameOk, Defines
      <4>2. /\ \A d \in Callers \ {c} : call'[d] = call[d]
            /\ call'[c].op = call[c].op /\ call'[c].n = call[c].n /\ call'[c].at = "bind"
            /\ \A d \in Callers : Registry!Id(d)' = Registry!Id(d)
        BY <1>4, <1>5, <3>1, LoudCalls
      <4>3. \A d \in Callers : Defines(d, m) /\ d # c => call[d].at \notin {"publish", "undo", "bind", "describe", "definition"}
        BY <1>8, <3>3, <4>1 DEF NameOk
      <4>4. \A d \in Callers : ~Removes(d, m)
        BY <2>1, <3>3 DEF NameOk, Defines
      <4>5. QED
        BY <2>1, <3>3, <4>1, <4>2, <4>3, <4>4 DEF NameOk, Defines, Removes
    <3>4. QED
      BY <1>4, <1>5, <3>1, <3>2, <3>3, LoudGoes DEF Registry!Points, Early
  <2>4. QED
    BY <2>2, <2>3
<1>12. CASE Registry!BindSource(c)
  <2>1. call[c].at = "bind" /\ call[c].op = "register" /\ UNCHANGED catalog
    BY <1>5, <1>12 DEF Registry!BindSource
  <2>2. CASE UNCHANGED ctx /\ Registry!Goto(c, "describe")
    <3>1. PlaceOk([call[c] EXCEPT !.at = "describe"])
      BY <1>1, <1>2, <2>1, IdleIs DEF PlaceOk, Registering
    <3>2. QED
      BY <1>4, <2>1, <2>2, <3>1, QuietGoes DEF Registry!Points, Early
  <2>3. CASE UNCHANGED ctx /\ Registry!Ends(c, "ok")
    BY <1>3, <1>4, <2>1, <2>3, QuietTableEnds
  <2>4. CASE ctx' = [ctx EXCEPT ![n] = none] /\ Registry!Goto(c, "undo")
    <3>1. catalog' = [catalog EXCEPT ![n] = catalog[n]]
      BY <1>7, <2>1
    <3>2. PlaceOk([call[c] EXCEPT !.at = "undo"])
      BY <1>1, <1>2, <2>1, IdleIs DEF PlaceOk, Registering
    <3>3. ASSUME NEW m \in TableNames \ unsettled, m = n, NameOk(m) PROVE NameOk(m)'
      <4>1. ctx'[m] = none /\ catalog[m] = id /\ catalog'[m] = id
        BY <1>6, <2>1, <2>4, <3>3 DEF NameOk, Defines
      <4>2. /\ \A d \in Callers \ {c} : call'[d] = call[d]
            /\ call'[c].op = call[c].op /\ call'[c].n = call[c].n /\ call'[c].at = "undo"
            /\ \A d \in Callers : Registry!Id(d)' = Registry!Id(d)
        BY <1>4, <1>5, <2>4, LoudCalls
      <4>3. \A d \in Callers : Defines(d, m) /\ d # c => call[d].at \notin {"publish", "undo", "bind", "describe", "definition"}
        BY <1>8, <3>3, <4>1 DEF NameOk
      <4>4. \A d \in Callers : ~Removes(d, m)
        BY <2>1, <3>3 DEF NameOk, Defines
      <4>5. QED
        BY <2>1, <3>3, <4>1, <4>2, <4>3, <4>4 DEF NameOk, Defines, Removes
    <3>4. QED
      BY <1>4, <1>5, <2>4, <3>1, <3>2, <3>3, LoudGoes DEF Registry!Points, Early
  <2>5. QED
    BY <1>12, <2>2, <2>3, <2>4 DEF Registry!BindSource
<1>13. CASE Registry!UndoDefinition(c) /\ Withdrawn(c)
  <2>1. /\ call[c].at = "undo" /\ call[c].op = "register" /\ Registry!Ends(c, "failed")
        /\ catalog' = [catalog EXCEPT ![n] = none] /\ ctx' = [ctx EXCEPT ![n] = ctx[n]]
    BY <1>5, <1>7, <1>13 DEF Registry!UndoDefinition, Withdrawn
  <2>2. ASSUME NEW m \in TableNames \ unsettled, m = n, NameOk(m) PROVE NameOk(m)' /\ ctx[m] = none
    <3>1. ctx[m] = none /\ ctx'[m] = none /\ catalog[m] = id /\ catalog'[m] = none
      BY <1>6, <2>1, <2>2 DEF NameOk, Defines
    <3>2. /\ \A d \in Callers \ {c} : call'[d] = call[d]
          /\ call'[c].op = "none"
          /\ \A d \in Callers : Registry!Id(d)' = Registry!Id(d)
      BY <1>4, <1>5, <2>1, LoudCalls
    <3>3. \A d \in Callers : Defines(d, m) /\ d # c => call[d].at \notin {"publish", "undo", "bind", "describe", "definition"}
      BY <1>8, <2>2, <3>1 DEF NameOk
    <3>4. \A d \in Callers : ~Removes(d, m)
      BY <2>1, <2>2 DEF NameOk, Defines
    <3>5. QED
      BY <2>1, <2>2, <3>1, <3>2, <3>3, <3>4 DEF NameOk, Defines, Removes
  <2>3. n \notin unsettled => ctx[n] # id
    BY <1>5, <1>8, <2>2 DEF TableInv, NameInv
  <2>4. QED
    BY <1>3, <1>4, <1>5, <1>8, <2>1, <2>2, <2>3, LoudEnds
<1>14. CASE Registry!DropDefinition(c)
  <2>1. call[c].at = "drop" /\ call[c].op = "deregister" /\ UNCHANGED ctx
    BY <1>5, <1>14 DEF Registry!DropDefinition
  <2>2. CASE catalog[n] = none
    <3>1. Registry!Ends(c, "failed") /\ UNCHANGED catalog
      BY <1>14, <2>2 DEF Registry!DropDefinition
    <3>2. QED
      BY <1>3, <1>4, <2>1, <3>1, QuietTableEnds
  <2>3. CASE catalog[n] # none
    <3>1. catalog' = [catalog EXCEPT ![n] = none] /\ ctx' = [ctx EXCEPT ![n] = ctx[n]] /\ Registry!Goto(c, "forget")
      BY <1>7, <1>14, <2>1, <2>3 DEF Registry!DropDefinition
    <3>2. PlaceOk([call[c] EXCEPT !.at = "forget"])
      BY <1>1, <1>2, <2>1, IdleIs DEF PlaceOk, Registering
    <3>3. ASSUME NEW m \in TableNames \ unsettled, m = n, NameOk(m) PROVE NameOk(m)'
      <4>1. catalog'[m] = none
        BY <1>6, <3>1, <3>3
      <4>2. /\ \A d \in Callers \ {c} : call'[d] = call[d]
            /\ call'[c].op = call[c].op /\ call'[c].n = call[c].n /\ call'[c].at = "forget"
            /\ \A d \in Callers : Registry!Id(d)' = Registry!Id(d)
        BY <1>4, <1>5, <3>1, LoudCalls
      <4>3. \A d \in Callers : ~Defines(d, m) /\ ~Defines(d, m)'
        BY <2>1, <3>3, <4>2 DEF NameOk, Defines, Removes
      <4>4. QED
        BY <2>1, <3>3, <4>1, <4>2, <4>3 DEF NameOk, Removes
    <3>4. QED
      BY <1>4, <1>5, <3>1, <3>2, <3>3, LoudGoes DEF Registry!Points, Early
  <2>4. QED
    BY <2>2, <2>3
<1>15. CASE Registry!ForgetTable(c)
  <2>1. /\ call[c].at = "forget" /\ call[c].op = "deregister" /\ Registry!Ends(c, "ok")
        /\ catalog' = [catalog EXCEPT ![n] = catalog[n]] /\ ctx' = [ctx EXCEPT ![n] = none]
    BY <1>5, <1>7, <1>15 DEF Registry!ForgetTable
  <2>2. ASSUME NEW m \in TableNames \ unsettled, m = n, NameOk(m) PROVE NameOk(m)'
    <3>1. catalog[m] = none /\ catalog'[m] = none /\ ctx'[m] = none
      BY <1>6, <2>1, <2>2 DEF NameOk, Removes
    <3>2. /\ \A d \in Callers \ {c} : call'[d] = call[d]
          /\ call'[c].op = "none"
          /\ \A d \in Callers : Registry!Id(d)' = Registry!Id(d)
      BY <1>4, <1>5, <2>1, LoudCalls
    <3>3. \A d \in Callers : ~Defines(d, m) /\ ~Defines(d, m)'
      BY <2>1, <2>2, <3>2 DEF NameOk, Defines, Removes
    <3>4. QED
      BY <2>1, <2>2, <3>1, <3>2, <3>3 DEF NameOk, Removes
  <2>3. QED
    BY <1>3, <1>4, <1>5, <1>8, <2>1, <2>2, LoudEnds
<1>16. QED
  BY <1>10, <1>11, <1>12, <1>13, <1>14, <1>15

\* Any of the operations begins.
LEMMA OperationIs ==
    ASSUME NEW c \in Callers, Registry!Operation(c)
    PROVE  \E op \in Registry!Ops, n \in TableNames \cup {0} :
              /\ Registry!Begin(c, op, n, Registry!Start(c, op))
              /\ op = "list" \/ n \in TableNames
              /\ op = "register" => unsettled' = IF Registry!Running(n, "deregister") = {} THEN unsettled ELSE unsettled \cup {n}
              /\ op = "deregister" => unsettled' = IF Registry!Running(n, "register") = {} THEN unsettled ELSE unsettled \cup {n}
              /\ op \in {"list", "table"} => unsettled' = unsettled
<1>1. Registry!Ops = {"register", "deregister", "table", "list"}
  BY DEF Registry!Ops
<1>2. CASE Registry!ListTables(c)
  BY <1>1, <1>2 DEF Registry!ListTables
<1>3. CASE \E n \in TableNames : Registry!RegisterParquet(c, n)
  BY <1>1, <1>3 DEF Registry!RegisterParquet
<1>4. CASE \E n \in TableNames : Registry!Table(c, n)
  BY <1>1, <1>4 DEF Registry!Table
<1>5. CASE \E n \in TableNames : Registry!DeregisterTable(c, n)
  BY <1>1, <1>5 DEF Registry!DeregisterTable
<1>6. QED
  BY <1>2, <1>3, <1>4, <1>5 DEF Registry!Operation

\* The record of a call that begins.
LEMMA BegunIs ==
    ASSUME TableInv, NEW c \in Callers, Registry!Operation(c)
    PROVE  /\ call[c] = Registry!Idle
           /\ \E r \in TableCallRecords :
                 /\ call' = [call EXCEPT ![c] = r] /\ PlaceOk(r) /\ r.got = << >> /\ r.tokens = << >>
                 /\ r.op = "register" => r.at \in {"validate", "encode"}
                 /\ r.op = "deregister" => r.at \in {"load", "page"}
                 /\ r.at \notin {"idle", "listed"}
                 /\ r.n \notin TableNames => r.op = "list"
                 /\ \A n \in TableNames \ unsettled' : n = r.n =>
                       /\ r.op = "register" => Registry!Running(n, "deregister") = {}
                       /\ r.op = "deregister" => Registry!Running(n, "register") = {}
           /\ unsettled \subseteq unsettled' /\ unsettled' \subseteq TableNames
           /\ out' = [out EXCEPT ![c] = Registry!NoOutcome]
           /\ calls' = [calls EXCEPT ![c] = @ + 1] /\ calls[c] + 1 \in 0 .. TableCalls
           /\ UNCHANGED <<catalog, ctx, restarts>>
<1>1. PICK op \in Registry!Ops, n \in TableNames \cup {0} :
              /\ Registry!Begin(c, op, n, Registry!Start(c, op))
              /\ op = "list" \/ n \in TableNames
              /\ op = "register" => unsettled' = IF Registry!Running(n, "deregister") = {} THEN unsettled ELSE unsettled \cup {n}
              /\ op = "deregister" => unsettled' = IF Registry!Running(n, "register") = {} THEN unsettled ELSE unsettled \cup {n}
              /\ op \in {"list", "table"} => unsettled' = unsettled
  BY OperationIs
<1>2. op \in {"register", "deregister", "table", "list"}
  BY DEF Registry!Ops
<1> DEFINE p == Registry!Start(c, op)
           r == [Registry!Idle EXCEPT !.op = op, !.n = n, !.at = p]
<1>3. /\ p \in {"validate", "encode", "page", "describe", "load"}
      /\ op = "register" <=> p \in {"validate", "encode"}
      /\ p = "load" => op = "deregister"
      /\ p = "describe" => op = "table"
  BY <1>2 DEF Registry!Start, Registry!ServiceStart
<1>4. /\ call[c].at = "idle" /\ Registry!Cardinality(Registry!Begun) < TableCalls
      /\ call' = [call EXCEPT ![c] = r] /\ calls' = [calls EXCEPT ![c] = @ + 1]
      /\ out' = [out EXCEPT ![c] = Registry!NoOutcome] /\ UNCHANGED <<catalog, ctx, restarts>>
  BY <1>1 DEF Registry!Begin, Registry!At
<1> HIDE DEF p
<1>5. /\ r \in TableCallRecords /\ r.op = op /\ r.n = n /\ r.at = p /\ r.got = << >> /\ r.tokens = << >>
  <2>1. p \in Registry!Points
    BY <1>3 DEF Registry!Points
  <2>2. << >> \in Seq(TableNames) /\ << >> \in Seq(Nat)
    OBVIOUS
  <2>3. QED
    BY <2>1, <2>2 DEF Registry!Idle, TableCallRecords
<1> HIDE DEF r
<1>6. PlaceOk(r)
  BY <1>1, <1>2, <1>3, <1>5, IdleIs DEF PlaceOk, Registering
<1>7. call[c] = Registry!Idle
  BY <1>4 DEF TableInv, PlaceInv, PlaceOk
<1>8. unsettled \subseteq unsettled' /\ unsettled' \subseteq TableNames
  BY <1>1, <1>2 DEF TableInv, TableTypes
<1>9. calls[c] + 1 \in 0 .. TableCalls
  BY <1>4, RoomForCall DEF TableInv
<1>10. \A m \in TableNames \ unsettled' : m = n =>
          /\ op = "register" => Registry!Running(m, "deregister") = {}
          /\ op = "deregister" => Registry!Running(m, "register") = {}
  BY <1>1
<1>11. QED
  BY <1>1, <1>2, <1>3, <1>4, <1>5, <1>6, <1>7, <1>8, <1>9, <1>10

\* A call begins; one that overlaps its opposite makes the name an unsettled one.
LEMMA BeginsTables ==
    ASSUME TableInv, NEW c \in Callers, Registry!Operation(c)
    PROVE  TableInv'
<1>1. /\ call[c] = Registry!Idle /\ unsettled \subseteq unsettled' /\ unsettled' \subseteq TableNames
      /\ out' = [out EXCEPT ![c] = Registry!NoOutcome]
      /\ calls' = [calls EXCEPT ![c] = @ + 1] /\ calls[c] + 1 \in 0 .. TableCalls
      /\ UNCHANGED <<catalog, ctx, restarts>>
  BY BegunIs
<1>2. PICK r \in TableCallRecords :
                 /\ call' = [call EXCEPT ![c] = r] /\ PlaceOk(r)
                 /\ r.op = "register" => r.at \in {"validate", "encode"}
                 /\ r.op = "deregister" => r.at \in {"load", "page"}
                 /\ r.at \notin {"idle", "listed"}
                 /\ \A n \in TableNames \ unsettled' : n = r.n =>
                       /\ r.op = "register" => Registry!Running(n, "deregister") = {}
                       /\ r.op = "deregister" => Registry!Running(n, "register") = {}
  BY BegunIs
<1>3. call' \in [Callers -> TableCallRecords] /\ call'[c] = r /\ \A d \in Callers \ {c} : call'[d] = call[d]
  BY <1>2 DEF TableInv, TableTypes
<1>4. Registry!NoOutcome \in OutRecords /\ Registry!NoOutcome.op = "none"
  BY DEF Registry!NoOutcome, OutRecords, Registry!Ops, Registry!Results
<1>5. out' \in [Callers -> OutRecords] /\ out'[c] = Registry!NoOutcome /\ \A d \in Callers \ {c} : out'[d] = out[d]
  BY <1>1, <1>4 DEF TableInv, TableTypes
<1>6. /\ calls \in [Callers -> 0 .. TableCalls] /\ calls' \in [Callers -> 0 .. TableCalls]
      /\ calls'[c] = calls[c] + 1 /\ \A d \in Callers \ {c} : calls'[d] = calls[d]
  BY <1>1 DEF TableInv, TableTypes
<1>7. \A d \in Callers \ {c} : Registry!Id(d)' = Registry!Id(d)
  BY <1>6 DEF Registry!Id
<1>8. TableTypes'
  BY <1>1, <1>3, <1>5, <1>6 DEF TableInv, TableTypes
<1>9. PlaceInv'
  BY <1>2, <1>3, <1>4, <1>5 DEF TableInv, PlaceInv
<1>10. IdInv'
  <2>1. \A n \in TableNames : Known(catalog[n]) /\ Known(ctx[n])
    BY DEF TableInv, IdInv
  <2>2. \A d \in Callers : calls[d] <= calls'[d] /\ calls[d] \in Nat /\ calls'[d] \in Nat
    BY <1>6
  <2>3. \A n \in TableNames : Known(catalog[n])' /\ Known(ctx[n])'
    BY <1>1, <2>1, <2>2 DEF Known
  <2>4. \A n \in TableNames : catalog[n] # <<c, calls[c] + 1>> /\ ctx[n] # <<c, calls[c] + 1>>
    <3>1. ASSUME NEW i, Known(i) PROVE i # <<c, calls[c] + 1>>
      BY <2>2, <3>1 DEF Known
    <3>2. QED
      BY <2>1, <3>1
  <2>5. Registry!Id(c)' = <<c, calls[c] + 1>>
    BY <1>6 DEF Registry!Id
  <2>6. ASSUME NEW d \in Callers, NEW n \in TableNames, call'[d].op = "register", call'[d].at \in Early
        PROVE  catalog'[n] # Registry!Id(d)' /\ ctx'[n] # Registry!Id(d)'
    <3>1. CASE d = c
      BY <1>1, <2>4, <2>5, <3>1
    <3>2. CASE d # c
      BY <1>1, <1>3, <1>7, <2>6, <3>2 DEF TableInv, IdInv
    <3>3. QED
      BY <3>1, <3>2
  <2>7. QED
    BY <2>3, <2>6 DEF IdInv
<1>11. NameInv'
  <2> SUFFICES ASSUME NEW n \in TableNames \ unsettled' PROVE NameOk(n)'
    BY DEF NameInv
  <2>1. NameOk(n)
    BY <1>1 DEF TableInv, NameInv
  <2>2. ~Defines(c, n) /\ ~Removes(c, n)
    BY <1>1, IdleIs DEF Defines, Removes
  <2>3. \A d \in Callers \ {c} : (Defines(d, n)' <=> Defines(d, n)) /\ (Removes(d, n)' <=> Removes(d, n))
    BY <1>3 DEF Defines, Removes
  <2>4. /\ Defines(c, n)' => call'[c].at \in {"validate", "encode"} /\ \A d \in Callers : ~Removes(d, n)
        /\ Removes(c, n)' => call'[c].at \in {"load", "page"} /\ \A d \in Callers : ~Defines(d, n)
    <3>1. \A d \in Callers : /\ Defines(d, n) => d \in Registry!Running(n, "register")
                             /\ Removes(d, n) => d \in Registry!Running(n, "deregister")
      <4>1. \A d \in Callers : call[d].op # "none" => call[d].at # "idle"
        BY IdleIs DEF TableInv, PlaceInv, PlaceOk
      <4>2. QED
        BY <4>1 DEF Defines, Removes, Registry!Running
    <3>2. /\ Defines(c, n)' => r.op = "register" /\ r.n = n
          /\ Removes(c, n)' => r.op = "deregister" /\ r.n = n
      BY <1>3 DEF Defines, Removes
    <3>3. QED
      BY <1>2, <1>3, <3>1, <3>2
  <2>5. \A d, e \in Callers : ~(Defines(d, n)' /\ Removes(e, n)')
    <3>1. ~(Defines(c, n)' /\ Removes(c, n)')
      BY DEF Defines, Removes
    <3>2. QED
      BY <2>1, <2>3, <2>4, <3>1 DEF NameOk
  <2>6. \A d \in Callers : Defines(d, n)' =>
          /\ call'[d].at \in {"publish", "undo"} => catalog[n] = Registry!Id(d)' /\ ctx[n] = Registry!None
          /\ call'[d].at \in {"bind", "describe", "definition"} =>
                catalog[n] = Registry!Id(d)' /\ ctx[n] = Registry!Id(d)'
    BY <1>3, <1>7, <2>1, <2>3, <2>4 DEF NameOk
  <2>7. \A d \in Callers : Removes(d, n)' /\ call'[d].at = "forget" => catalog[n] = Registry!None
    BY <1>3, <2>1, <2>3, <2>4 DEF NameOk
  <2>8. catalog[n] # ctx[n] =>
          \/ \E d \in Callers : Defines(d, n)' /\ call'[d].at \in {"publish", "undo"}
          \/ catalog[n] = Registry!None /\ \E d \in Callers : Removes(d, n)' /\ call'[d].at = "forget"
    BY <1>3, <2>1, <2>2, <2>3 DEF NameOk
  <2>9. QED
    BY <1>1, <2>5, <2>6, <2>7, <2>8 DEF NameOk
<1>12. Registry!FailedLeavesNothing'
  <2> SUFFICES ASSUME NEW d \in Callers, call'[d].at = "idle", out'[d].op = "register", out'[d].n \notin unsettled',
                      out'[d].res \in {"exists", "invalid", "failed"}
               PROVE  catalog'[out'[d].n] # Registry!Id(d)' /\ ctx'[out'[d].n] # Registry!Id(d)'
    BY DEF Registry!FailedLeavesNothing, Registry!At
  <2>1. d # c
    BY <1>4, <1>5
  <2>2. QED
    BY <1>1, <1>3, <1>5, <1>7, <2>1 DEF TableInv, Registry!FailedLeavesNothing, Registry!At
<1>13. QED
  BY <1>8, <1>9, <1>10, <1>11, <1>12 DEF TableInv

\* A restart ends every call and restores the session from the catalog.
LEMMA RestartTables ==
    ASSUME TableInv, Registry!Restart
    PROVE  /\ TableInv' /\ \A c \in Callers : call'[c] = Registry!Idle
           /\ \A c \in Callers : out'[c].res = out[c].res \/ out'[c].res = "unavailable"
<1>1. /\ call' = [c \in Callers |-> Registry!Idle] /\ ctx' = catalog /\ catalog' = catalog
      /\ calls' = calls /\ unsettled' = unsettled /\ restarts < TableRestarts /\ restarts' = restarts + 1
  BY DEF Registry!Restart
<1>2. \A c \in Callers : call'[c] = Registry!Idle
  BY <1>1
<1>3. ASSUME NEW c \in Callers
      PROVE  /\ out'[c] = IF call[c].at = "idle" THEN out[c]
                          ELSE [op |-> call[c].op, n |-> call[c].n, res |-> "unavailable"]
             /\ out'[c] \in OutRecords
             /\ out'[c].op = "register" => out'[c].n \in TableNames
             /\ out'[c].res = out[c].res \/ out'[c].res = "unavailable"
  <2>1. out'[c] = IF call[c].at = "idle" THEN out[c]
                  ELSE [op |-> call[c].op, n |-> call[c].n, res |-> "unavailable"]
    BY DEF Registry!Restart, Registry!At
  <2>2. /\ out[c] \in OutRecords /\ call[c] \in TableCallRecords /\ PlaceOk(call[c])
        /\ out[c].op = "register" => out[c].n \in TableNames
    BY DEF TableInv, TableTypes, PlaceInv
  <2>3. CASE call[c].at = "idle"
    BY <2>1, <2>2, <2>3
  <2>4. CASE call[c].at # "idle"
    BY <2>1, <2>2, <2>4 DEF OutRecords, TableCallRecords, Registry!Results, PlaceOk
  <2>5. QED
    BY <2>1, <2>3, <2>4
<1>4. TableTypes'
  <2>1. out' \in [Callers -> OutRecords]
    BY <1>3 DEF Registry!Restart
  <2>2. call' \in [Callers -> TableCallRecords]
    BY <1>1, IdleIs
  <2>3. QED
    BY <1>1, <2>1, <2>2, RegistryConstants DEF TableInv, TableTypes
<1>5. PlaceInv'
  BY <1>2, <1>3, IdleIs DEF PlaceInv
<1>6. IdInv'
  <2>1. \A n \in TableNames : Known(catalog[n])' /\ Known(ctx[n])'
    BY <1>1 DEF TableInv, IdInv, Known
  <2>2. QED
    BY <1>2, <2>1, IdleIs DEF IdInv
<1>7. NameInv'
  BY <1>1, <1>2, IdleIs DEF NameInv, NameOk, Defines, Removes
<1>8. Registry!FailedLeavesNothing'
  <2>1. \A d \in Callers : Registry!Id(d)' = Registry!Id(d)
    BY <1>1 DEF Registry!Id
  <2> SUFFICES ASSUME NEW d \in Callers, out'[d].op = "register", out'[d].n \notin unsettled,
                      out'[d].res \in {"exists", "invalid", "failed"}
               PROVE  catalog[out'[d].n] # Registry!Id(d)
    BY <1>1, <2>1 DEF Registry!FailedLeavesNothing
  <2>2. call[d].at = "idle" /\ out'[d] = out[d]
    <3>1. CASE call[d].at # "idle"
      <4>1. out'[d] = [op |-> call[d].op, n |-> call[d].n, res |-> "unavailable"]
        BY <1>3, <3>1
      <4>2. QED
        BY <4>1
    <3>2. QED
      BY <1>3, <3>1
  <2>3. QED
    BY <2>2 DEF TableInv, Registry!FailedLeavesNothing, Registry!At
<1>9. QED
  BY <1>2, <1>3, <1>4, <1>5, <1>6, <1>7, <1>8 DEF TableInv

-----------------------------------------------------------------------------
(* Listings.                                                               *)

\* Only names are registered.
LEMMA RegisteredIs == Registry!Registered \subseteq TableNames
  BY DEF Registry!Registered

\* One page: what follows the offset, in order, and where the next page begins.
LEMMA PageIs ==
    ASSUME NEW o \in Nat
    PROVE  LET all == Registry!InOrder(Registry!Registered)
               page == Registry!Page(o)
           IN  /\ page.tables \in Seq(Registry!Registered) /\ page.token \in Nat
               /\ page.token # 0 => o < page.token /\ page.token <= Len(all)
               /\ o <= Len(all) => SubSeq(all, 1, o) \o page.tables
                                      = SubSeq(all, 1, IF page.token # 0 THEN page.token ELSE Len(all))
<1> DEFINE all == Registry!InOrder(Registry!Registered)
           k == Len(all)
           m == Registry!Min({o + PageSize, k})
           s == SubSeq(all, o + 1, m)
           page == Registry!Page(o)
           held == page.tables
           token == page.token
<1>1. all \in Seq(Registry!Registered) /\ k \in Nat
  BY RegisteredIs, InOrderIs
<1>2. PageSize \in Nat /\ PageSize # 0
  BY RegistryConstants
<1>3. held = s /\ token = IF o + Len(s) < k THEN o + Len(s) ELSE 0
  BY DEF Registry!Page, Registry!Slice
<1> HIDE DEF all, page, held, token
<1>4. m \in {o + PageSize, k} /\ m <= o + PageSize /\ m <= k
  <2> DEFINE a == o + PageSize
  <2>1. a \in Nat /\ k \in Nat
    BY <1>1, <1>2
  <2> HIDE DEF a, k
  <2>2. \E x \in {a, k} : \A y \in {a, k} : x <= y
    BY <2>1
  <2>3. Registry!Min({a, k}) \in {a, k} /\ \A y \in {a, k} : Registry!Min({a, k}) <= y
    BY <2>2, RegistryOperators
  <2>4. QED
    BY <2>3 DEF a
<1> HIDE DEF m, k
<1>5. m \in Nat
  BY <1>1, <1>2, <1>4
<1>6. ASSUME o < k
      PROVE  /\ held \in Seq(Registry!Registered) /\ token \in Nat
             /\ token # 0 => o < token /\ token <= k
             /\ o <= k => SubSeq(all, 1, o) \o held = SubSeq(all, 1, IF token # 0 THEN token ELSE k)
  <2>1. o < m /\ m <= k
    BY <1>1, <1>2, <1>4, <1>6
  <2>2. s \in Seq(Registry!Registered) /\ Len(s) = m - o
    BY <1>1, <1>5, <2>1, SubSeqProperties DEF k
  <2>3. token = IF m < k THEN m ELSE 0
    BY <1>3, <1>5, <2>2
  <2>4. SubSeq(all, 1, o) \o s = SubSeq(all, 1, m)
    BY <1>1, <1>5, <1>6, <2>1 DEF k
  <2>5. m >= k => m = k
    BY <2>1, <1>1, <1>5
  <2>6. QED
    <3>1. CASE m < k
      BY <1>1, <1>3, <1>5, <2>1, <2>2, <2>3, <2>4, <3>1
    <3>2. CASE m = k
      BY <1>1, <1>3, <1>5, <2>1, <2>2, <2>3, <2>4, <3>2
    <3>3. QED
      BY <1>1, <1>5, <2>5, <3>1, <3>2
<1>7. ASSUME k <= o
      PROVE  /\ held \in Seq(Registry!Registered) /\ token \in Nat
             /\ token # 0 => o < token /\ token <= k
             /\ o <= k => SubSeq(all, 1, o) \o held = SubSeq(all, 1, IF token # 0 THEN token ELSE k)
  <2>1. m = k
    BY <1>1, <1>2, <1>4, <1>7
  <2>2. s = << >> /\ Len(s) = 0 /\ s \in Seq(Registry!Registered)
    BY <1>1, <1>7, <2>1 DEF k
  <2>3. token = 0 /\ held = << >>
    BY <1>1, <1>3, <1>7, <2>2
  <2>4. o <= k => SubSeq(all, 1, o) \o << >> = SubSeq(all, 1, k)
    <3>1. SubSeq(all, 1, k) \in Seq(Registry!Registered)
      BY <1>1 DEF k
    <3>2. QED
      BY <1>1, <1>7, <3>1
  <2>5. QED
    BY <2>2, <2>3, <2>4
<1>8. /\ held \in Seq(Registry!Registered) /\ token \in Nat
      /\ token # 0 => o < token /\ token <= k
      /\ o <= k => SubSeq(all, 1, o) \o held = SubSeq(all, 1, IF token # 0 THEN token ELSE k)
  BY <1>1, <1>6, <1>7
<1>9. QED
  BY <1>8 DEF all, page, k, held, token

Histories == [always : SUBSET TableNames, ever : SUBSET TableNames]

\* The history of a call that does not list, and of one that goes on.
LEMMA TrackIs ==
    ASSUME Registry!Track, NEW d \in Callers, ListInv
    PROVE  /\ hist'[d] \in Histories
           /\ call'[d].at \notin {"page", "listed"} => hist'[d] = Registry!NotListing
           /\ call'[d].at \in {"page", "listed"} /\ call[d].at = "page" =>
                 /\ hist'[d].always = hist[d].always \cap Registry!Registered'
                 /\ hist'[d].ever = hist[d].ever \cup Registry!Registered'
           /\ call'[d].at \in {"page", "listed"} /\ call[d].at = "listed" => hist'[d] = hist[d]
           /\ call'[d].at \in {"page", "listed"} /\ call[d].at \notin {"page", "listed"} =>
                 hist'[d].always = Registry!Registered' /\ hist'[d].ever = Registry!Registered'
<1>1. Registry!Registered' \subseteq TableNames
  BY DEF Registry!Registered
<1>2. hist[d] \in Histories
  BY DEF ListInv, Histories
<1>3. hist'[d] = IF call'[d].at \notin {"page", "listed"} THEN Registry!NotListing
                 ELSE IF call[d].at = "page" THEN [always |-> hist[d].always \cap Registry!Registered',
                                                   ever |-> hist[d].ever \cup Registry!Registered']
                 ELSE IF call[d].at = "listed" THEN hist[d]
                 ELSE [always |-> Registry!Registered', ever |-> Registry!Registered']
  BY DEF Registry!Track, Registry!At
<1>4. Registry!NotListing \in Histories
  BY DEF Registry!NotListing, Histories
<1> DEFINE new == Registry!Registered'
<1> HIDE DEF new
<1>5. hist[d].always \subseteq TableNames /\ hist[d].ever \subseteq TableNames /\ new \subseteq TableNames
  BY <1>1, <1>2 DEF Histories, new
<1>6. /\ [always |-> hist[d].always \cap new, ever |-> hist[d].ever \cup new] \in Histories
      /\ [always |-> new, ever |-> new] \in Histories
  BY <1>5 DEF Histories
<1>7. CASE call'[d].at \notin {"page", "listed"}
  BY <1>3, <1>4, <1>7
<1>8. CASE call'[d].at \in {"page", "listed"} /\ call[d].at = "page"
  BY <1>3, <1>6, <1>8 DEF new
<1>9. CASE call'[d].at \in {"page", "listed"} /\ call[d].at = "listed"
  BY <1>2, <1>3, <1>9
<1>10. CASE call'[d].at \in {"page", "listed"} /\ call[d].at \notin {"page", "listed"}
  BY <1>3, <1>6, <1>10 DEF new
<1>11. QED
  BY <1>7, <1>8, <1>9, <1>10

\* A caller that is not listing claims nothing about a listing.
LEMMA ListingLeft ==
    ASSUME NEW r, NEW reg, r.at \notin {"page", "listed"}
    PROVE  ListOk(r, Registry!NotListing, reg)
  BY DEF ListOk, Registry!NotListing

\* A listing of another caller: if what is registered always and ever is the same, nothing
\* changed.
LEMMA ListingKept ==
    ASSUME ListInv, Registry!Track, NEW d \in Callers, call'[d] = call[d]
    PROVE  ListOk(call'[d], hist'[d], Registry!Registered')
<1> DEFINE reg == Registry!Registered
           new == Registry!Registered'
           h == hist[d]
           g == hist'[d]
           r == call[d]
<1>1. ListOk(r, h, reg)
  BY DEF ListInv
<1>2. /\ r.at \notin {"page", "listed"} => g = Registry!NotListing
      /\ r.at = "page" => g.always = h.always \cap new /\ g.ever = h.ever \cup new
      /\ r.at = "listed" => g = h
  BY TrackIs
<1> HIDE DEF reg, new, h, g, r
<1>3. CASE r.at \notin {"page", "listed"}
  BY <1>2, <1>3, ListingLeft DEF r, g, new
<1>4. CASE r.at = "page"
  <2>1. /\ h.always \subseteq h.ever /\ Named(r.got) \subseteq h.ever /\ h.always \subseteq reg /\ reg \subseteq h.ever
        /\ \A i \in DOMAIN r.tokens : r.tokens[i] <= Offset(r)
        /\ h.always = h.ever => /\ Offset(r) <= Cardinality(reg)
                                /\ r.got = SubSeq(Registry!InOrder(reg), 1, Offset(r))
    BY <1>1, <1>4 DEF ListOk
  <2>2. g.always \subseteq g.ever /\ Named(r.got) \subseteq g.ever /\ g.always \subseteq new /\ new \subseteq g.ever
    BY <1>2, <1>4, <2>1
  <2>3. g.always = g.ever => new = reg /\ h.always = h.ever
    BY <1>2, <1>4, <2>1
  <2>4. ListOk(r, g, new)
    BY <1>4, <2>1, <2>2, <2>3 DEF ListOk
  <2>5. QED
    BY <2>4 DEF r, g, new
<1>5. CASE r.at = "listed"
  <2>1. ListOk(r, g, new)
    BY <1>1, <1>2, <1>5 DEF ListOk
  <2>2. QED
    BY <2>1 DEF r, g, new
<1>6. QED
  BY <1>3, <1>4, <1>5

\* The listing of the caller that moves is left to show.
LEMMA ListsKept ==
    ASSUME RegistryInv, Registry!Track, NEW c \in Callers,
           \A d \in Callers \ {c} : call'[d] = call[d] /\ out'[d] = out[d],
           ListOk(call'[c], hist'[c], Registry!Registered'), out'[c].res # "repeated"
    PROVE  ListInv'
<1>1. ListInv
  BY DEF RegistryInv
<1>2. \A d \in Callers : ListOk(call'[d], hist'[d], Registry!Registered')
  BY <1>1, ListingKept
<1>3. hist' \in [Callers -> Histories]
  <2>1. \A d \in Callers : hist'[d] \in Histories
    BY <1>1, TrackIs
  <2>2. DOMAIN hist' = Callers /\ hist' = [d \in Callers |-> hist'[d]]
    BY DEF Registry!Track
  <2>3. QED
    BY <2>1, <2>2
<1>4. \A d \in Callers : out'[d].res # "repeated"
  BY <1>1 DEF ListInv
<1>5. QED
  BY <1>2, <1>3, <1>4 DEF ListInv, Histories

\* A step of a caller that is not listing, seen by those that are.
LEMMA LeavesLists ==
    ASSUME RegistryInv, Registry!Track, NEW c \in Callers, Leaves(c)
    PROVE  ListInv'
<1>1. PICK r \in TableCallRecords : call' = [call EXCEPT ![c] = r] /\ r.at \notin {"page", "listed"}
  BY DEF Leaves
<1>2. call'[c] = r /\ \A d \in Callers \ {c} : call'[d] = call[d]
  BY <1>1 DEF RegistryInv, TableInv, TableTypes
<1>3. ListOk(call'[c], hist'[c], Registry!Registered')
  BY <1>1, <1>2, TrackIs, ListingLeft DEF RegistryInv
<1>4. (\A d \in Callers \ {c} : out'[d] = out[d]) /\ out'[c].res # "repeated"
  <2>1. CASE out' = out
    BY <2>1 DEF RegistryInv, ListInv
  <2>2. CASE \E res \in Registry!Results \ {"repeated"} : Answered(c, res)
    BY <2>2 DEF Answered, RegistryInv, TableInv, TableTypes
  <2>3. QED
    BY <2>1, <2>2 DEF Leaves
<1>5. QED
  BY <1>2, <1>3, <1>4, ListsKept

\* A listing begins with what is registered now.
LEMMA BeginsLists ==
    ASSUME RegistryInv, Registry!Track, NEW c \in Callers, Registry!Operation(c)
    PROVE  ListInv'
<1>0. TableInv /\ ListInv
  BY DEF RegistryInv
<1>1. /\ call[c] = Registry!Idle /\ out' = [out EXCEPT ![c] = Registry!NoOutcome]
  BY <1>0, BegunIs
<1>2. PICK r \in TableCallRecords :
                 /\ call' = [call EXCEPT ![c] = r] /\ r.got = << >> /\ r.tokens = << >>
                 /\ r.at \notin {"idle", "listed"}
  BY <1>0, BegunIs
<1>3. call'[c] = r /\ \A d \in Callers \ {c} : call'[d] = call[d]
  BY <1>0, <1>2 DEF TableInv, TableTypes
<1>4. (\A d \in Callers \ {c} : out'[d] = out[d]) /\ out'[c].res # "repeated"
  BY <1>0, <1>1 DEF TableInv, TableTypes, Registry!NoOutcome
<1>5. ListOk(call'[c], hist'[c], Registry!Registered')
  <2>1. CASE r.at # "page"
    BY <1>0, <1>2, <1>3, <2>1, TrackIs, ListingLeft
  <2>2. CASE r.at = "page"
    <3> DEFINE new == Registry!Registered'
    <3>1. hist'[c].always = new /\ hist'[c].ever = new /\ new \subseteq TableNames
      BY <1>0, <1>1, <1>3, <2>2, IdleIs, TrackIs DEF Registry!Registered
    <3>2. Cardinality(new) \in Nat /\ Registry!InOrder(new) \in Seq(TableNames)
      BY <3>1, InOrderIs
    <3>3. Offset(r) = 0 /\ DOMAIN r.tokens = {} /\ Named(r.got) = {}
      BY <1>2 DEF Offset, Named
    <3>4. SubSeq(Registry!InOrder(new), 1, 0) = << >>
      BY <3>2
    <3> HIDE DEF new
    <3>5. ListOk(r, hist'[c], new)
      BY <1>2, <2>2, <3>1, <3>2, <3>3, <3>4 DEF ListOk
    <3>6. QED
      BY <1>3, <3>5 DEF new
  <2>3. QED
    BY <2>1, <2>2
<1>6. QED
  BY <1>3, <1>4, <1>5, ListsKept

\* A page more: its token is past every token the call has seen.
LEMMA FollowStep ==
    ASSUME RegistryInv, Registry!Track, NEW c \in Callers, Registry!FollowPages(c)
    PROVE  TableInv' /\ ListInv'
<1>0. TableInv /\ ListInv
  BY DEF RegistryInv
<1> DEFINE cur == call[c]
           o == Offset(cur)
           page == Registry!Page(o)
           more == cur.got \o page.tables
           reg == Registry!Registered
           all == Registry!InOrder(reg)
<1>1. cur \in TableCallRecords /\ PlaceOk(cur) /\ cur.at = "page" /\ ListOk(cur, hist[c], reg)
  BY <1>0 DEF TableInv, TableTypes, PlaceInv, ListInv, Registry!FollowPages, Registry!At
<1>2. cur.got \in Seq(TableNames) /\ cur.tokens \in Seq(Nat)
  BY <1>1 DEF TableCallRecords
<1>3. o \in Nat
  BY <1>2 DEF Offset
<1>4. (IF cur.tokens = << >> THEN 0 ELSE Registry!Last(cur.tokens)) = o
  BY RegistryOperators DEF Offset
<1>5. Registry!Kept /\ UNCHANGED <<catalog, ctx, calls, restarts, unsettled>>
  BY DEF Registry!FollowPages, Registry!Kept
<1>6. /\ page.tables \in Seq(reg) /\ page.token \in Nat
      /\ page.token # 0 => o < page.token /\ page.token <= Len(all)
      /\ o <= Len(all) => SubSeq(all, 1, o) \o page.tables
                             = SubSeq(all, 1, IF page.token # 0 THEN page.token ELSE Len(all))
  BY <1>3, PageIs
<1>7. reg \subseteq TableNames /\ Registry!Registered' = reg
  BY <1>5 DEF Registry!Registered
<1>8. Len(all) = Cardinality(reg) /\ all \in Seq(reg) /\ Cardinality(reg) \in Nat
  BY <1>7, InOrderIs
<1>9. \/ Registry!EndsHere(c, "unavailable")
      \/ /\ page.token = 0 /\ UNCHANGED out
         /\ call' = [call EXCEPT ![c].got = more, ![c].at = "listed"]
      \/ /\ page.token # 0 /\ page.token \in Registry!Range(cur.tokens) /\ Registry!EndsHere(c, "repeated")
      \/ /\ page.token # 0 /\ page.token \notin Registry!Range(cur.tokens) /\ UNCHANGED out
         /\ call' = [call EXCEPT ![c].got = more, ![c].tokens = Append(@, page.token)]
  <2> HIDE DEF o
  <2> QED
    BY <1>4 DEF Registry!FollowPages
<1> HIDE DEF page, more, o, all, reg
<1>10. ~(page.token # 0 /\ page.token \in Registry!Range(cur.tokens))
  <2>1. ASSUME page.token # 0, page.token \in Registry!Range(cur.tokens) PROVE FALSE
    <3>1. PICK i \in DOMAIN cur.tokens : page.token = cur.tokens[i]
      BY <2>1, RegistryOperators
    <3>2. page.token <= o
      BY <1>1, <3>1 DEF ListOk, o
    <3>3. QED
      BY <1>3, <1>6, <2>1, <3>2
  <2>2. QED
    BY <2>1
<1>11. more \in Seq(TableNames) /\ Named(more) \subseteq Named(cur.got) \cup reg
  <2>1. page.tables \in Seq(TableNames)
    BY <1>6, <1>7
  <2>2. more \in Seq(TableNames)
    BY <1>2, <2>1 DEF more
  <2>3. ASSUME NEW i \in DOMAIN more PROVE more[i] \in Named(cur.got) \cup reg
    <3>1. /\ i \in 1 .. Len(cur.got) => i \in DOMAIN cur.got /\ more[i] = cur.got[i]
          /\ i \notin 1 .. Len(cur.got) =>
                /\ i - Len(cur.got) \in 1 .. Len(page.tables)
                /\ more[i] = page.tables[i - Len(cur.got)]
      <4> DEFINE a == cur.got
                 b == page.tables
      <4>1. a \in Seq(TableNames) /\ b \in Seq(TableNames) /\ more = a \o b
        BY <1>2, <2>1 DEF more
      <4> HIDE DEF a, b
      <4>2. /\ Len(a) \in Nat /\ Len(b) \in Nat /\ DOMAIN a = 1 .. Len(a) /\ i \in 1 .. Len(a) + Len(b)
            /\ more[i] = IF i <= Len(a) THEN a[i] ELSE b[i - Len(a)]
        BY <4>1, ConcatProperties, LenProperties
      <4>3. /\ i \in 1 .. Len(a) => i \in DOMAIN a /\ more[i] = a[i]
            /\ i \notin 1 .. Len(a) => i - Len(a) \in 1 .. Len(b) /\ more[i] = b[i - Len(a)]
        BY <4>2
      <4>4. QED
        BY <4>3 DEF a, b
    <3>2. QED
      BY <1>6, <3>1 DEF Named
  <2>4. QED
    BY <2>2, <2>3 DEF Named
<1>12. hist[c].always = hist[c].ever => hist[c].ever = reg /\ hist[c].always = reg
  BY <1>1 DEF ListOk
<1>13. /\ hist[c].always \subseteq reg /\ reg \subseteq hist[c].ever /\ Named(cur.got) \subseteq hist[c].ever
       /\ hist[c].always \subseteq hist[c].ever
  BY <1>1 DEF ListOk
\* The next record, and what the history of the call is.
<1>14. ASSUME NEW r \in TableCallRecords, call' = [call EXCEPT ![c] = r], UNCHANGED out,
              r.at \in {"page", "listed"}, r.op = cur.op, r.n = cur.n,
              ListOk(r, hist[c], reg)
       PROVE  TableInv' /\ ListInv'
  <2>1. PlaceOk(r)
    BY <1>1, <1>14, IdleIs DEF PlaceOk, Registering
  <2>2. cur.op \in {"list", "table", "deregister"}
    BY <1>1 DEF PlaceOk
  <2>3. TableInv'
    BY <1>0, <1>1, <1>5, <1>14, <2>1, <2>2, QuietMoves
  <2>4. call'[c] = r /\ \A d \in Callers \ {c} : call'[d] = call[d] /\ out'[d] = out[d]
    BY <1>0, <1>14 DEF TableInv, TableTypes
  <2>5. hist'[c].always = hist[c].always /\ hist'[c].ever = hist[c].ever
    <3>1. /\ hist'[c].always = hist[c].always \cap Registry!Registered'
          /\ hist'[c].ever = hist[c].ever \cup Registry!Registered'
      BY <1>0, <1>1, <1>14, <2>4, TrackIs
    <3>2. QED
      BY <1>7, <1>13, <3>1
  <2>6. ListOk(call'[c], hist'[c], Registry!Registered')
    BY <1>7, <1>14, <2>4, <2>5 DEF ListOk
  <2>7. out'[c].res # "repeated"
    BY <1>0, <1>14 DEF ListInv
  <2>8. QED
    BY <2>3, <2>4, <2>6, <2>7, ListsKept
<1>15. CASE Registry!EndsHere(c, "unavailable")
  <2>1. "unavailable" \in Registry!Results
    BY DEF Registry!Results
  <2>2. TableInv' /\ Leaves(c)
    BY <1>0, <1>1, <1>5, <1>15, <2>1, QuietEndsHere
  <2>3. QED
    BY <2>2, LeavesLists
<1>16. CASE /\ page.token = 0 /\ UNCHANGED out
            /\ call' = [call EXCEPT ![c].got = more, ![c].at = "listed"]
  <2> DEFINE r == [cur EXCEPT !.got = more, !.at = "listed"]
  <2>1. /\ r \in TableCallRecords /\ r.op = cur.op /\ r.n = cur.n /\ r.at = "listed" /\ r.got = more
    BY <1>1, <1>11 DEF TableCallRecords, Registry!Points
  <2>2. call' = [call EXCEPT ![c] = r]
    BY <1>16
  <2> HIDE DEF r
  <2>3. hist[c].always = hist[c].ever => more = Registry!InOrder(hist[c].ever)
    <3> SUFFICES ASSUME hist[c].always = hist[c].ever PROVE more = Registry!InOrder(hist[c].ever)
      OBVIOUS
    <3>1. hist[c].ever = reg /\ o <= Len(all) /\ cur.got = SubSeq(all, 1, o)
      BY <1>1, <1>8, <1>12 DEF ListOk, o, all
    <3>2. more = SubSeq(all, 1, Len(all))
      BY <1>6, <1>16, <3>1 DEF more
    <3>3. SubSeq(all, 1, Len(all)) = all
      BY <1>8, SubSeqFull
    <3>4. QED
      BY <3>1, <3>2, <3>3 DEF all
  <2>4. ListOk(r, hist[c], reg)
    BY <1>11, <1>13, <2>1, <2>3 DEF ListOk
  <2>5. QED
    BY <1>14, <1>16, <2>1, <2>2, <2>4
<1>17. CASE /\ page.token # 0 /\ UNCHANGED out
            /\ call' = [call EXCEPT ![c].got = more, ![c].tokens = Append(@, page.token)]
  <2> DEFINE r == [cur EXCEPT !.got = more, !.tokens = Append(@, page.token)]
  <2>1. Append(cur.tokens, page.token) \in Seq(Nat)
    BY <1>2, <1>6
  <2>2. /\ r \in TableCallRecords /\ r.op = cur.op /\ r.n = cur.n /\ r.at = "page" /\ r.got = more
        /\ r.tokens = Append(cur.tokens, page.token)
    BY <1>1, <1>11, <2>1 DEF TableCallRecords
  <2>3. call' = [call EXCEPT ![c] = r]
    BY <1>17
  <2> HIDE DEF r
  <2>4. Offset(r) = page.token /\ o < page.token /\ page.token <= Len(all)
    <3>1. /\ r.tokens # << >> /\ Len(r.tokens) = Len(cur.tokens) + 1
          /\ r.tokens[Len(cur.tokens) + 1] = page.token
      <4> DEFINE t == cur.tokens
                 k == page.token
      <4>1. t \in Seq(Nat) /\ k \in Nat /\ r.tokens = Append(t, k)
        BY <1>2, <1>6, <2>2
      <4> HIDE DEF t, k
      <4>2. Append(t, k) # << >> /\ Len(Append(t, k)) = Len(t) + 1 /\ Append(t, k)[Len(t) + 1] = k
        BY <4>1, AppendProperties
      <4>3. QED
        BY <4>1, <4>2 DEF t, k
    <3>2. Offset(r) = page.token
      BY <3>1 DEF Offset
    <3>3. QED
      BY <1>6, <1>17, <3>2
  <2>5. \A i \in DOMAIN r.tokens : r.tokens[i] <= Offset(r)
    <3>1. ASSUME NEW i \in DOMAIN r.tokens PROVE r.tokens[i] <= Offset(r)
      <4>1. i = Len(cur.tokens) + 1 \/ (i \in DOMAIN cur.tokens /\ r.tokens[i] = cur.tokens[i])
        BY <1>2, <1>6, <2>2
      <4>2. CASE i = Len(cur.tokens) + 1
        BY <1>2, <1>6, <2>2, <2>4, <4>2
      <4>3. CASE i \in DOMAIN cur.tokens /\ r.tokens[i] = cur.tokens[i]
        <5>1. cur.tokens[i] <= o /\ cur.tokens[i] \in Nat
          BY <1>1, <1>2, <4>3 DEF ListOk, o
        <5>2. QED
          BY <1>3, <1>6, <2>4, <4>3, <5>1
      <4>4. QED
        BY <4>1, <4>2, <4>3
    <3>2. QED
      BY <3>1
  <2>6. hist[c].always = hist[c].ever => more = SubSeq(all, 1, page.token)
    <3> SUFFICES ASSUME hist[c].always = hist[c].ever PROVE more = SubSeq(all, 1, page.token)
      OBVIOUS
    <3>1. o <= Len(all) /\ cur.got = SubSeq(all, 1, o)
      BY <1>1, <1>8, <1>12 DEF ListOk, o, all
    <3>2. QED
      BY <1>6, <1>17, <3>1 DEF more
  <2>7. ListOk(r, hist[c], reg)
    BY <1>8, <1>11, <1>13, <2>2, <2>4, <2>5, <2>6 DEF ListOk, all
  <2>8. QED
    BY <1>14, <1>17, <2>2, <2>3, <2>7
<1>18. QED
  BY <1>9, <1>10, <1>15, <1>16, <1>17

\* All definitions at once.
LEMMA ListStep ==
    ASSUME RegistryInv, Registry!Track, NEW c \in Callers, Registry!ListDefinitions(c)
    PROVE  TableInv' /\ ListInv'
<1>0. TableInv /\ ListInv
  BY DEF RegistryInv
<1> DEFINE reg == Registry!Registered
           all == Registry!InOrder(reg)
           r == [call[c] EXCEPT !.got = all, !.at = "listed"]
<1>1. call[c] \in TableCallRecords /\ PlaceOk(call[c]) /\ call[c].at = "page" /\ ListOk(call[c], hist[c], reg)
  BY <1>0 DEF TableInv, TableTypes, PlaceInv, ListInv, Registry!ListDefinitions, Registry!At
<1>2. UNCHANGED <<catalog, ctx, out, calls, restarts, unsettled>> /\ call' = [call EXCEPT ![c] = r]
  BY DEF Registry!ListDefinitions, Registry!Kept
<1>3. all \in Seq(TableNames) /\ all \in Seq(reg)
  BY InOrderIs, RegisteredIs
<1>4. Registry!Registered' = reg
  BY <1>2 DEF Registry!Registered
<1> HIDE DEF all
<1>5. r \in TableCallRecords /\ r.op = call[c].op /\ r.n = call[c].n /\ r.at = "listed" /\ r.got = all
  BY <1>1, <1>3 DEF TableCallRecords, Registry!Points
<1> HIDE DEF r, reg
<1>6. PlaceOk(r)
  BY <1>1, <1>5, IdleIs DEF PlaceOk, Registering
<1>7. call[c].op \in {"list", "table", "deregister"}
  BY <1>1 DEF PlaceOk
<1>8. TableInv'
  BY <1>0, <1>1, <1>2, <1>5, <1>6, <1>7, QuietMoves
<1>9. call'[c] = r /\ \A d \in Callers \ {c} : call'[d] = call[d] /\ out'[d] = out[d]
  BY <1>0, <1>2 DEF TableInv, TableTypes
<1>10. hist'[c].always = hist[c].always \cap reg /\ hist'[c].ever = hist[c].ever \cup reg
  BY <1>0, <1>1, <1>4, <1>5, <1>9, TrackIs
<1>11. hist[c].always \subseteq reg /\ reg \subseteq hist[c].ever
  BY <1>1 DEF ListOk
<1>12. Named(all) \subseteq reg
  BY <1>3 DEF Named
<1>13. hist'[c].always = hist'[c].ever => hist'[c].ever = reg
  BY <1>10, <1>11
<1>14. ListOk(r, hist'[c], reg)
  BY <1>5, <1>10, <1>11, <1>12, <1>13 DEF ListOk, all
<1>15. out'[c].res # "repeated"
  BY <1>0, <1>2 DEF ListInv
<1>16. QED
  BY <1>4, <1>8, <1>9, <1>14, <1>15, ListsKept

\* The registry's invariant holds of a session that was restored.
LEMMA RegistryInit ==
    ASSUME Registry!Init
    PROVE  RegistryInv
<1>1. TableInv
  BY RegistryInitTables
<1>2. \A c \in Callers : call[c] = Registry!Idle /\ hist[c] = Registry!NotListing /\ out[c] = Registry!NoOutcome
  BY DEF Registry!Init
<1>3. hist \in [Callers -> Histories]
  BY DEF Registry!Init, Registry!NotListing, Histories
<1>4. \A c \in Callers : ListOk(call[c], hist[c], Registry!Registered)
  BY <1>2, IdleIs, ListingLeft
<1>5. QED
  BY <1>1, <1>2, <1>3, <1>4 DEF RegistryInv, ListInv, Histories, Registry!NoOutcome

\* Every step of the registry, with what the listings note of it.
LEMMA RegistryStep ==
    ASSUME RegistryInv, Registry!Next
    PROVE  RegistryInv'
<1>1. Registry!Track /\ TableInv /\ ListInv
  BY DEF Registry!Next, RegistryInv
<1>2. CASE Registry!Restart
  <2>1. /\ TableInv' /\ \A c \in Callers : call'[c] = Registry!Idle
        /\ \A c \in Callers : out'[c].res = out[c].res \/ out'[c].res = "unavailable"
    BY <1>1, <1>2, RestartTables
  <2>2. \A c \in Callers : ListOk(call'[c], hist'[c], Registry!Registered')
    BY <1>1, <2>1, IdleIs, TrackIs, ListingLeft
  <2>3. hist' \in [Callers -> Histories]
    <3>1. \A d \in Callers : hist'[d] \in Histories
      BY <1>1, TrackIs
    <3>2. DOMAIN hist' = Callers /\ hist' = [d \in Callers |-> hist'[d]]
      BY <1>1 DEF Registry!Track
    <3>3. QED
      BY <3>1, <3>2
  <2>4. \A c \in Callers : out'[c].res # "repeated"
    BY <1>1, <2>1 DEF ListInv
  <2>5. QED
    BY <2>1, <2>2, <2>3, <2>4 DEF RegistryInv, ListInv, Histories
<1>3. ASSUME NEW c \in Callers, Registry!Operation(c) PROVE RegistryInv'
  BY <1>1, <1>3, BeginsTables, BeginsLists DEF RegistryInv
<1>4. ASSUME NEW c \in Callers, Registry!Step(c) PROVE RegistryInv'
  <2>1. CASE Registry!FollowPages(c)
    BY <1>1, <2>1, FollowStep DEF RegistryInv
  <2>2. CASE Registry!ListDefinitions(c)
    BY <1>1, <2>2, ListStep DEF RegistryInv
  <2>3. CASE \/ Registry!EncodeRegistration(c) \/ Registry!Request(c) \/ Registry!HandleRegistration(c)
             \/ Registry!ValidateRegistration(c) \/ Registry!ResolveIdentifier(c)
             \/ Registry!CheckDefinition(c) \/ Registry!CheckContext(c) \/ Registry!BuildProvider(c)
             \/ Registry!Describe(c) \/ Registry!Definition(c) \/ Registry!LoadDefinition(c)
    BY <1>1, <2>3, QuietSteps, LeavesLists DEF RegistryInv
  <2>4. CASE \/ Registry!CreateDefinition(c) \/ Registry!PublishTable(c) \/ Registry!BindSource(c)
             \/ Registry!UndoDefinition(c) \/ Registry!DropDefinition(c) \/ Registry!ForgetTable(c)
    BY <1>1, <2>4, LoudSteps, UndoFails, LeavesLists DEF RegistryInv
  <2>5. QED
    BY <1>4, <2>1, <2>2, <2>3, <2>4 DEF Registry!Step
<1>5. QED
  BY <1>2, <1>3, <1>4 DEF Registry!Next

\* What the invariant says of the registry's own properties.
LEMMA RegistryHolds ==
    ASSUME RegistryInv
    PROVE  /\ Registry!TypeOK /\ Registry!SettledNamesAgree /\ Registry!FailedLeavesNothing
           /\ Registry!ListingSound
<1>0. TableInv /\ ListInv
  BY DEF RegistryInv
<1>1. Registry!TypeOK
  <2>1. ASSUME NEW c \in Callers
        PROVE  /\ call[c].op \in Registry!Ops \union {"none"} /\ call[c].n \in TableNames \union {0}
               /\ call[c].at \in Registry!Points /\ (call[c].at = "idle" <=> call[c] = Registry!Idle)
               /\ Registry!Range(call[c].got) \subseteq TableNames /\ Registry!Range(call[c].tokens) \subseteq Nat
               /\ out[c].res \in Registry!Results /\ out[c].n \in TableNames \union {0}
               /\ hist[c].always \subseteq hist[c].ever /\ hist[c].ever \subseteq TableNames
    <3>1. call[c] \in TableCallRecords /\ out[c] \in OutRecords /\ PlaceOk(call[c])
      BY <1>0 DEF TableInv, TableTypes, PlaceInv
    <3>2. hist[c] \in Histories /\ ListOk(call[c], hist[c], Registry!Registered)
      BY <1>0 DEF ListInv, Histories
    <3>3. call[c].got \in Seq(TableNames) /\ call[c].tokens \in Seq(Nat)
      BY <3>1 DEF TableCallRecords
    <3>4. Registry!Range(call[c].got) \subseteq TableNames /\ Registry!Range(call[c].tokens) \subseteq Nat
      BY <3>3, RegistryOperators
    <3>5. hist[c].always \subseteq hist[c].ever /\ hist[c].ever \subseteq TableNames
      BY <3>2 DEF ListOk, Histories
    <3>6. QED
      BY <3>1, <3>4, <3>5 DEF TableCallRecords, OutRecords, PlaceOk
  <2>2. QED
    BY <1>0, <2>1 DEF Registry!TypeOK, TableInv, TableTypes
<1>2. Registry!SettledNamesAgree
  <2> SUFFICES ASSUME NEW n \in TableNames \ unsettled, Registry!Running(n, "register") = {},
                      Registry!Running(n, "deregister") = {}
               PROVE  catalog[n] = ctx[n]
    BY DEF Registry!SettledNamesAgree
  <2>1. NameOk(n)
    BY <1>0 DEF TableInv, NameInv
  <2>2. \A c \in Callers : call[c].op # "none" => call[c].at # "idle"
    BY <1>0, IdleIs DEF TableInv, PlaceInv, PlaceOk
  <2>3. \A c \in Callers : ~Defines(c, n) /\ ~Removes(c, n)
    BY <2>2 DEF Defines, Removes, Registry!Running
  <2>4. QED
    BY <2>1, <2>3 DEF NameOk
<1>3. Registry!ListingSound
  <2>1. ASSUME NEW c \in Callers, call[c].at = "listed"
        PROVE  /\ Registry!Range(call[c].got) \subseteq hist[c].ever
               /\ hist[c].always = hist[c].ever => call[c].got = Registry!InOrder(hist[c].ever)
    <3>1. ListOk(call[c], hist[c], Registry!Registered)
      BY <1>0 DEF ListInv
    <3>2. Registry!Range(call[c].got) = Named(call[c].got)
      BY RegistryOperators DEF Named
    <3>3. QED
      BY <2>1, <3>1, <3>2 DEF ListOk
  <2>2. QED
    BY <1>0, <2>1 DEF Registry!ListingSound, Registry!At, ListInv
<1>4. QED
  BY <1>0, <1>1, <1>2, <1>3 DEF TableInv

\* No step rebinds a name.
LEMMA RegistryKeepsNames ==
    ASSUME RegistryInv, Registry!Next
    PROVE  Registry!NoRebind
<1> USE DEF Registry!At
<1>0. /\ catalog \in [TableNames -> Registry!Ids \cup {Registry!None}]
      /\ ctx \in [TableNames -> Registry!Ids \cup {Registry!None}]
      /\ restarts \in Nat
  BY DEF RegistryInv, TableInv, TableTypes
<1>1. CASE Registry!Restart
  BY <1>0, <1>1 DEF Registry!Restart, Registry!NoRebind
<1>2. ASSUME NEW c \in Callers, UNCHANGED <<catalog, ctx>> PROVE Registry!NoRebind
  BY <1>2 DEF Registry!NoRebind
<1>3. ASSUME NEW c \in Callers, NEW n, UNCHANGED ctx,
             \/ catalog[n] = Registry!None /\ catalog' = [catalog EXCEPT ![n] = Registry!Id(c)]
             \/ catalog' = [catalog EXCEPT ![n] = Registry!None]
      PROVE  Registry!NoRebind
  BY <1>0, <1>3 DEF Registry!NoRebind
<1>4. ASSUME NEW c \in Callers, NEW n, UNCHANGED catalog,
             \/ ctx[n] = Registry!None /\ ctx' = [ctx EXCEPT ![n] = Registry!Id(c)]
             \/ ctx' = [ctx EXCEPT ![n] = Registry!None]
      PROVE  Registry!NoRebind
  BY <1>0, <1>4 DEF Registry!NoRebind
<1>5. ASSUME NEW c \in Callers, Registry!Operation(c) PROVE Registry!NoRebind
  BY <1>2, <1>5, BegunIs DEF RegistryInv
<1>6. ASSUME NEW c \in Callers, Registry!Step(c) PROVE Registry!NoRebind
  <2>1. CASE Registry!CreateDefinition(c)
    BY <1>2, <1>3, <2>1 DEF Registry!CreateDefinition
  <2>2. CASE Registry!PublishTable(c)
    BY <1>2, <1>4, <2>2 DEF Registry!PublishTable
  <2>3. CASE Registry!BindSource(c)
    BY <1>2, <1>4, <2>3 DEF Registry!BindSource
  <2>4. CASE Registry!UndoDefinition(c)
    BY <1>2, <1>3, <2>4 DEF Registry!UndoDefinition
  <2>5. CASE Registry!DropDefinition(c)
    BY <1>2, <1>3, <2>5 DEF Registry!DropDefinition
  <2>6. CASE Registry!ForgetTable(c)
    BY <1>4, <2>6 DEF Registry!ForgetTable
  <2>7. CASE \/ Registry!EncodeRegistration(c) \/ Registry!Request(c) \/ Registry!HandleRegistration(c)
             \/ Registry!ValidateRegistration(c) \/ Registry!ResolveIdentifier(c)
             \/ Registry!CheckDefinition(c) \/ Registry!CheckContext(c) \/ Registry!BuildProvider(c)
             \/ Registry!Describe(c) \/ Registry!Definition(c) \/ Registry!LoadDefinition(c)
             \/ Registry!FollowPages(c) \/ Registry!ListDefinitions(c)
    <3>1. UNCHANGED <<catalog, ctx>>
      BY <2>7 DEF Registry!EncodeRegistration, Registry!Request, Registry!HandleRegistration,
         Registry!ValidateRegistration, Registry!ResolveIdentifier, Registry!CheckDefinition,
         Registry!CheckContext, Registry!BuildProvider, Registry!Describe, Registry!Definition,
         Registry!LoadDefinition, Registry!FollowPages, Registry!ListDefinitions
    <3>2. QED
      BY <1>2, <3>1
  <2>8. QED
    BY <1>6, <2>1, <2>2, <2>3, <2>4, <2>5, <2>6, <2>7 DEF Registry!Step
<1>7. QED
  BY <1>1, <1>5, <1>6 DEF Registry!Next
-----------------------------------------------------------------------------
(* The index: its record, the snapshots and the calls that wait for them.  *)
BuildRecords == [state : {"none", "pending", "building", "published", "complete", "failed"}, id : Nat,
                 op : {"none"} \cup Index!Submits, base : Nat]
IndexPoints == {"idle", "request", "source", "submit", "wait", "attached", "look", "list", "poll", "apply"}
IndexCallRecords == [op : Index!Ops \cup {"none"}, at : IndexPoints, timeout : Index!Timeouts, id : Nat,
                     seen : BuildRecords, mark : Nat, applied : BOOLEAN, ready : BOOLEAN]
Active == rec.state \in Index!Active
\* A build that has not published, and one that may still do so.
Fresh(r) == r.state \in {"pending", "building", "failed"}
Owes == rec.state \in {"pending", "building"}
StoreInv ==
    /\ snap \in Nat /\ last \in Nat /\ builds \in Nat /\ snap <= last
    /\ rec \in BuildRecords /\ rec.id <= builds
    /\ rec.state # "none" => rec.id \in 1 .. builds
    /\ Active => rec.id \notin DOMAIN ended
    /\ Fresh(rec) => rec.id \notin pubs
    /\ rec.state \in {"published", "complete"} => rec.id \in pubs
    /\ pubs \subseteq 1 .. builds /\ DOMAIN ended \subseteq 1 .. builds
    /\ \A i \in DOMAIN ended : ended[i] => i \in pubs
    /\ begun \in 0 .. IndexCalls /\ foreign \in Nat /\ restarts \in Nat /\ foreign + restarts <= IndexEvents
\* A caller in the process that submitted and has not seen the index waits for a build that did
\* not publish; one that only waits and found no record knows how many builds there were; it has
\* its build accepted only once its arguments were.  B, P and R are builds, pubs and rec.
CallIn(c, r, B, P, R) ==
    /\ r.at = "attached" => c \notin Remote /\ r.id \in 1 .. B
    /\ r.at # "attached" => r.id = 0
    /\ r.at = "poll" => c \in Remote /\ r.op = "wait"
    /\ r.at = "submit" => r.op \in Index!Submits
    /\ r.at = "idle" => r = Index!Idle
    /\ c \in Remote => /\ r.at # "wait" /\ (r.at = "source" => r.op # "wait")
                       /\ r.at \in {"look", "list"} => r.op \in {"status", "wait"}
    /\ c \notin Remote => r.at # "request" /\ (r.applied => r.at \in {"wait", "attached", "look", "list"})
    /\ c \notin Remote /\ r.op \in Index!Submits /\ ~r.ready =>
          /\ r.at = "wait" => Fresh(R)
          /\ r.at = "attached" => r.id \notin P
          /\ r.at \notin {"look", "list"}
    /\ r.mark <= B
    /\ c \notin Remote /\ r.op = "wait" =>
          /\ r.at = "look" /\ R.state # "none" => r.mark < B
          /\ r.at = "list" /\ r.seen.state # "none" => r.mark < B
WaitersInv == call \in [Callers -> IndexCallRecords] /\ \A c \in Callers : CallIn(c, call[c], builds, pubs, rec)
\* Every call begins one build or publishes once: the calls that may still do so are counted.
DueRec(r) == /\ r.op \in Index!Submits \cup {"register"}
             /\ r.at \in {"request", "source", "submit", "apply"}
DueCalls == {c \in Callers : DueRec(call[c])}
DueSubmits == {c \in Callers : DueRec(call[c]) /\ call[c].op # "register"}
One(b) == IF b THEN 1 ELSE 0
CountInv ==
    /\ last + Cardinality(DueCalls) + One(Owes) <= begun + foreign + 1
    /\ builds + Cardinality(DueSubmits) <= begun
OutInv == Index!OkMeansReady /\ Index!RefusedEmbedded
IndexInv == StoreInv /\ WaitersInv /\ CountInv /\ OutInv

\* What the record, the builds and the publications may do under the calls that wait: a build
\* that had not published is still there while the index is not, and a record appears with a
\* new build only.
Steady ==
    /\ builds \in Nat /\ builds' \in Nat /\ builds <= builds'
    /\ snap' = 0 => pubs' = pubs /\ (Fresh(rec) => Fresh(rec'))
    /\ rec.state = "none" /\ rec'.state # "none" => builds < builds'
\* The store stays, apart from a failure that is forgotten once the index is published.
Quiet ==
    /\ UNCHANGED <<snap, last, ended, pubs, builds, begun, foreign, restarts>>
    /\ rec' \in {rec, Index!NoRecord} /\ (rec' # rec => snap # 0)

\* One member more or less.
LEMMA CountOne ==
    ASSUME NEW U, IsFiniteSet(U), NEW S, S \subseteq U, NEW T, T \subseteq U, NEW c, S \ {c} = T \ {c}
    PROVE  /\ Cardinality(S) \in Nat /\ Cardinality(T) \in Nat
           /\ Cardinality(T) = Cardinality(S) + One(c \in T) - One(c \in S)
<1>1. IsFiniteSet(S) /\ IsFiniteSet(T)
  BY FS_Subset
<1>2. Cardinality(S) \in Nat /\ Cardinality(T) \in Nat
  BY <1>1, FS_CardinalityType
<1>3. /\ Cardinality(S \ {c}) = IF c \in S THEN Cardinality(S) - 1 ELSE Cardinality(S)
      /\ Cardinality(T \ {c}) = IF c \in T THEN Cardinality(T) - 1 ELSE Cardinality(T)
  BY <1>1, FS_RemoveElement
<1>4. Cardinality(S \ {c}) = Cardinality(T \ {c})
  OBVIOUS
<1>5. QED
  BY <1>2, <1>3, <1>4 DEF One

\* There are finitely many callers.
LEMMA IndexFinite == IsFiniteSet(Callers)
  BY CallsAssumption DEF Index!IndexApiAssumption, Index!IsFiniteSet, IsFiniteSet

\* The calls that may still begin a build can be counted.
LEMMA DueCounts ==
    Cardinality(DueCalls) \in Nat /\ Cardinality(DueSubmits) \in Nat
<1>1. DueCalls \subseteq Callers /\ DueSubmits \subseteq Callers
  BY DEF DueCalls, DueSubmits
<1>2. QED
  BY <1>1, IndexFinite, FS_Subset, FS_CardinalityType

\* A call notes a publication, and nothing else changes in it.
LEMMA NotedIs ==
    ASSUME NEW f \in [Callers -> IndexCallRecords], call' = Index!Noted(f)
    PROVE  /\ call' \in [Callers -> IndexCallRecords]
           /\ \A c \in Callers :
                 /\ call'[c].op = f[c].op /\ call'[c].at = f[c].at /\ call'[c].timeout = f[c].timeout
                 /\ call'[c].id = f[c].id /\ call'[c].applied = f[c].applied
                 /\ call'[c].seen = f[c].seen /\ call'[c].mark = f[c].mark
                 /\ f[c].ready => call'[c].ready
                 /\ snap' # 0 /\ f[c].at # "idle" => call'[c].ready
                 /\ f[c].at = "idle" => call'[c] = f[c]
<1>1. ASSUME NEW c \in Callers
      PROVE  /\ call'[c] = IF f[c].at # "idle" /\ snap' # 0 THEN [f[c] EXCEPT !.ready = TRUE] ELSE f[c]
             /\ f[c] \in IndexCallRecords
  BY DEF Index!Noted
<1>2. ASSUME NEW c \in Callers PROVE call'[c] \in IndexCallRecords
  BY <1>1 DEF IndexCallRecords
<1>3. call' \in [Callers -> IndexCallRecords]
  BY <1>2 DEF Index!Noted
<1>4. QED
  BY <1>1, <1>3 DEF IndexCallRecords

\* A call that somebody else's step leaves where it was is as it should be after it.
LEMMA CallStays ==
    ASSUME NEW c \in Callers, Steady, NEW f \in IndexCallRecords, NEW r \in IndexCallRecords,
           CallIn(c, f, builds, pubs, rec),
           r.op = f.op, r.at = f.at, r.id = f.id, r.applied = f.applied, r.seen = f.seen, r.mark = f.mark,
           f.ready => r.ready, snap' # 0 /\ f.at # "idle" => r.ready, f.at = "idle" => r = f
    PROVE  CallIn(c, r, builds', pubs', rec')
<1>1. f.mark \in Nat /\ f.id \in Nat
  BY DEF IndexCallRecords
<1>2. c \notin Remote /\ r.op \in Index!Submits /\ ~r.ready =>
          /\ r.at = "wait" => Fresh(rec')
          /\ r.at = "attached" => r.id \notin pubs'
          /\ r.at \notin {"look", "list"}
  BY DEF CallIn, Steady
<1>3. r.mark <= builds' /\ (r.mark < builds => r.mark < builds') /\ (r.id \in 1 .. builds => r.id \in 1 .. builds')
  BY <1>1 DEF CallIn, Steady
<1>4. c \notin Remote /\ r.op = "wait" =>
          /\ r.at = "look" /\ rec'.state # "none" => r.mark < builds'
          /\ r.at = "list" /\ r.seen.state # "none" => r.mark < builds'
  <2>1. r.mark <= builds /\ builds <= builds' /\ builds \in Nat /\ builds' \in Nat /\ r.mark \in Nat
    BY <1>1 DEF CallIn, Steady
  <2>2. rec.state = "none" /\ rec'.state # "none" => r.mark < builds'
    BY <2>1 DEF Steady
  <2>3. QED
    BY <1>3, <2>2 DEF CallIn
<1>5. QED
  BY <1>2, <1>3, <1>4 DEF CallIn

\* A call that is as it should be stays so when it notes a publication.
LEMMA CallNotes ==
    ASSUME NEW c \in Callers, NEW B, NEW P, NEW R, NEW f \in IndexCallRecords, NEW r \in IndexCallRecords,
           CallIn(c, f, B, P, R),
           r.op = f.op, r.at = f.at, r.id = f.id, r.applied = f.applied, r.seen = f.seen, r.mark = f.mark,
           f.ready => r.ready, f.at = "idle" => r = f
    PROVE  CallIn(c, r, B, P, R)
  BY DEF CallIn

\* What changes in one call leaves the others as they should be, and moves one in the count.
LEMMA CallMoves ==
    ASSUME WaitersInv, Steady, NEW c \in Callers, NEW r \in IndexCallRecords,
           call' = Index!Noted([call EXCEPT ![c] = r]), CallIn(c, r, builds', pubs', rec')
    PROVE  /\ WaitersInv'
           /\ Cardinality(DueCalls') = Cardinality(DueCalls) + One(DueRec(r)) - One(DueRec(call[c]))
           /\ Cardinality(DueSubmits') = Cardinality(DueSubmits) + One(DueRec(r) /\ r.op # "register")
                                            - One(DueRec(call[c]) /\ call[c].op # "register")
<1> DEFINE f == [call EXCEPT ![c] = r]
<1>1. f \in [Callers -> IndexCallRecords] /\ f[c] = r /\ \A d \in Callers \ {c} : f[d] = call[d]
  BY DEF WaitersInv
<1> HIDE DEF f
<1>2. /\ call' \in [Callers -> IndexCallRecords]
      /\ \A d \in Callers :
            /\ call'[d].op = f[d].op /\ call'[d].at = f[d].at /\ call'[d].timeout = f[d].timeout
            /\ call'[d].id = f[d].id /\ call'[d].applied = f[d].applied
            /\ call'[d].seen = f[d].seen /\ call'[d].mark = f[d].mark
            /\ f[d].ready => call'[d].ready
            /\ snap' # 0 /\ f[d].at # "idle" => call'[d].ready
            /\ f[d].at = "idle" => call'[d] = f[d]
  BY <1>1, NotedIs DEF f
<1>4. WaitersInv'
  <2>1. ASSUME NEW d \in Callers PROVE CallIn(d, call'[d], builds', pubs', rec')
    <3>1. f[d] \in IndexCallRecords /\ call'[d] \in IndexCallRecords
      BY <1>1, <1>2
    <3>2. CASE d = c
      <4>1. CallIn(d, f[d], builds', pubs', rec')
        BY <1>1, <3>2
      <4>2. QED
        BY <1>2, <3>1, <4>1, CallNotes
    <3>3. CASE d # c
      <4>1. CallIn(d, f[d], builds, pubs, rec)
        BY <1>1, <3>3 DEF WaitersInv
      <4>2. QED
        BY <1>2, <3>1, <4>1, CallStays
    <3>4. QED
      BY <3>2, <3>3
  <2>2. QED
    BY <1>2, <2>1 DEF WaitersInv
<1>5. \A d \in Callers : DueRec(call'[d]) <=> DueRec(f[d])
  BY <1>2 DEF DueRec
<1>6. Cardinality(DueCalls') = Cardinality(DueCalls) + One(DueRec(r)) - One(DueRec(call[c]))
  <2>1. DueCalls \ {c} = DueCalls' \ {c} /\ (c \in DueCalls' <=> DueRec(r)) /\ (c \in DueCalls <=> DueRec(call[c]))
    <3>0. \A d \in Callers : d \in DueCalls' <=> DueRec(f[d])
      BY <1>5 DEF DueCalls
    <3>1. DueCalls' \subseteq Callers
      BY DEF DueCalls
    <3>2. \A d \in Callers : d \in DueCalls <=> DueRec(call[d])
      BY DEF DueCalls
    <3>3. DueCalls \subseteq Callers
      BY DEF DueCalls
    <3>4. \A d : d # c => (d \in DueCalls <=> d \in DueCalls')
      BY <1>1, <3>0, <3>1, <3>2, <3>3
    <3>5. QED
      BY <1>1, <3>0, <3>2, <3>4
  <2>2. DueCalls \subseteq Callers /\ DueCalls' \subseteq Callers
    BY DEF DueCalls
  <2>3. QED
    BY <2>1, <2>2, CountOne, IndexFinite DEF One
<1>7. Cardinality(DueSubmits') = Cardinality(DueSubmits) + One(DueRec(r) /\ r.op # "register")
                                    - One(DueRec(call[c]) /\ call[c].op # "register")
  <2>0. \A d \in Callers : d \in DueSubmits' <=> DueRec(f[d]) /\ f[d].op # "register"
    BY <1>2, <1>5 DEF DueSubmits, DueRec
  <2>1. /\ DueSubmits \ {c} = DueSubmits' \ {c}
        /\ c \in DueSubmits' <=> DueRec(r) /\ r.op # "register"
        /\ c \in DueSubmits <=> DueRec(call[c]) /\ call[c].op # "register"
    <3>1. DueSubmits' \subseteq Callers
      BY DEF DueSubmits
    <3>2. QED
      BY <1>1, <2>0, <3>1 DEF DueSubmits
  <2>2. DueSubmits \subseteq Callers /\ DueSubmits' \subseteq Callers
    BY DEF DueSubmits
  <2>3. QED
    BY <2>1, <2>2, CountOne, IndexFinite DEF One
<1>8. QED
  BY <1>4, <1>6, <1>7

\* A call that ends.
LEMMA RaisesMoves ==
    ASSUME IndexInv, Steady, NEW c \in Callers, NEW res, Index!Raises(c, res),
           res = "ok" /\ call[c].op \in Index!Submits \cup {"wait"} =>
              \/ call[c].ready \/ snap' # 0
              \/ /\ call[c].op = "wait" /\ c \notin Remote
                 /\ IF call[c].id # 0 THEN call[c].id \in pubs' ELSE call[c].mark < builds,
           res = "invalid" /\ c \notin Remote => ~call[c].applied
    PROVE  /\ WaitersInv' /\ OutInv'
           /\ Cardinality(DueCalls') = Cardinality(DueCalls) - One(DueRec(call[c]))
           /\ Cardinality(DueSubmits') = Cardinality(DueSubmits)
                                            - One(DueRec(call[c]) /\ call[c].op # "register")
<1>1. Index!Idle \in IndexCallRecords /\ ~DueRec(Index!Idle)
  BY DEF Index!Idle, Index!NoRecord, IndexCallRecords, BuildRecords, IndexPoints, Index!Ops, Index!Timeouts, DueRec
<1>2. CallIn(c, Index!Idle, builds', pubs', rec')
  BY DEF CallIn, Index!Idle, Steady, Index!Submits
<1>3. /\ WaitersInv'
      /\ Cardinality(DueCalls') = Cardinality(DueCalls) + One(DueRec(Index!Idle)) - One(DueRec(call[c]))
      /\ Cardinality(DueSubmits') = Cardinality(DueSubmits)
            + One(DueRec(Index!Idle) /\ Index!Idle.op # "register")
            - One(DueRec(call[c]) /\ call[c].op # "register")
  BY <1>1, <1>2, CallMoves DEF IndexInv, StoreInv, Index!Raises
<1>4. OutInv'
  <2>1. /\ out'.by = {c} /\ out'.op = call[c].op /\ out'.res = res /\ out'.applied = call[c].applied
        /\ out'.ready = (call[c].ready \/ snap' # 0) /\ out'.id = call[c].id
        /\ out'.late = (builds > call[c].mark)
    BY DEF Index!Raises
  <2>2. call[c].mark \in Nat /\ builds \in Nat
    BY DEF IndexInv, StoreInv, WaitersInv, IndexCallRecords
  <2>3. c \notin Remote => out'.by \cap Remote = {}
    BY <2>1
  <2>4. c \in Remote => out'.by \cap Remote # {}
    BY <2>1
  <2>5. (Index!OkMeansReady)'
    BY <2>1, <2>2, <2>3 DEF Index!OkMeansReady
  <2>6. (Index!RefusedEmbedded)'
    BY <2>1, <2>4 DEF Index!RefusedEmbedded
  <2>7. QED
    BY <2>5, <2>6 DEF OutInv
<1>5. QED
  BY <1>1, <1>3, <1>4, DueCounts DEF One

\* Nothing is answered.
LEMMA SilentOut == Index!Silent => OutInv'
  BY DEF Index!Silent, OutInv, Index!OkMeansReady, Index!RefusedEmbedded, Index!NoOutcome

\* No call runs and no build is in progress.
LEMMA IndexInit ==
    ASSUME Index!Init
    PROVE  IndexInv
<1>1. IndexCalls \in Nat /\ IndexEvents \in Nat
  BY CallsAssumption DEF Index!IndexApiAssumption
<1>2. StoreInv
  BY <1>1 DEF Index!Init, StoreInv, Index!NoRecord, BuildRecords, Active, Index!Active, Fresh
<1>3. WaitersInv
  BY DEF Index!Init, WaitersInv, CallIn, Index!Idle, Index!NoRecord, IndexCallRecords, BuildRecords, IndexPoints,
     Index!Ops, Index!Timeouts, Index!Submits
<1>4. CountInv
  <2>1. DueCalls = {} /\ DueSubmits = {}
    BY DEF Index!Init, DueCalls, DueSubmits, DueRec, Index!Idle
  <2>2. Cardinality(DueCalls) = 0 /\ Cardinality(DueSubmits) = 0
    BY <2>1, FS_EmptySet
  <2>3. QED
    BY <2>2 DEF CountInv, Index!Init, One, Owes, Index!NoRecord
<1>5. OutInv
  BY DEF Index!Init, OutInv, Index!OkMeansReady, Index!RefusedEmbedded, Index!NoOutcome
<1>6. QED
  BY <1>2, <1>3, <1>4, <1>5 DEF IndexInv

\* The count, when the store stays and no call became due.
LEMMA CountKept ==
    ASSUME StoreInv, CountInv, UNCHANGED <<last, builds, begun, foreign>>, Owes' => Owes,
           Cardinality(DueCalls') \in Nat, Cardinality(DueSubmits') \in Nat,
           Cardinality(DueCalls') <= Cardinality(DueCalls),
           Cardinality(DueSubmits') <= Cardinality(DueSubmits)
    PROVE  CountInv'
  BY DueCounts DEF CountInv, StoreInv, One

\* So can they after the step.
LEMMA DueCountsNext == Cardinality(DueCalls') \in Nat /\ Cardinality(DueSubmits') \in Nat
<1>1. DueCalls' \subseteq Callers /\ DueSubmits' \subseteq Callers
  BY DEF DueCalls, DueSubmits
<1>2. QED
  BY <1>1, IndexFinite, FS_Subset, FS_CardinalityType

\* A step that leaves the store alone, apart from a record that is forgotten.
LEMMA QuietStep ==
    ASSUME IndexInv, Quiet, WaitersInv', OutInv',
           Cardinality(DueCalls') <= Cardinality(DueCalls),
           Cardinality(DueSubmits') <= Cardinality(DueSubmits)
    PROVE  IndexInv'
<1>1. (Active' \/ Owes' \/ Fresh(rec') \/ rec'.state # "none") => rec' = rec
  BY DEF Active, Index!Active, Owes, Fresh, Index!NoRecord, Quiet
<1>2. StoreInv'
  <2>1. rec' \in BuildRecords /\ rec'.id <= builds
    BY DEF IndexInv, StoreInv, Quiet, Index!NoRecord, BuildRecords
  <2>2. QED
    BY <1>1, <2>1 DEF IndexInv, StoreInv, Active, Quiet
<1>3. CountInv'
  <2>1. Owes' => Owes
    BY <1>1 DEF Owes
  <2>2. QED
    BY <2>1, CountKept, DueCountsNext DEF IndexInv, Quiet
<1>4. QED
  BY <1>2, <1>3 DEF IndexInv

\* Such a step is a steady one.
LEMMA QuietIsSteady == IndexInv /\ Quiet => Steady
  BY DEF IndexInv, StoreInv, Quiet, Steady, Index!NoRecord

\* A call raises in the client or in the process.
LEMMA QuietRaises ==
    ASSUME IndexInv, Quiet, NEW c \in Callers, NEW res, Index!Raises(c, res),
           res = "ok" /\ call[c].op \in Index!Submits \cup {"wait"} =>
              \/ call[c].ready \/ snap # 0
              \/ /\ call[c].op = "wait" /\ c \notin Remote
                 /\ IF call[c].id # 0 THEN call[c].id \in pubs ELSE call[c].mark < builds,
           res = "invalid" /\ c \notin Remote => ~call[c].applied
    PROVE  IndexInv'
<1>1. Steady
  BY QuietIsSteady
<1>2. /\ WaitersInv' /\ OutInv'
      /\ Cardinality(DueCalls') = Cardinality(DueCalls) - One(DueRec(call[c]))
      /\ Cardinality(DueSubmits') = Cardinality(DueSubmits)
                                       - One(DueRec(call[c]) /\ call[c].op # "register")
  BY <1>1, RaisesMoves DEF Quiet
<1>3. Cardinality(DueCalls') <= Cardinality(DueCalls) /\ Cardinality(DueSubmits') <= Cardinality(DueSubmits)
  BY <1>2, DueCounts DEF One
<1>4. QED
  BY <1>2, <1>3, QuietStep

\* A call is answered.
LEMMA QuietEnds ==
    ASSUME IndexInv, Quiet, NEW c \in Callers, NEW res, Index!Ends(c, res),
           res = "ok" => call[c].op \notin Index!Submits \cup {"wait"},
           res = "invalid" /\ c \notin Remote => ~call[c].applied
    PROVE  IndexInv'
<1>1. CASE Index!Raises(c, res)
  BY <1>1, QuietRaises
<1>2. CASE Index!Raises(c, "unavailable")
  BY <1>2, QuietRaises
<1>3. QED
  BY <1>1, <1>2 DEF Index!Ends

\* A call goes on and nothing else changes.
LEMMA QuietCall ==
    ASSUME IndexInv, Quiet, NEW c \in Callers, NEW r \in IndexCallRecords, Index!Silent,
           call' = Index!Noted([call EXCEPT ![c] = r]),
           DueRec(r) => DueRec(call[c]) /\ r.op = call[c].op, CallIn(c, r, builds, pubs, rec')
    PROVE  IndexInv'
<1>1. CallIn(c, r, builds', pubs', rec') /\ Steady
  BY QuietIsSteady DEF Quiet
<1>2. /\ WaitersInv'
      /\ Cardinality(DueCalls') = Cardinality(DueCalls) + One(DueRec(r)) - One(DueRec(call[c]))
      /\ Cardinality(DueSubmits') = Cardinality(DueSubmits) + One(DueRec(r) /\ r.op # "register")
                                       - One(DueRec(call[c]) /\ call[c].op # "register")
  BY <1>1, CallMoves DEF IndexInv
<1>3. Cardinality(DueCalls') <= Cardinality(DueCalls) /\ Cardinality(DueSubmits') <= Cardinality(DueSubmits)
  BY <1>2, DueCounts DEF One
<1>4. QED
  BY <1>2, <1>3, SilentOut, QuietStep

\* The same, where only its place changes.
LEMMA QuietGoto ==
    ASSUME IndexInv, NEW c \in Callers, NEW p \in IndexPoints \ {"idle", "attached"}, Index!Goto(c, p), Quiet,
           DueRec([call[c] EXCEPT !.at = p]) => DueRec(call[c]),
           CallIn(c, [call[c] EXCEPT !.at = p], builds, pubs, rec')
    PROVE  IndexInv'
<1> DEFINE r == [call[c] EXCEPT !.at = p]
<1>1. r \in IndexCallRecords /\ r.op = call[c].op
  BY DEF IndexInv, WaitersInv, IndexCallRecords
<1>2. call' = Index!Noted([call EXCEPT ![c] = r]) /\ Index!Silent
  BY DEF Index!Goto
<1>3. CallIn(c, r, builds, pubs, rec') /\ (DueRec(r) => DueRec(call[c]))
  OBVIOUS
<1> HIDE DEF r
<1>4. QED
  BY <1>1, <1>2, <1>3, QuietCall

\* What the status of a record says, and what it forgets.
LEMMA StatusIs ==
    ASSUME NEW r
    PROVE  /\ Index!Status(r) \in {"running", "build_failed", "ready", "not_found"}
           /\ Index!Status(r) = "ready" => snap # 0
           /\ Index!Status(r) # "not_found" => snap # 0 \/ r.state # "none"
           /\ Index!Forgets(r) \in {rec, Index!NoRecord}
           /\ Index!Forgets(r) # rec => snap # 0 /\ ~Active
  BY DEF Index!Status, Index!Forgets, Active, Index!Active

\* A call begins.
LEMMA IndexBegins ==
    ASSUME IndexInv, NEW c \in Callers, Index!Call(c)
    PROVE  IndexInv'
<1>1. PICK op \in Index!Ops, timeout \in Index!Timeouts : Index!Begin(c, op, timeout)
  <2>1. "none" \in Index!Timeouts /\ Index!Ops = {"create", "refresh", "wait", "status", "list", "drop", "register"}
    BY DEF Index!Timeouts, Index!Ops
  <2>2. QED
    BY <2>1 DEF Index!Call, Index!CreateIndex, Index!RefreshIndex, Index!WaitForIndex, Index!IndexStatus,
       Index!ListIndexes, Index!DropIndex, Index!RegisterIndex
<1> DEFINE r == [Index!Idle EXCEPT !.op = op, !.timeout = timeout,
                    !.at = IF c \in Remote THEN "request" ELSE "source", !.ready = snap # 0]
<1>2. /\ r \in IndexCallRecords /\ r.op = op /\ ~r.applied /\ r.id = 0 /\ r.mark = 0
      /\ r.at = IF c \in Remote THEN "request" ELSE "source"
  BY DEF Index!Idle, Index!NoRecord, IndexCallRecords, BuildRecords, IndexPoints
<1>3. /\ call[c].at = "idle" /\ begun < IndexCalls /\ begun' = begun + 1 /\ Index!Silent
      /\ call' = [call EXCEPT ![c] = r]
      /\ UNCHANGED <<snap, last, rec, ended, pubs, builds, foreign, restarts>>
  BY <1>1 DEF Index!Begin, Index!store
<1> HIDE DEF r
<1>4. CallIn(c, r, builds, pubs, rec)
  BY <1>2 DEF CallIn, IndexInv, StoreInv
<1>5. ~DueRec(call[c])
  BY <1>3 DEF DueRec
<1>6. WaitersInv'
  <2>1. \A d \in Callers : CallIn(d, call'[d], builds, pubs, rec)
    BY <1>2, <1>3, <1>4 DEF IndexInv, WaitersInv
  <2>2. QED
    BY <1>2, <1>3, <2>1 DEF IndexInv, WaitersInv
<1>7. Cardinality(DueCalls') <= Cardinality(DueCalls) + 1 /\ Cardinality(DueSubmits') <= Cardinality(DueSubmits) + 1
  <2>1. DueCalls \ {c} = DueCalls' \ {c} /\ DueSubmits \ {c} = DueSubmits' \ {c}
    BY <1>3 DEF DueCalls, DueSubmits, DueRec, IndexInv, WaitersInv
  <2>2. c \notin DueCalls /\ c \notin DueSubmits
    BY <1>5 DEF DueCalls, DueSubmits
  <2>3. /\ DueCalls \subseteq Callers /\ DueCalls' \subseteq Callers
        /\ DueSubmits \subseteq Callers /\ DueSubmits' \subseteq Callers
    BY DEF DueCalls, DueSubmits
  <2>4. Cardinality(DueCalls') = Cardinality(DueCalls) + One(c \in DueCalls') - One(c \in DueCalls)
    BY <2>1, <2>3, CountOne, IndexFinite
  <2>5. Cardinality(DueSubmits') = Cardinality(DueSubmits) + One(c \in DueSubmits') - One(c \in DueSubmits)
    BY <2>1, <2>3, CountOne, IndexFinite
  <2>6. QED
    BY <2>4, <2>5, DueCounts DEF One
<1>8. StoreInv'
  <2>1. IndexCalls \in Nat
    BY CallsAssumption DEF Index!IndexApiAssumption
  <2>2. QED
    BY <1>3, <2>1 DEF IndexInv, StoreInv, Active
<1>9. CountInv'
  BY <1>3, <1>7, DueCounts, DueCountsNext DEF IndexInv, StoreInv, CountInv, Owes, One
<1>10. OutInv'
  BY <1>3, SilentOut
<1>11. QED
  BY <1>6, <1>8, <1>9, <1>10 DEF IndexInv

\* The client's side: requests, rounds of polling, deadlines; and the status.
LEMMA IndexClient ==
    ASSUME IndexInv, NEW c \in Callers,
           Index!Request(c) \/ Index!Look(c) \/ Index!PollLost(c) \/ Index!Deadline(c)
    PROVE  IndexInv'
<1> USE DEF Index!store, Index!bounds
<1>1. call[c] \in IndexCallRecords /\ CallIn(c, call[c], builds, pubs, rec)
  BY DEF IndexInv, WaitersInv
<1>2. CASE Index!Request(c)
  <2>1. /\ call[c].at = "request" /\ c \in Remote /\ Quiet /\ rec' = rec
    BY <1>1, <1>2 DEF Index!Request, Index!StartPolling, CallIn, Quiet
  <2>2. ASSUME NEW res \in {"invalid", "unavailable"}, Index!Raises(c, res) PROVE IndexInv'
    BY <2>1, <2>2, QuietRaises
  <2>3. ASSUME NEW p \in {"poll", "source"}, Index!Goto(c, p), p = "poll" <=> call[c].op = "wait"
        PROVE  IndexInv'
    <3>1. CallIn(c, [call[c] EXCEPT !.at = p], builds, pubs, rec')
      BY <1>1, <2>1, <2>3 DEF CallIn, IndexCallRecords
    <3>2. DueRec([call[c] EXCEPT !.at = p]) => DueRec(call[c])
      BY <1>1, <2>1 DEF DueRec, IndexCallRecords
    <3>3. p \in IndexPoints \ {"idle", "attached"}
      BY DEF IndexPoints
    <3>4. QED
      BY <2>1, <2>3, <3>1, <3>2, <3>3, QuietGoto
  <2>4. QED
    BY <1>2, <2>2, <2>3 DEF Index!Request, Index!StartPolling
<1>3. CASE Index!Look(c)
  <2> DEFINE r == [call[c] EXCEPT !.at = "list", !.seen = rec]
  <2>1. /\ call[c].at \in {"look", "poll"} /\ Quiet /\ rec' = rec /\ Index!Silent
        /\ call' = Index!Noted([call EXCEPT ![c].at = "list", ![c].seen = rec])
    BY <1>3 DEF Index!Look, Quiet
  <2>2. /\ r \in IndexCallRecords /\ r.at = "list" /\ r.seen = rec /\ r.op = call[c].op /\ r.id = call[c].id
        /\ r.applied = call[c].applied /\ r.ready = call[c].ready /\ r.mark = call[c].mark
    BY <1>1 DEF IndexCallRecords, IndexPoints, IndexInv, StoreInv
  <2>3. [call EXCEPT ![c].at = "list", ![c].seen = rec] = [call EXCEPT ![c] = r]
    BY DEF IndexInv, WaitersInv
  <2> HIDE DEF r
  <2>4. CallIn(c, r, builds, pubs, rec')
    BY <1>1, <2>1, <2>2 DEF CallIn
  <2>5. ~DueRec(r)
    BY <2>2 DEF DueRec
  <2>6. QED
    BY <2>1, <2>2, <2>3, <2>4, <2>5, QuietCall
<1>4. CASE Index!PollLost(c)
  BY <1>4, QuietRaises DEF Index!PollLost, Quiet
<1>5. CASE Index!Deadline(c)
  <2>1. Quiet /\ Index!Raises(c, "timeout")
    BY <1>5, StatusIs DEF Index!Deadline, Quiet
  <2>2. QED
    BY <2>1, QuietRaises
<1>6. QED
  BY <1>2, <1>3, <1>4, <1>5

\* The status is answered, to the caller or to the client's loop.
LEMMA IndexLists ==
    ASSUME IndexInv, NEW c \in Callers, Index!List(c)
    PROVE  IndexInv'
<1> USE DEF Index!bounds
<1> DEFINE status == Index!Status(call[c].seen)
<1>1. call[c] \in IndexCallRecords /\ CallIn(c, call[c], builds, pubs, rec) /\ call[c].at = "list"
  BY DEF IndexInv, WaitersInv, Index!List
<1>2. Quiet
  BY StatusIs DEF Index!List, Quiet
<1>3. /\ status \in {"running", "build_failed", "ready", "not_found"}
      /\ status = "ready" => snap # 0
      /\ status # "not_found" => snap # 0 \/ call[c].seen.state # "none"
  BY StatusIs
<1> HIDE DEF status
<1>4. CASE Index!Ends(c, status)
  BY <1>2, <1>3, <1>4, QuietEnds
<1>5. CASE Index!Raises(c, "unavailable")
  BY <1>2, <1>5, QuietRaises
<1>6. CASE c \in Remote /\ call[c].op # "status" /\ Index!Polled(c, status)
  <2>1. CASE status = "running"
    <3> DEFINE r == [call[c] EXCEPT !.at = "poll", !.seen = Index!NoRecord]
    <3>1. Index!Silent /\ call' = Index!Noted([call EXCEPT ![c].at = "poll", ![c].seen = Index!NoRecord])
      BY <1>6, <2>1 DEF Index!Polled
    <3>2. Index!NoRecord \in BuildRecords
      BY DEF Index!NoRecord, BuildRecords
    <3>3. /\ r \in IndexCallRecords /\ r.at = "poll" /\ r.op = call[c].op /\ r.id = call[c].id
          /\ r.applied = call[c].applied /\ r.ready = call[c].ready /\ r.mark = call[c].mark
      BY <1>1, <3>2 DEF IndexCallRecords, IndexPoints
    <3>4. [call EXCEPT ![c].at = "poll", ![c].seen = Index!NoRecord] = [call EXCEPT ![c] = r]
      BY DEF IndexInv, WaitersInv
    <3> HIDE DEF r
    <3>5. CallIn(c, r, builds, pubs, rec')
      BY <1>1, <1>6, <3>3 DEF CallIn
    <3>6. ~DueRec(r)
      BY <3>3 DEF DueRec
    <3>7. QED
      BY <1>2, <3>1, <3>3, <3>4, <3>5, <3>6, QuietCall
  <2>2. CASE status = "ready"
    <3>1. Index!Raises(c, "ok") /\ snap # 0
      BY <1>3, <1>6, <2>2 DEF Index!Polled
    <3>2. QED
      BY <1>2, <3>1, QuietRaises
  <2>3. CASE status \in {"build_failed", "not_found"}
    <3>1. Index!Raises(c, status)
      BY <1>6, <2>3 DEF Index!Polled
    <3>2. QED
      BY <1>2, <2>3, <3>1, QuietRaises
  <2>4. QED
    BY <1>3, <2>1, <2>2, <2>3
<1>7. CASE c \notin Remote /\ call[c].op # "status" /\ Index!Raises(c, IF status = "not_found" THEN "not_found" ELSE "ok")
  <2>1. CASE status = "not_found"
    BY <1>2, <1>7, <2>1, QuietRaises
  <2>2. CASE status # "not_found"
    <3>1. snap # 0 \/ call[c].ready \/ call[c].op \notin Index!Submits
      BY <1>1, <1>7 DEF CallIn
    <3>2. call[c].op = "wait" => snap # 0 \/ call[c].mark < builds
      BY <1>1, <1>3, <1>7, <2>2 DEF CallIn
    <3>3. call[c].id = 0
      BY <1>1 DEF CallIn
    <3>4. Index!Raises(c, "ok")
      BY <1>7, <2>2
    <3>5. QED
      BY <1>2, <1>7, <3>1, <3>2, <3>3, <3>4, QuietRaises
  <2>3. QED
    BY <2>1, <2>2
<1>8. QED
  BY <1>4, <1>5, <1>6, <1>7 DEF Index!List, status

\* The service before and after a submission.
LEMMA IndexService ==
    ASSUME IndexInv, NEW c \in Callers, Index!SourceReference(c) \/ Index!Wait(c) \/ Index!Attached(c)
    PROVE  IndexInv'
<1> USE DEF Index!store, Index!bounds
<1>1. call[c] \in IndexCallRecords /\ CallIn(c, call[c], builds, pubs, rec)
  BY DEF IndexInv, WaitersInv
<1>2. Quiet /\ rec' = rec
  BY DEF Index!SourceReference, Index!Wait, Index!Attached, Quiet
<1>3. CASE Index!SourceReference(c)
  <2>1. call[c].at = "source"
    BY <1>3 DEF Index!SourceReference
  <2>2. CASE Index!Ends(c, "invalid")
    <3>1. c \notin Remote => ~call[c].applied
      BY <1>1, <2>1 DEF CallIn
    <3>2. QED
      BY <1>2, <2>2, <3>1, QuietEnds
  <2>3. CASE ~Index!Ends(c, "invalid")
    <3>1. PICK p \in {"submit", "wait", "look", "apply"} :
             /\ Index!Goto(c, p)
             /\ p = "submit" => call[c].op \in Index!Submits
             /\ p = "wait" => call[c].op = "wait"
             /\ p = "look" => call[c].op = "status"
      <4>1. CASE call[c].op \in Index!Submits
        BY <1>3, <2>3, <4>1 DEF Index!SourceReference, Index!Submits
      <4>2. CASE call[c].op \notin Index!Submits /\ call[c].op = "wait"
        BY <1>3, <2>3, <4>2 DEF Index!SourceReference
      <4>3. CASE call[c].op \notin Index!Submits /\ call[c].op = "status"
        BY <1>3, <2>3, <4>3 DEF Index!SourceReference
      <4>4. CASE call[c].op \notin Index!Submits /\ call[c].op \notin {"wait", "status"}
        BY <1>3, <2>3, <4>4 DEF Index!SourceReference
      <4>5. QED
        BY <4>1, <4>2, <4>3, <4>4
    <3>2. CallIn(c, [call[c] EXCEPT !.at = p], builds, pubs, rec')
      <4> DEFINE r == [call[c] EXCEPT !.at = p]
      <4>1. /\ r.at = p /\ r.op = call[c].op /\ r.id = call[c].id /\ r.applied = call[c].applied
            /\ r.mark = call[c].mark
        BY <1>1 DEF IndexCallRecords
      <4> HIDE DEF r
      <4>2. CallIn(c, r, builds, pubs, rec')
        BY <1>1, <2>1, <3>1, <4>1 DEF CallIn, Index!Submits
      <4>3. QED
        BY <4>2 DEF r
    <3>3. DueRec([call[c] EXCEPT !.at = p]) => DueRec(call[c])
      BY <1>1, <2>1 DEF DueRec, IndexCallRecords
    <3>4. p \in IndexPoints \ {"idle", "attached"}
      BY DEF IndexPoints
    <3>5. QED
      BY <1>2, <3>1, <3>2, <3>3, <3>4, QuietGoto
  <2>4. QED
    BY <2>2, <2>3
<1>4. CASE Index!Wait(c)
  <2>1. call[c].at = "wait" /\ Index!Silent /\ c \notin Remote
    BY <1>1, <1>4 DEF Index!Wait, CallIn
  <2>2. CASE rec.state # "none"
    <3> DEFINE r == [call[c] EXCEPT !.at = "attached", !.id = rec.id]
    <3>1. call' = Index!Noted([call EXCEPT ![c].at = "attached", ![c].id = rec.id])
      BY <1>4, <2>2 DEF Index!Wait
    <3>2. rec.id \in 1 .. builds /\ rec.id \in Nat /\ builds \in Nat /\ (Fresh(rec) => rec.id \notin pubs)
      BY <2>2 DEF IndexInv, StoreInv, BuildRecords
    <3>3. /\ r \in IndexCallRecords /\ r.at = "attached" /\ r.id = rec.id /\ r.op = call[c].op
          /\ r.applied = call[c].applied /\ r.ready = call[c].ready /\ r.mark = call[c].mark
      BY <1>1, <3>2 DEF IndexCallRecords, IndexPoints
    <3>4. [call EXCEPT ![c].at = "attached", ![c].id = rec.id] = [call EXCEPT ![c] = r]
      BY DEF IndexInv, WaitersInv
    <3> HIDE DEF r
    <3>5. CallIn(c, r, builds, pubs, rec')
      BY <1>1, <2>1, <3>2, <3>3 DEF CallIn
    <3>6. ~DueRec(r)
      BY <3>3 DEF DueRec
    <3>7. QED
      BY <1>2, <2>1, <3>1, <3>3, <3>4, <3>5, <3>6, QuietCall
  <2>3. CASE rec.state = "none"
    <3> DEFINE r == [call[c] EXCEPT !.at = "look", !.mark = builds]
    <3>1. call' = Index!Noted([call EXCEPT ![c].at = "look", ![c].mark = builds])
      BY <1>4, <2>3 DEF Index!Wait
    <3>2. builds \in Nat
      BY DEF IndexInv, StoreInv
    <3>3. /\ r \in IndexCallRecords /\ r.at = "look" /\ r.id = call[c].id /\ r.op = call[c].op
          /\ r.applied = call[c].applied /\ r.ready = call[c].ready /\ r.mark = builds
      BY <1>1, <3>2 DEF IndexCallRecords, IndexPoints
    <3>4. [call EXCEPT ![c].at = "look", ![c].mark = builds] = [call EXCEPT ![c] = r]
      BY DEF IndexInv, WaitersInv
    <3> HIDE DEF r
    <3>5. CallIn(c, r, builds, pubs, rec')
      BY <1>1, <1>2, <2>1, <2>3, <3>2, <3>3 DEF CallIn, Fresh
    <3>6. ~DueRec(r)
      BY <3>3 DEF DueRec
    <3>7. QED
      BY <1>2, <2>1, <3>1, <3>3, <3>4, <3>5, <3>6, QuietCall
  <2>4. QED
    BY <2>2, <2>3
<1>5. CASE Index!Attached(c)
  <2>1. /\ call[c].at = "attached" /\ call[c].id \in DOMAIN ended
        /\ Index!Raises(c, IF ended[call[c].id] THEN "ok" ELSE "build_failed")
    BY <1>5 DEF Index!Attached
  <2>2. CASE ended[call[c].id]
    <3>1. Index!Raises(c, "ok") /\ call[c].id \in pubs /\ call[c].id # 0 /\ c \notin Remote
      BY <1>1, <2>1, <2>2 DEF CallIn, IndexInv, StoreInv
    <3>2. call[c].op \in Index!Submits => call[c].ready
      BY <1>1, <2>1, <3>1 DEF CallIn
    <3>3. QED
      BY <1>2, <3>1, <3>2, QuietRaises
  <2>3. CASE ~ended[call[c].id]
    <3>1. Index!Raises(c, "build_failed")
      BY <2>1, <2>3
    <3>2. QED
      BY <1>2, <3>1, QuietRaises
  <2>4. QED
    BY <2>2, <2>3
<1>6. QED
  BY <1>3, <1>4, <1>5

\* A submission that is accepted: one call less that may begin a build, one build more.
LEMMA IndexAccepts ==
    ASSUME IndexInv, NEW c \in Callers, call[c].at = "submit", ~Active,
           builds' = builds + 1, UNCHANGED <<snap, last, ended, pubs, begun, foreign, restarts>>,
           rec' = [state |-> "pending", id |-> builds + 1, op |-> call[c].op, base |-> snap],
           WaitersInv', OutInv',
           Cardinality(DueCalls') = Cardinality(DueCalls) - One(DueRec(call[c])),
           Cardinality(DueSubmits') = Cardinality(DueSubmits) - One(DueRec(call[c]) /\ call[c].op # "register")
    PROVE  IndexInv'
<1>1. call[c] \in IndexCallRecords /\ call[c].op \in Index!Submits
  BY DEF IndexInv, WaitersInv, CallIn
<1>2. DueRec(call[c]) /\ call[c].op # "register"
  BY <1>1 DEF DueRec, Index!Submits
<1>3. Owes' /\ ~Owes /\ rec'.id = builds' /\ rec' \in BuildRecords /\ rec'.state = "pending"
  BY <1>1 DEF Active, Owes, Index!Active, BuildRecords, IndexInv, StoreInv
<1>4. builds' \notin DOMAIN ended /\ builds' \notin pubs
  BY DEF IndexInv, StoreInv
<1>5. StoreInv'
  <2>1. snap' \in Nat /\ last' \in Nat /\ builds' \in Nat /\ snap' <= last' /\ rec'.id <= builds'
    BY <1>3 DEF IndexInv, StoreInv
  <2>2. DOMAIN ended' \subseteq 1 .. builds' /\ rec'.id \in 1 .. builds' /\ pubs' \subseteq 1 .. builds'
    BY <1>3, <2>1 DEF IndexInv, StoreInv
  <2>3. rec'.id \notin DOMAIN ended' /\ rec'.id \notin pubs'
    BY <1>3, <1>4
  <2>4. QED
    BY <1>3, <2>1, <2>2, <2>3 DEF IndexInv, StoreInv, Active, Fresh
<1>6. CountInv'
  BY <1>2, <1>3, DueCounts DEF IndexInv, StoreInv, CountInv, One
<1>7. QED
  BY <1>5, <1>6 DEF IndexInv

\* BuildCoordinator.submit: attach to the build in progress, or begin one.
LEMMA IndexSubmits ==
    ASSUME IndexInv, NEW c \in Callers, Index!Submit(c)
    PROVE  IndexInv'
<1> DEFINE op == call[c].op
<1>1. /\ call[c] \in IndexCallRecords /\ CallIn(c, call[c], builds, pubs, rec)
      /\ call[c].at = "submit" /\ op \in Index!Submits
  BY DEF IndexInv, WaitersInv, CallIn, Index!Submit
<1>2. UNCHANGED <<snap, last, ended, pubs, begun, foreign, restarts>>
  BY DEF Index!Submit, Index!bounds
<1>3. CASE ~Index!Accepts(op)
  <2>1. Index!Ends(c, Index!Refusal(op)) /\ Quiet
    BY <1>2, <1>3 DEF Index!Submit, Quiet
  <2>2. Index!Refusal(op) \in {"exists", "not_found", "running"}
    BY DEF Index!Refusal
  <2>3. QED
    BY <2>1, <2>2, QuietEnds
<1>4. CASE Index!Accepts(op)
  <2>1. /\ ~Active /\ builds' = builds + 1 /\ builds \in Nat
        /\ rec' = [state |-> "pending", id |-> builds + 1, op |-> op, base |-> snap]
    BY <1>4 DEF Index!Submit, Index!Accepts, Active, IndexInv, StoreInv
  <2>2. Steady /\ Fresh(rec')
    BY <1>2, <2>1 DEF Steady, Fresh
  <2>3. ASSUME NEW res \in {"accepted", "unavailable"}, Index!Raises(c, res) PROVE IndexInv'
    <3>1. /\ WaitersInv' /\ OutInv'
          /\ Cardinality(DueCalls') = Cardinality(DueCalls) - One(DueRec(call[c]))
          /\ Cardinality(DueSubmits') = Cardinality(DueSubmits)
                                           - One(DueRec(call[c]) /\ call[c].op # "register")
      BY <2>2, <2>3, RaisesMoves
    <3>2. QED
      BY <1>1, <1>2, <2>1, <3>1, IndexAccepts
  <2>4. ASSUME Index!Silent,
               call' = Index!Noted([call EXCEPT ![c].applied = TRUE,
                           ![c].at = IF c \in Remote THEN "request" ELSE "wait",
                           ![c].op = IF c \in Remote THEN "wait" ELSE @])
        PROVE  IndexInv'
    <3> DEFINE r == [call[c] EXCEPT !.applied = TRUE, !.at = IF c \in Remote THEN "request" ELSE "wait",
                                    !.op = IF c \in Remote THEN "wait" ELSE @]
    <3>1. [call EXCEPT ![c].applied = TRUE, ![c].at = IF c \in Remote THEN "request" ELSE "wait",
                       ![c].op = IF c \in Remote THEN "wait" ELSE @] = [call EXCEPT ![c] = r]
      BY DEF IndexInv, WaitersInv
    <3>2. /\ r \in IndexCallRecords /\ r.at = IF c \in Remote THEN "request" ELSE "wait"
          /\ r.op = IF c \in Remote THEN "wait" ELSE op
          /\ r.id = call[c].id /\ r.mark = call[c].mark
      BY <1>1 DEF IndexCallRecords, IndexPoints, Index!Ops
    <3> HIDE DEF r
    <3>3. CallIn(c, r, builds', pubs', rec')
      <4>1. r.mark <= builds' /\ r.id = 0
        BY <1>1, <2>1, <3>2 DEF CallIn, IndexCallRecords
      <4>2. QED
        BY <1>1, <2>2, <3>2, <4>1 DEF CallIn, Index!Submits
    <3>4. ~DueRec(r)
      BY <3>2 DEF DueRec, Index!Submits
    <3>5. /\ WaitersInv'
          /\ Cardinality(DueCalls') = Cardinality(DueCalls) + One(DueRec(r)) - One(DueRec(call[c]))
          /\ Cardinality(DueSubmits') = Cardinality(DueSubmits) + One(DueRec(r) /\ r.op # "register")
                                           - One(DueRec(call[c]) /\ call[c].op # "register")
      BY <2>2, <2>4, <3>1, <3>2, <3>3, CallMoves DEF IndexInv
    <3>6. OutInv'
      BY <2>4, SilentOut
    <3>7. /\ Cardinality(DueCalls') = Cardinality(DueCalls) - One(DueRec(call[c]))
          /\ Cardinality(DueSubmits') = Cardinality(DueSubmits) - One(DueRec(call[c]) /\ call[c].op # "register")
      BY <3>4, <3>5, DueCounts DEF One
    <3>8. QED
      BY <1>1, <1>2, <2>1, <3>5, <3>6, <3>7, IndexAccepts
  <2>5. QED
    BY <1>4, <2>3, <2>4 DEF Index!Submit
<1>5. QED
  BY <1>3, <1>4

\* The other operations.
LEMMA IndexApplies ==
    ASSUME IndexInv, NEW c \in Callers, Index!Apply(c)
    PROVE  IndexInv'
<1>1. /\ call[c] \in IndexCallRecords /\ call[c].at = "apply"
      /\ UNCHANGED <<rec, ended, pubs, builds, begun, foreign, restarts>>
  BY DEF IndexInv, WaitersInv, Index!Apply, Index!bounds
<1>2. Steady
  BY <1>1 DEF Steady, IndexInv, StoreInv
<1>3. CASE Index!ApplyList(c)
  <2>1. Index!Ends(c, "ok") /\ Quiet /\ call[c].op \notin Index!Submits \cup {"wait"}
    BY <1>1, <1>3 DEF Index!ApplyList, Index!Submits, Quiet
  <2>2. QED
    BY <2>1, QuietEnds
<1>4. ASSUME NEW res \in {"ok", "not_found", "unavailable", "exists"}, Index!Raises(c, res),
             call[c].op \in {"drop", "register"},
             \/ snap' = 0 /\ UNCHANGED last
             \/ UNCHANGED <<snap, last>>
             \/ call[c].op = "register" /\ snap' = last + 1 /\ last' = last + 1
      PROVE  IndexInv'
  <2>1. /\ WaitersInv' /\ OutInv'
        /\ Cardinality(DueCalls') = Cardinality(DueCalls) - One(DueRec(call[c]))
        /\ Cardinality(DueSubmits') = Cardinality(DueSubmits)
                                         - One(DueRec(call[c]) /\ call[c].op # "register")
    <3>1. call[c].op \notin Index!Submits \cup {"wait"}
      BY <1>1, <1>4 DEF Index!Submits
    <3>2. QED
      BY <1>2, <1>4, <3>1, RaisesMoves
  <2>2. call[c].op = "register" => DueRec(call[c])
    BY <1>1 DEF DueRec
  <2>3. StoreInv'
    BY <1>1, <1>4 DEF IndexInv, StoreInv, Active
  <2>4. CountInv'
    <3>1. Owes' <=> Owes
      BY <1>1 DEF Owes
    <3>2. last' = last + (IF call[c].op = "register" THEN 1 ELSE 0) \/ last' = last
      BY <1>4
    <3>3. QED
      BY <1>1, <2>1, <2>2, <3>1, <3>2, DueCounts DEF IndexInv, StoreInv, CountInv, One
  <2>5. QED
    BY <2>1, <2>3, <2>4 DEF IndexInv
<1>5. CASE Index!ApplyDrop(c)
  BY <1>4, <1>5 DEF Index!ApplyDrop, Index!Ends
<1>6. CASE Index!ApplyRegister(c)
  BY <1>4, <1>6 DEF Index!ApplyRegister, Index!Ends
<1>7. QED
  BY <1>3, <1>5, <1>6 DEF Index!Apply

\* A step of nobody's call: the ones that run note a publication.
LEMMA CallsStay ==
    ASSUME IndexInv, Steady, call' = Index!Noted(call)
    PROVE  WaitersInv' /\ DueCalls' = DueCalls /\ DueSubmits' = DueSubmits
<1>1. call \in [Callers -> IndexCallRecords] /\ \A c \in Callers : CallIn(c, call[c], builds, pubs, rec)
  BY DEF IndexInv, WaitersInv
<1>2. /\ call' \in [Callers -> IndexCallRecords]
      /\ \A c \in Callers :
            /\ call'[c].op = call[c].op /\ call'[c].at = call[c].at /\ call'[c].timeout = call[c].timeout
            /\ call'[c].id = call[c].id /\ call'[c].applied = call[c].applied
            /\ call'[c].seen = call[c].seen /\ call'[c].mark = call[c].mark
            /\ call[c].ready => call'[c].ready
            /\ snap' # 0 /\ call[c].at # "idle" => call'[c].ready
            /\ call[c].at = "idle" => call'[c] = call[c]
  BY <1>1, NotedIs
<1>3. ASSUME NEW c \in Callers PROVE CallIn(c, call'[c], builds', pubs', rec')
  <2>1. call[c] \in IndexCallRecords /\ call'[c] \in IndexCallRecords /\ CallIn(c, call[c], builds, pubs, rec)
    BY <1>1, <1>2
  <2>2. QED
    BY <1>2, <2>1, CallStays
<1>4. WaitersInv'
  BY <1>2, <1>3 DEF WaitersInv
<1>5. DueCalls' = DueCalls /\ DueSubmits' = DueSubmits
  BY <1>2 DEF DueCalls, DueSubmits, DueRec
<1>6. QED
  BY <1>4, <1>5

\* The task of a build starts, publishes, ends.
LEMMA IndexBuilds ==
    ASSUME IndexInv, Index!Build
    PROVE  IndexInv'
<1> USE DEF Index!bounds
<1>1. /\ rec \in BuildRecords /\ builds \in Nat /\ snap \in Nat /\ last \in Nat /\ snap <= last
      /\ (rec.state # "none" => rec.id \in 1 .. builds)
  BY DEF IndexInv, StoreInv
\* The record alone changes.
<1>2. ASSUME UNCHANGED <<snap, last, pubs, builds, call, begun, foreign, restarts>>, Index!Silent,
             Fresh(rec) => Fresh(rec'), rec.state # "none", Owes' => Owes, StoreInv'
      PROVE  IndexInv'
  <2>1. \A c \in Callers : CallIn(c, call[c], builds, pubs, rec)
    BY DEF IndexInv, WaitersInv
  <2>2. \A c \in Callers : CallIn(c, call'[c], builds', pubs', rec')
    BY <1>2, <2>1 DEF CallIn
  <2>3. WaitersInv'
    BY <1>2, <2>2 DEF IndexInv, WaitersInv
  <2>4. DueCalls' = DueCalls /\ DueSubmits' = DueSubmits
    BY <1>2 DEF DueCalls, DueSubmits, DueRec
  <2>5. CountInv'
    BY <1>2, <2>4, DueCounts, CountKept DEF IndexInv
  <2>6. QED
    BY <1>2, <2>3, <2>5, SilentOut DEF IndexInv
<1>3. CASE Index!BuildStarts
  <2>1. /\ rec.state = "pending" /\ rec' = [rec EXCEPT !.state = "building"] /\ Index!Silent
        /\ UNCHANGED <<snap, last, ended, pubs, builds, call, begun, foreign, restarts>>
    BY <1>3 DEF Index!BuildStarts
  <2>2. rec' \in BuildRecords /\ rec'.id = rec.id /\ rec'.state = "building"
    BY <1>1, <2>1 DEF BuildRecords
  <2>3. Fresh(rec) /\ Fresh(rec') /\ Active /\ Owes /\ Owes'
    BY <2>1, <2>2 DEF Fresh, Active, Index!Active, Owes
  <2>4. StoreInv'
    BY <2>1, <2>2, <2>3 DEF IndexInv, StoreInv
  <2>5. QED
    BY <1>2, <2>1, <2>3, <2>4
<1>4. CASE Index!BuildPublishes
  <2>1. /\ rec.state = "building" /\ snap' = last + 1 /\ last' = last + 1 /\ pubs' = pubs \cup {rec.id}
        /\ rec' = [rec EXCEPT !.state = "published"] /\ call' = Index!Noted(call) /\ Index!Silent
        /\ UNCHANGED <<ended, builds, begun, foreign, restarts>>
    BY <1>4 DEF Index!BuildPublishes
  <2>2. rec' \in BuildRecords /\ rec'.id = rec.id /\ rec'.state = "published"
    BY <1>1, <2>1 DEF BuildRecords
  <2>3. ~Fresh(rec') /\ Active /\ Owes /\ ~Owes' /\ snap' # 0
    BY <1>1, <2>1, <2>2 DEF Fresh, Active, Index!Active, Owes
  <2>4. StoreInv'
    <3>1. pubs' \subseteq 1 .. builds /\ rec'.id \in pubs'
      BY <1>1, <2>1, <2>2 DEF IndexInv, StoreInv
    <3>2. QED
      BY <1>1, <2>1, <2>2, <2>3, <3>1 DEF IndexInv, StoreInv
  <2>5. Steady
    BY <1>1, <2>1, <2>3 DEF Steady
  <2>6. WaitersInv' /\ DueCalls' = DueCalls /\ DueSubmits' = DueSubmits
    BY <2>1, <2>5, CallsStay
  <2>7. CountInv'
    BY <1>1, <2>1, <2>3, <2>6, DueCounts DEF IndexInv, StoreInv, CountInv, One
  <2>8. QED
    BY <2>1, <2>4, <2>6, <2>7, SilentOut DEF IndexInv
<1>5. ASSUME NEW ok \in BOOLEAN, Index!BuildFinishes(ok) PROVE IndexInv'
  <2>1. /\ rec.state = (IF ok THEN "published" ELSE "building") /\ Index!Silent
        /\ rec' = [rec EXCEPT !.state = IF ok THEN "complete" ELSE "failed"]
        /\ ended' = [i \in DOMAIN ended \cup {rec.id} |-> IF i = rec.id THEN ok ELSE ended[i]]
        /\ UNCHANGED <<snap, last, pubs, builds, call, begun, foreign, restarts>>
    BY <1>5 DEF Index!BuildFinishes, Index!Finishes
  <2>2. rec' \in BuildRecords /\ rec'.id = rec.id /\ rec'.state = IF ok THEN "complete" ELSE "failed"
    BY <1>1, <2>1 DEF BuildRecords
  <2>3. /\ (Fresh(rec) <=> ~ok) /\ (Fresh(rec') <=> ~ok)
        /\ ~Owes' /\ ~Active'
    BY <2>1, <2>2 DEF Fresh, Owes, Active, Index!Active
  <2>4. DOMAIN ended' = DOMAIN ended \cup {rec.id} /\ ended'[rec.id] = ok
        /\ \A i \in DOMAIN ended \ {rec.id} : ended'[i] = ended[i]
    BY <2>1
  <2>5. rec.id \in 1 .. builds /\ (ok => rec.id \in pubs) /\ (~ok => rec.id \notin pubs)
    BY <1>1, <2>1 DEF IndexInv, StoreInv, Fresh
  <2>6. StoreInv'
    <3>1. \A i \in DOMAIN ended' : ended'[i] => i \in pubs'
      BY <2>1, <2>4, <2>5 DEF IndexInv, StoreInv
    <3>2. DOMAIN ended' \subseteq 1 .. builds
      BY <2>4, <2>5 DEF IndexInv, StoreInv
    <3>3. /\ Fresh(rec') => rec'.id \notin pubs'
          /\ rec'.state \in {"published", "complete"} => rec'.id \in pubs'
          /\ rec'.state # "none" => rec'.id \in 1 .. builds'
      BY <2>1, <2>2, <2>3, <2>5
    <3>4. QED
      BY <2>1, <2>2, <2>3, <3>1, <3>2, <3>3 DEF IndexInv, StoreInv
  <2>7. rec.state # "none" /\ (Fresh(rec) => Fresh(rec'))
    BY <2>1, <2>3
  <2>8. QED
    BY <1>2, <2>1, <2>3, <2>6, <2>7
<1>6. CASE Index!BuildRemoved
  <2>1. /\ rec.state = "complete" /\ rec' = Index!NoRecord /\ Index!Silent
        /\ UNCHANGED <<snap, last, ended, pubs, builds, call, begun, foreign, restarts>>
    BY <1>6 DEF Index!BuildRemoved
  <2>2. /\ ~Fresh(rec) /\ ~Fresh(rec') /\ ~Owes' /\ ~Active' /\ rec' \in BuildRecords /\ rec'.id = 0
        /\ rec'.state = "none"
    BY <2>1 DEF Fresh, Owes, Active, Index!Active, Index!NoRecord, BuildRecords
  <2>3. StoreInv'
    BY <2>1, <2>2 DEF IndexInv, StoreInv
  <2>4. QED
    BY <1>2, <2>1, <2>2, <2>3
<1>7. QED
  BY <1>3, <1>4, <1>5, <1>6 DEF Index!Build

\* Other processes, and the end of this one.
LEMMA IndexElsewhere ==
    ASSUME IndexInv, Index!ForeignPublish \/ Index!Restart
    PROVE  IndexInv'
<1> USE DEF Index!bounds
<1>1. IndexEvents \in Nat
  BY CallsAssumption DEF Index!IndexApiAssumption
<1>2. CASE Index!ForeignPublish
  <2>1. /\ foreign + restarts < IndexEvents /\ foreign' = foreign + 1 /\ snap' = last + 1 /\ last' = last + 1
        /\ call' = Index!Noted(call) /\ UNCHANGED <<rec, ended, pubs, builds, begun, restarts>> /\ Index!Silent
    BY <1>2 DEF Index!ForeignPublish
  <2>2. StoreInv'
    BY <1>1, <2>1 DEF IndexInv, StoreInv, Active
  <2>3. Steady
    BY <2>1 DEF Steady, IndexInv, StoreInv
  <2>4. WaitersInv' /\ DueCalls' = DueCalls /\ DueSubmits' = DueSubmits
    BY <2>1, <2>3, CallsStay
  <2>5. CountInv'
    BY <2>1, <2>4, DueCounts DEF IndexInv, StoreInv, CountInv, One, Owes
  <2>6. QED
    BY <2>1, <2>2, <2>4, <2>5, SilentOut DEF IndexInv
<1>3. CASE Index!Restart
  <2>1. /\ foreign + restarts < IndexEvents /\ restarts' = restarts + 1 /\ rec' = Index!NoRecord
        /\ UNCHANGED <<snap, last, ended, pubs, builds, begun, foreign>> /\ Index!Silent
        /\ call' = [c \in Callers |-> IF call[c].at = "poll" \/ (c \in Remote /\ call[c].at = "request")
                                      THEN call[c] ELSE Index!Idle]
    BY <1>3 DEF Index!Restart
  <2>2. Index!Idle \in IndexCallRecords /\ ~DueRec(Index!Idle)
        /\ \A c \in Callers : CallIn(c, Index!Idle, builds, pubs, Index!NoRecord)
    BY DEF Index!Idle, Index!NoRecord, IndexCallRecords, BuildRecords, IndexPoints, Index!Ops, Index!Timeouts,
       DueRec, CallIn, Index!Submits, IndexInv, StoreInv
  <2>3. ASSUME NEW c \in Callers
        PROVE  /\ call'[c] \in {call[c], Index!Idle} /\ CallIn(c, call'[c], builds', pubs', rec')
               /\ call'[c] \in IndexCallRecords
    <3>1. call[c] \in IndexCallRecords /\ CallIn(c, call[c], builds, pubs, rec)
      BY DEF IndexInv, WaitersInv
    <3>2. CASE call[c].at = "poll" \/ (c \in Remote /\ call[c].at = "request")
      <4>1. c \in Remote /\ call'[c] = call[c]
        BY <2>1, <3>1, <3>2 DEF CallIn
      <4>2. CallIn(c, call[c], builds, pubs, rec')
        BY <3>1, <4>1 DEF CallIn
      <4>3. QED
        BY <2>1, <3>1, <4>1, <4>2
    <3>3. CASE ~(call[c].at = "poll" \/ (c \in Remote /\ call[c].at = "request"))
      BY <2>1, <2>2, <3>3
    <3>4. QED
      BY <3>2, <3>3
  <2>4. WaitersInv'
    <3>1. call' \in [Callers -> IndexCallRecords]
      BY <2>1, <2>3
    <3>2. QED
      BY <2>3, <3>1 DEF WaitersInv
  <2>5. rec'.state = "none" /\ rec'.id = 0 /\ rec' \in BuildRecords /\ ~Owes' /\ ~Active' /\ ~Fresh(rec')
    BY <2>1 DEF Active, Owes, Fresh, Index!Active, Index!NoRecord, BuildRecords
  <2>6. StoreInv'
    BY <1>1, <2>1, <2>5 DEF IndexInv, StoreInv
  <2>7. DueCalls' \subseteq DueCalls /\ DueSubmits' \subseteq DueSubmits
    <3>1. \A c \in Callers : DueRec(call'[c]) => call'[c] = call[c]
      BY <2>2, <2>3
    <3>2. QED
      BY <3>1 DEF DueCalls, DueSubmits, DueRec
  <2>8. Cardinality(DueCalls') <= Cardinality(DueCalls) /\ Cardinality(DueSubmits') <= Cardinality(DueSubmits)
    <3>1. DueCalls \subseteq Callers /\ DueSubmits \subseteq Callers
      BY DEF DueCalls, DueSubmits
    <3>2. IsFiniteSet(DueCalls) /\ IsFiniteSet(DueSubmits)
      BY <3>1, IndexFinite, FS_Subset
    <3>3. QED
      BY <2>7, <3>2, FS_Subset
  <2>9. CountInv'
    BY <2>1, <2>5, <2>8, CountKept, DueCountsNext DEF IndexInv
  <2>10. QED
    BY <2>1, <2>4, <2>6, <2>9, SilentOut DEF IndexInv
<1>4. QED
  BY <1>2, <1>3

\* Every step of a caller, of a build and of other processes.
LEMMA IndexStep ==
    ASSUME IndexInv, Index!Next
    PROVE  IndexInv'
<1>1. CASE \E c \in Callers : Index!Call(c) \/ Index!Step(c) \/ Index!PollLost(c) \/ Index!Deadline(c)
  BY <1>1, IndexBegins, IndexClient, IndexLists, IndexService, IndexSubmits, IndexApplies DEF Index!Step
<1>2. QED
  BY <1>1, IndexBuilds, IndexElsewhere DEF Index!Next

\* What the invariant says of the index's own properties.
LEMMA IndexHolds ==
    ASSUME IndexInv
    PROVE  Index!TypeOK /\ Index!OkMeansReady /\ Index!RefusedEmbedded
<1>1. last <= begun + foreign + 1 /\ builds <= begun
  BY DueCounts DEF IndexInv, StoreInv, CountInv, One
<1>2. IndexCalls \in Nat /\ IndexEvents \in Nat /\ foreign \in 0 .. IndexEvents /\ restarts \in 0 .. IndexEvents
  BY CallsAssumption DEF Index!IndexApiAssumption, IndexInv, StoreInv
<1>3. last \in 0 .. IndexCalls + IndexEvents + 1 /\ snap \in 0 .. last /\ builds \in 0 .. IndexCalls
  BY <1>1, <1>2 DEF IndexInv, StoreInv
<1>4. rec.state \in Index!Active \cup {"none", "complete", "failed"} /\ rec.id \in 0 .. builds
  BY <1>3 DEF IndexInv, StoreInv, BuildRecords, Index!Active
<1>5. ASSUME NEW c \in Callers
      PROVE  /\ call[c].at \in {"idle", "request", "source", "submit", "wait", "attached", "look", "list",
                                "poll", "apply"}
             /\ call[c].op \in Index!Ops \cup {"none"} /\ call[c].timeout \in Index!Timeouts
             /\ call[c].at = "attached" => c \notin Remote
             /\ call[c].at = "poll" => c \in Remote
  <2>1. call[c] \in IndexCallRecords /\ CallIn(c, call[c], builds, pubs, rec)
    BY DEF IndexInv, WaitersInv
  <2>2. QED
    BY <2>1 DEF IndexCallRecords, IndexPoints, CallIn
<1>6. QED
  BY <1>2, <1>3, <1>4, <1>5 DEF IndexInv, StoreInv, OutInv, Index!TypeOK, Active

\* The record of a build in progress changes only when the build or the process ends.
LEMMA IndexKeepsBuild ==
    ASSUME IndexInv, Index!Next
    PROVE  Index!OneBuild
<1> SUFFICES ASSUME Active, restarts' = restarts PROVE rec'.id = rec.id \/ rec.id \in DOMAIN ended'
  BY DEF Index!OneBuild, Active
<1> USE DEF Index!store, Index!bounds
<1>0. restarts \in Nat /\ rec \in BuildRecords
  BY DEF IndexInv, StoreInv
<1>1. CASE Index!BuildStarts \/ Index!BuildPublishes
  BY <1>0, <1>1 DEF Index!BuildStarts, Index!BuildPublishes, BuildRecords
<1>2. ASSUME NEW ok \in BOOLEAN, Index!BuildFinishes(ok) PROVE rec.id \in DOMAIN ended'
  BY <1>2 DEF Index!BuildFinishes, Index!Finishes
<1>3. CASE Index!ForeignPublish \/ Index!Restart \/ Index!BuildRemoved
  BY <1>0, <1>3 DEF Index!ForeignPublish, Index!Restart, Index!BuildRemoved, Active, Index!Active
<1>4. ASSUME NEW c \in Callers, Index!Call(c) PROVE rec' = rec
  BY <1>4 DEF Index!Call, Index!CreateIndex, Index!RefreshIndex, Index!WaitForIndex, Index!IndexStatus,
     Index!ListIndexes, Index!DropIndex, Index!RegisterIndex, Index!Begin
<1>5. ASSUME NEW c \in Callers, Index!Step(c) PROVE rec' = rec
  <2>1. CASE Index!List(c)
    BY <2>1, StatusIs DEF Index!List
  <2>2. CASE Index!Apply(c) \/ Index!Look(c)
    BY <2>2 DEF Index!Apply, Index!Look
  <2>3. CASE Index!Submit(c)
    BY <2>3 DEF Index!Submit, Index!Accepts, Active
  <2>4. CASE Index!Request(c) \/ Index!SourceReference(c) \/ Index!Wait(c) \/ Index!Attached(c)
    BY <2>4 DEF Index!Request, Index!StartPolling, Index!SourceReference, Index!Wait, Index!Attached
  <2>5. QED
    BY <1>5, <2>1, <2>2, <2>3, <2>4 DEF Index!Step
<1>6. ASSUME NEW c \in Callers, Index!PollLost(c) \/ Index!Deadline(c) PROVE rec' = rec
  BY <1>6, StatusIs DEF Index!PollLost, Index!Deadline
<1>7. QED
  BY <1>1, <1>2, <1>3, <1>4, <1>5, <1>6 DEF Index!Next, Index!Build


-----------------------------------------------------------------------------
(* The composition.                                                        *)

\* The invariant of the component that runs.
CallsInv ==
    /\ component = "streams" => StreamsInv
    /\ component = "blocking" => BlockingInv
    /\ component = "registry" => RegistryInv
    /\ component = "index" => IndexInv

\* Whichever component runs starts in its invariant.
LEMMA CallsInit == Init => CallsInv
<1>1. Blocking!BlockingAssumption
  BY CallsAssumption
<1>2. QED
  BY <1>1, StreamsInit, BlockingInit, RegistryInit, IndexInit DEF Init, CallsInv

\* A step in which nothing changes, one component at a time.
LEMMA BlockingStutter == BlockingInv /\ UNCHANGED <<blocking, calls, snap>> => BlockingInv'
<1> SUFFICES ASSUME BlockingInv, UNCHANGED <<blocking, calls, snap>> PROVE BlockingInv'
  OBVIOUS
<1>1. UNCHANGED <<pc, job, reader, closed, bridge, loop, session, transport, calls, snap>>
  BY DEF blocking
<1>2. Blocking!TypeOK'
  BY <1>1 DEF BlockingInv, Blocking!TypeOK
<1>3. CloserInv'
  BY <1>1 DEF BlockingInv, CloserInv
<1>4. QED
  BY <1>2, <1>3 DEF BlockingInv

\* The same of the registry.
LEMMA RegistryStutter == RegistryInv /\ UNCHANGED <<tables, calls, call, out, restarts>> => RegistryInv'
<1> SUFFICES ASSUME RegistryInv, UNCHANGED <<tables, calls, call, out, restarts>> PROVE RegistryInv'
  OBVIOUS
<1>1. UNCHANGED <<catalog, ctx, hist, unsettled, calls, call, out, restarts>>
  BY DEF tables
<1>2. TableTypes' /\ PlaceInv'
  BY <1>1 DEF RegistryInv, TableInv, TableTypes, PlaceInv
<1>3. IdInv'
  BY <1>1 DEF RegistryInv, TableInv, IdInv, Known, Registry!Id
<1>4. NameInv'
  BY <1>1 DEF RegistryInv, TableInv, NameInv, NameOk, Defines, Removes, Registry!Id
<1>5. Registry!FailedLeavesNothing'
  BY <1>1 DEF RegistryInv, TableInv, Registry!FailedLeavesNothing, Registry!Id, Registry!At
<1>6. ListInv'
  <2>1. Registry!Registered' = Registry!Registered
    BY <1>1 DEF Registry!Registered
  <2>2. \A c \in Callers : ListOk(call[c], hist[c], Registry!Registered)
    BY DEF RegistryInv, ListInv
  <2>3. \A c \in Callers : ListOk(call'[c], hist'[c], Registry!Registered')
    BY <1>1, <2>1, <2>2
  <2>4. QED
    BY <1>1, <2>3 DEF RegistryInv, ListInv
<1>7. QED
  BY <1>2, <1>3, <1>4, <1>5, <1>6 DEF RegistryInv, TableInv

\* The same of the index.
LEMMA IndexStutter == IndexInv /\ UNCHANGED <<index, snap, call, out, restarts>> => IndexInv'
<1> SUFFICES ASSUME IndexInv, UNCHANGED <<index, snap, call, out, restarts>> PROVE IndexInv'
  OBVIOUS
<1>1. UNCHANGED <<last, rec, ended, pubs, builds, begun, foreign, snap, call, out, restarts>>
  BY DEF index
<1>2. StoreInv' /\ OutInv'
  BY <1>1 DEF IndexInv, StoreInv, OutInv, Active, Index!OkMeansReady, Index!RefusedEmbedded
<1>3. WaitersInv'
  BY <1>1 DEF IndexInv, WaitersInv
<1>4. CountInv'
  <2>1. DueCalls' = DueCalls /\ DueSubmits' = DueSubmits /\ Owes' = Owes
    BY <1>1 DEF DueCalls, DueSubmits, Owes
  <2>2. QED
    BY <1>1, <2>1 DEF IndexInv, CountInv
<1>5. QED
  BY <1>2, <1>3, <1>4 DEF IndexInv

\* A step is one of the component that runs.
LEMMA CallsStep == CallsInv /\ [Next]_vars => CallsInv'
<1> SUFFICES ASSUME CallsInv, [Next]_vars PROVE CallsInv'
  OBVIOUS
<1>1. CASE StreamsNext
  BY <1>1, StreamsStep DEF StreamsNext, StreamsRest, CallsInv
<1>2. CASE BlockingNext
  BY <1>2, BlockingStep, CallsAssumption DEF BlockingNext, BlockingRest, CallsInv
<1>3. CASE RegistryNext
  BY <1>3, RegistryStep DEF RegistryNext, RegistryRest, CallsInv
<1>4. CASE IndexNext
  BY <1>4, IndexStep DEF IndexNext, IndexRest, CallsInv
<1>5. CASE UNCHANGED vars
  <2>1. UNCHANGED <<component, streams, blocking, tables, index, calls, snap, call, out, restarts>>
    BY <1>5 DEF vars
  <2>2. UNCHANGED Streams!vars
    BY <2>1 DEF Streams!vars, streams
  <2>3. QED
    BY <2>1, <2>2, StreamsStep, BlockingStutter, RegistryStutter, IndexStutter DEF CallsInv
<1>6. QED
  BY <1>1, <1>2, <1>3, <1>4, <1>5 DEF Next

\* The inductive invariant holds in every state.
THEOREM CallsInvariance == Spec => []CallsInv
  BY CallsInit, CallsStep, PTL DEF Spec

\* Every variable of the running component keeps its type (TypeOK), for results of any length
\* and any number of threads, callers, names and calls.
THEOREM CallsTyped == Spec => []TypeOK
<1>1. CallsInv => TypeOK
  <2>1. Blocking!BlockingAssumption
    BY CallsAssumption
  <2>2. QED
    BY <2>1, StreamsHolds, BlockingHolds, RegistryHolds, IndexHolds DEF CallsInv, TypeOK
<1>2. QED
  BY <1>1, CallsInvariance, PTL

\* However the connection cuts the bytes, batches arrive in order and without a gap, and a loop
\* that ends normally on an open session has seen the whole result (ResultsWhole), for results
\* of any length and any buffer of the connection.
THEOREM ResultsArriveWhole == Spec => []ResultsWhole
<1>1. CallsInv => ResultsWhole
  BY StreamsHolds DEF CallsInv, ResultsWhole
<1>2. QED
  BY <1>1, CallsInvariance, PTL

\* What close, register_parquet_table, list_tables, wait_for_index and create_index reported is
\* so (AnswersHold), for any number of threads, callers, names, pages and restarts.
THEOREM AnswersAreSo == Spec => []AnswersHold
<1>1. CallsInv => AnswersHold
  <2>1. Blocking!BlockingAssumption
    BY CallsAssumption
  <2>2. QED
    BY <2>1, BlockingHolds, RegistryHolds, IndexHolds DEF CallsInv, AnswersHold
<1>2. QED
  BY <1>1, CallsInvariance, PTL

\* No step replaces a definition, a provider or the record of a build in progress
\* (NothingReplaced), whatever calls overlap it.
THEOREM OverlapsReplaceNothing == Spec => NothingReplaced
<1> DEFINE Keeps == /\ component = "registry" => Registry!NoRebind
                    /\ component = "index" => Index!OneBuild
<1>1. CallsInv /\ [Next]_vars => [Keeps]_vars
  <2> SUFFICES ASSUME CallsInv, Next PROVE Keeps
    OBVIOUS
  <2>1. component = "registry" => RegistryInv /\ Registry!Next
    BY DEF CallsInv, Next, StreamsNext, BlockingNext, RegistryNext, IndexNext
  <2>2. component = "index" => IndexInv /\ Index!Next
    BY DEF CallsInv, Next, StreamsNext, BlockingNext, RegistryNext, IndexNext
  <2>3. QED
    BY <2>1, <2>2, RegistryKeepsNames, IndexKeepsBuild
<1>2. QED
  BY <1>1, CallsInvariance, PTL DEF Spec, NothingReplaced
=============================================================================
