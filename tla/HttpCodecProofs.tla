-------------------------- MODULE HttpCodecProofs --------------------------
(***************************************************************************)
(* Theorems of Http2Codec, for any number of streams, pieces of any size,  *)
(* windows and frames: what a stream sends is framed as HTTP/2 wants it,   *)
(* no stream is left with something to send, and no event follows a reset. *)
(* After them, lemmas about the data of Http1Codec: what it puts on the    *)
(* wire, the tokens a client sends, and the headers it makes of them.      *)
(***************************************************************************)
EXTENDS Http1Codec, Http2Codec, DataLemmas

(***************************************************************************)
(* The inductive invariant: where a response is.  A stream that is open    *)
(* has no answer yet; or an answer that is all headers, not sent; or one   *)
(* with a body, in which the headers, the data source and the trailers     *)
(* follow one another; or it has sent its end.  The bytes that were sent   *)
(* and the bytes that are waiting are the bytes of the response.           *)
(***************************************************************************)
FrameKinds == {"headers", "end", "trailers", "data", "reset"}
FrameType == [kind: FrameKinds, size: Nat]

StreamType ==
    [held: BOOLEAN, headers: BOOLEAN, answered: BOOLEAN, localEnd: BOOLEAN, endSent: BOOLEAN,
     remoteEnd: BOOLEAN, deferred: BOOLEAN, reset: BOOLEAN, trailers: BOOLEAN,
     pending: Seq(Nat \ {0}), given: Seq(Nat \ {0}), cancelled: BOOLEAN, late: BOOLEAN]

QueueKinds == {"reset", "headers", "end", "trailers"}

FramesType ==
    [state: {"idle", "open", "closed"}, queue: SUBSET QueueKinds,
     data: {"none", "active", "deferred"}, window: 0..MaxWindow, granted: 0..MaxWindow]

Typed(s, f, w) ==
    s \in StreamType /\ f \in FramesType /\ w \in Seq(FrameType) /\ f.window <= f.granted

\* ResponseFraming of one stream, frame by frame.
FramedAt(s, w, i) ==
    /\ i = 1 => w[i].kind \in {"headers", "end", "reset"}
    /\ i > 1 => w[i].kind \in {"data", "trailers", "reset"}
    /\ w[i].kind \in {"end", "trailers"} =>
          /\ BytesIn(w) = Total(s.given)
          /\ \A j \in (i + 1)..Len(w) : w[j].kind = "reset"
    /\ s.endSent => BytesIn(w) = Total(s.given)

Framed(s, w) == \A i \in DOMAIN w : FramedAt(s, w, i)

Unanswered(s, f, w) ==
    /\ ~s.answered /\ ~s.localEnd /\ ~s.endSent /\ ~s.trailers /\ ~s.deferred
    /\ s.pending = <<>> /\ s.given = <<>>
    /\ f.queue \subseteq {"reset"} /\ f.data = "none" /\ w = <<>>

HeadersOnly(s, f, w) ==
    /\ s.answered /\ s.localEnd /\ ~s.endSent /\ ~s.trailers /\ ~s.deferred
    /\ s.pending = <<>> /\ s.given = <<>>
    /\ "end" \in f.queue /\ f.queue \subseteq {"reset", "end"} /\ f.data = "none" /\ w = <<>>

HeadersSent(w) == /\ w # <<>> /\ w[1].kind = "headers"
                  /\ \A i \in 2..Len(w) : w[i].kind = "data"

WithBody(s, f, w) ==
    /\ s.answered /\ ~s.endSent /\ "end" \notin f.queue
    /\ IF "headers" \in f.queue THEN w = <<>> /\ f.data = "none" ELSE HeadersSent(w)
    /\ s.trailers => s.localEnd /\ s.pending # <<>> /\ "trailers" \notin f.queue
    /\ "trailers" \in f.queue => s.localEnd /\ s.pending = <<>>
    /\ s.deferred <=> f.data = "deferred"
    /\ f.data = "deferred" => s.pending = <<>> /\ (s.localEnd => "trailers" \in f.queue)
    /\ f.data = "none" => {"headers", "trailers"} \cap f.queue # {}

Over(s, f, w) ==
    /\ s.answered /\ s.localEnd /\ s.endSent /\ ~s.trailers /\ s.pending = <<>>
    /\ f.queue \subseteq {"reset"} /\ f.data = "none" /\ w # <<>>

OpenInv(s, f, w) ==
    /\ Unanswered(s, f, w) \/ HeadersOnly(s, f, w) \/ WithBody(s, f, w) \/ Over(s, f, w)
    /\ BytesIn(w) + Total(s.pending) = Total(s.given)
    /\ s.cancelled => s.reset \/ "reset" \in f.queue

StreamInv(s, f, w) ==
    /\ Typed(s, f, w) /\ ~s.late /\ Framed(s, w)
    /\ s.held <=> f.state = "open"
    /\ f.state = "idle" => s = NoStream /\ f = NoFrames /\ w = <<>>
    /\ f.state = "open" => OpenInv(s, f, w)

\* dispatching_ is what the callers cannot see of the phase.
PhaseInv ==
    /\ phase \in {"rest", "recv", "send", "failed", "spin"}
    /\ dispatching \in BOOLEAN /\ resetPending \in BOOLEAN /\ closedConn \in BOOLEAN
    /\ phase \in {"rest", "send", "spin"} => ~dispatching
    /\ phase \in {"recv", "failed"} => dispatching

\* A reset that is put off is never forgotten.
ResetsPending ==
    \A n \in Streams : str[n].held /\ str[n].reset /\ "reset" \notin lib[n].queue => resetPending

StreamsInv ==
    /\ DOMAIN str = Streams /\ DOMAIN lib = Streams /\ DOMAIN wire = Streams
    /\ \A n \in Streams : StreamInv(str[n], lib[n], wire[n])

Http2Inv == StreamsInv /\ PhaseInv /\ ResetsPending /\ NothingStalls
-----------------------------------------------------------------------------
(* Types, and the bytes of frames *)

LEMMA Fields ==
    ASSUME NEW s, NEW f, NEW w, Typed(s, f, w)
    PROVE  /\ s.pending \in Seq(Nat \ {0}) /\ s.given \in Seq(Nat \ {0})
           /\ s.pending \in Seq(Nat) /\ s.given \in Seq(Nat)
           /\ Total(s.pending) \in Nat /\ Total(s.given) \in Nat
           /\ f.queue \subseteq QueueKinds /\ f.window \in Nat /\ f.granted \in Nat
           /\ f.window <= f.granted /\ f.granted <= MaxWindow
           /\ w \in Seq(FrameType)
<1>1. s \in StreamType /\ f \in FramesType /\ w \in Seq(FrameType) /\ f.window <= f.granted
  BY DEF Typed
<1>2. s.pending \in Seq(Nat \ {0}) /\ s.given \in Seq(Nat \ {0})
  BY <1>1 DEF StreamType
<1>3. s.pending \in Seq(Nat) /\ s.given \in Seq(Nat)
  BY <1>2, SeqMonotonic, (Nat \ {0}) \subseteq Nat
<1>4. Total(s.pending) \in Nat /\ Total(s.given) \in Nat
  BY <1>2, TotalNothing
<1>5. f.queue \subseteq QueueKinds /\ f.window \in 0..MaxWindow /\ f.granted \in 0..MaxWindow
  BY <1>1 DEF FramesType
<1>6. MaxWindow \in Nat
  BY Http2Assumption
<1> QED
  BY <1>1, <1>2, <1>3, <1>4, <1>5, <1>6

LEMMA BytesType ==
    ASSUME NEW w \in Seq(FrameType)
    PROVE  [i \in DOMAIN w |-> w[i].size] \in Seq(Nat) /\ BytesIn(w) \in Nat
<1> DEFINE sizes == [i \in DOMAIN w |-> w[i].size]
<1>1. DOMAIN w = 1..Len(w) /\ Len(w) \in Nat /\ \A i \in 1..Len(w) : w[i].size \in Nat
  <2>1. \A i \in 1..Len(w) : w[i] \in FrameType
    BY ElementOfSeq
  <2> QED
    BY <2>1, LenProperties DEF FrameType
<1>2. DOMAIN sizes = 1..Len(w) /\ \A i \in DOMAIN sizes : sizes[i] \in Nat
  BY <1>1
<1>3. sizes \in [1..Len(w) -> Nat]
  BY <1>1
<1>4. sizes \in Seq(Nat)
  BY <1>1, <1>3, SeqDef
<1>5. IsFiniteSet(DOMAIN sizes)
  BY <1>1, <1>2, FS_Interval
<1>6. Total(sizes) \in Nat
  <2> HIDE DEF sizes
  <2> QED
    BY <1>2, <1>5, TotalType
<1> QED
  BY <1>4, <1>6 DEF BytesIn

LEMMA BytesEmpty == BytesIn(<<>>) = 0
<1>1. [i \in DOMAIN << >> |-> << >>[i].size] = << >>
  OBVIOUS
<1> QED
  BY <1>1, TotalEmpty DEF BytesIn

LEMMA BytesAppend ==
    ASSUME NEW w \in Seq(FrameType), NEW e \in FrameType
    PROVE  BytesIn(Append(w, e)) = BytesIn(w) + e.size
<1> DEFINE sizes == [i \in DOMAIN w |-> w[i].size]
           v == Append(w, e)
           more == [i \in DOMAIN v |-> v[i].size]
<1>1. sizes \in Seq(Nat) /\ e.size \in Nat
  BY BytesType DEF FrameType
<1>2. more = Append(sizes, e.size)
  <2>1. DOMAIN w = 1..Len(w) /\ Len(w) \in Nat
    BY LenProperties
  <2>2. /\ v \in Seq(FrameType) /\ Len(v) = Len(w) + 1
        /\ \A i \in 1..Len(w) : v[i] = w[i]
        /\ v[Len(w) + 1] = e
    BY AppendProperties
  <2>3. DOMAIN v = 1..(Len(w) + 1)
    BY <2>2, LenProperties
  <2>4. more \in Seq(Nat) /\ Len(more) = Len(w) + 1
    <3>1. more \in Seq(Nat)
      BY <2>2, BytesType
    <3>2. DOMAIN more = 1..(Len(w) + 1)
      BY <2>3
    <3> HIDE DEF more
    <3>3. DOMAIN more = 1..Len(more) /\ Len(more) \in Nat
      BY <3>1, LenProperties
    <3> QED
      BY <2>1, <3>1, <3>2, <3>3
  <2>5. Len(sizes) = Len(w)
    <3>1. DOMAIN sizes = 1..Len(w)
      BY <2>1
    <3> HIDE DEF sizes
    <3>2. DOMAIN sizes = 1..Len(sizes) /\ Len(sizes) \in Nat
      BY <1>1, LenProperties
    <3> QED
      BY <2>1, <3>1, <3>2
  <2>6. /\ Append(sizes, e.size) \in Seq(Nat)
        /\ Len(Append(sizes, e.size)) = Len(w) + 1
        /\ \A i \in 1..Len(w) : Append(sizes, e.size)[i] = sizes[i]
        /\ Append(sizes, e.size)[Len(w) + 1] = e.size
    <3> HIDE DEF sizes
    <3> QED
      BY <1>1, <2>5, AppendProperties
  <2>7. \A i \in 1..(Len(w) + 1) : more[i] = Append(sizes, e.size)[i]
    <3> TAKE i \in 1..(Len(w) + 1)
    <3>1. more[i] = v[i].size
      BY <2>3
    <3>2. CASE i = Len(w) + 1
      BY <2>2, <2>6, <3>1, <3>2
    <3>3. CASE i # Len(w) + 1
      <4>1. i \in 1..Len(w)
        BY <2>1, <3>3
      <4>2. sizes[i] = w[i].size
        BY <2>1, <4>1
      <4> HIDE DEF sizes, more, v
      <4> QED
        BY <2>2, <2>6, <3>1, <4>1, <4>2
    <3> QED
      BY <3>2, <3>3
  <2> HIDE DEF sizes, more
  <2> QED
    BY <2>4, <2>6, <2>7, SeqEqual
<1>3. Total(Append(sizes, e.size)) = Total(sizes) + e.size
  <2> HIDE DEF sizes
  <2> QED
    BY <1>1, TotalAppend
<1> QED
  BY <1>2, <1>3 DEF BytesIn

-----------------------------------------------------------------------------
(* The frames of a response *)

LEMMA FramesAppend ==
    ASSUME NEW w \in Seq(FrameType), NEW k \in FrameKinds, NEW size \in Nat
    PROVE  /\ Append(w, Frame(k, size)) \in Seq(FrameType)
           /\ Append(w, Frame(k, size)) # <<>>
           /\ DOMAIN Append(w, Frame(k, size)) = 1..(Len(w) + 1)
           /\ Len(Append(w, Frame(k, size))) = Len(w) + 1
           /\ Len(w) \in Nat /\ DOMAIN w = 1..Len(w)
           /\ \A i \in 1..Len(w) : Append(w, Frame(k, size))[i] = w[i]
           /\ Append(w, Frame(k, size))[Len(w) + 1].kind = k
           /\ BytesIn(Append(w, Frame(k, size))) = BytesIn(w) + size
           /\ w = <<>> <=> Len(w) = 0
<1>1. PICK e \in FrameType : e = Frame(k, size) /\ e.kind = k /\ e.size = size
  <2>1. [kind |-> k, size |-> size] \in FrameType
    BY DEF FrameType
  <2> QED
    BY <2>1 DEF Frame
<1>2. /\ Append(w, e) \in Seq(FrameType) /\ Append(w, e) # <<>>
      /\ Len(Append(w, e)) = Len(w) + 1
      /\ \A i \in 1..Len(w) : Append(w, e)[i] = w[i]
      /\ Append(w, e)[Len(w) + 1] = e
  BY AppendProperties
<1>3. DOMAIN Append(w, e) = 1..(Len(w) + 1) /\ Len(w) \in Nat /\ DOMAIN w = 1..Len(w)
  BY <1>2, LenProperties
<1>4. BytesIn(Append(w, e)) = BytesIn(w) + size
  BY <1>1, BytesAppend
<1>5. w = <<>> <=> Len(w) = 0
  BY EmptySeq
<1> QED
  BY <1>1, <1>2, <1>3, <1>4, <1>5

\* While the body is on its way, any frames are well framed.
LEMMA FramedBody ==
    ASSUME NEW s, NEW w \in Seq(FrameType), HeadersSent(w),
           s.endSent => BytesIn(w) = Total(s.given)
    PROVE  Framed(s, w)
<1>1. DOMAIN w = 1..Len(w) /\ Len(w) \in Nat
  BY LenProperties
<1> QED
  BY <1>1 DEF Framed, FramedAt, HeadersSent

LEMMA DataFramed ==
    ASSUME NEW w \in Seq(FrameType), HeadersSent(w), NEW size \in Nat
    PROVE  HeadersSent(Append(w, Frame("data", size)))
<1>1. PICK k \in FrameKinds : k = "data"
  BY DEF FrameKinds
<1>2. Len(w) # 0
  BY EmptySeq DEF HeadersSent
<1>3. HeadersSent(Append(w, Frame(k, size)))
  BY <1>1, <1>2, FramesAppend DEF HeadersSent
<1> QED
  BY <1>1, <1>3

LEMMA HeadersFramed == HeadersSent(Append(<<>>, Frame("headers", 0)))
<1>1. PICK k \in FrameKinds : k = "headers"
  BY DEF FrameKinds
<1>2. PICK w \in Seq(FrameType) : w = << >>
  BY EmptySeq
<1>3. PICK zero \in Nat : zero = 0
  OBVIOUS
<1>4. HeadersSent(Append(w, Frame(k, zero)))
  <2>1. /\ Append(w, Frame(k, zero)) # <<>>
        /\ Len(Append(w, Frame(k, zero))) = Len(w) + 1
        /\ Append(w, Frame(k, zero))[Len(w) + 1].kind = k
    BY FramesAppend
  <2>2. Len(w) = 0
    BY <1>2
  <2> QED
    BY <1>1, <2>1, <2>2 DEF HeadersSent
<1> QED
  BY <1>1, <1>2, <1>3, <1>4

\* The end: all headers, or trailers after the body.
LEMMA EndFramed ==
    ASSUME NEW s, NEW w \in Seq(FrameType), NEW k \in FrameKinds,
           \/ k = "end" /\ w = <<>>
           \/ k = "trailers" /\ HeadersSent(w),
           BytesIn(w) = Total(s.given)
    PROVE  Framed(s, Append(w, Frame(k, 0)))
<1> DEFINE v == Append(w, Frame(k, 0))
<1>1. /\ DOMAIN v = 1..(Len(w) + 1) /\ Len(w) \in Nat /\ DOMAIN w = 1..Len(w) /\ Len(v) = Len(w) + 1
      /\ \A i \in 1..Len(w) : v[i] = w[i]
      /\ v[Len(w) + 1].kind = k
      /\ w = <<>> <=> Len(w) = 0
  BY FramesAppend
<1>2. BytesIn(v) = Total(s.given)
  <2>1. BytesIn(v) = BytesIn(w) + 0
    BY FramesAppend
  <2>2. BytesIn(w) \in Nat
    BY BytesType
  <2> QED
    BY <2>1, <2>2
<1> HIDE DEF v
<1>3. \A i \in 1..Len(w) : v[i].kind \in {"headers", "data"} /\ (i = 1 => v[i].kind = "headers")
                                                             /\ (i > 1 => v[i].kind = "data")
  BY <1>1 DEF HeadersSent
<1>4. Framed(s, v)
  <2> SUFFICES ASSUME NEW i \in DOMAIN v PROVE FramedAt(s, v, i)
    BY DEF Framed
  <2>1. CASE i = Len(w) + 1
    BY <1>1, <1>2, <2>1 DEF HeadersSent, FramedAt
  <2>2. CASE i # Len(w) + 1
    <3>1. i \in 1..Len(w)
      BY <1>1, <2>2
    <3> QED
      BY <1>2, <1>3, <3>1 DEF FramedAt
  <2> QED
    BY <2>1, <2>2
<1> QED
  BY <1>4 DEF v

\* A reset, which may follow whatever was sent.
LEMMA ResetFramed ==
    ASSUME NEW s, NEW w \in Seq(FrameType), Framed(s, w), s.endSent => w # <<>>
    PROVE  Framed(s, Append(w, Frame("reset", 0)))
<1>1. PICK k \in FrameKinds : k = "reset"
  BY DEF FrameKinds
<1> DEFINE v == Append(w, Frame(k, 0))
<1>2. /\ DOMAIN v = 1..(Len(w) + 1) /\ Len(w) \in Nat /\ DOMAIN w = 1..Len(w) /\ Len(v) = Len(w) + 1
      /\ \A i \in 1..Len(w) : v[i] = w[i]
      /\ v[Len(w) + 1].kind = k
      /\ w = <<>> <=> Len(w) = 0
  BY FramesAppend
<1>3. BytesIn(v) = BytesIn(w)
  <2>1. BytesIn(v) = BytesIn(w) + 0
    BY FramesAppend
  <2>2. BytesIn(w) \in Nat
    BY BytesType
  <2> QED
    BY <2>1, <2>2
<1> HIDE DEF v
<1>4. ASSUME NEW i \in DOMAIN v
      PROVE  FramedAt(s, v, i)
  <2>1. CASE i = Len(w) + 1
    <3>1. s.endSent => BytesIn(w) = Total(s.given)
      BY <1>2 DEF Framed, FramedAt
    <3> QED
      BY <1>1, <1>2, <1>3, <2>1, <3>1 DEF FramedAt
  <2>2. CASE i # Len(w) + 1
    <3>1. i \in DOMAIN w /\ v[i] = w[i]
      BY <1>2, <2>2
    <3>2. FramedAt(s, w, i)
      BY <3>1 DEF Framed
    <3>3. w[i].kind \in {"end", "trailers"} => \A j \in (i + 1)..Len(v) : v[j].kind = "reset"
      <4> SUFFICES ASSUME w[i].kind \in {"end", "trailers"}, NEW j \in (i + 1)..Len(v)
                   PROVE  v[j].kind = "reset"
        OBVIOUS
      <4>1. CASE j = Len(w) + 1
        BY <1>1, <1>2, <4>1
      <4>2. CASE j # Len(w) + 1
        BY <1>2, <3>1, <3>2, <4>2 DEF FramedAt
      <4> QED
        BY <4>1, <4>2
    <3> QED
      BY <1>3, <3>1, <3>2, <3>3 DEF FramedAt
  <2> QED
    BY <2>1, <2>2
<1>5. Framed(s, v)
  BY <1>4 DEF Framed
<1> QED
  BY <1>1, <1>5 DEF v

-----------------------------------------------------------------------------
(* A stream that is open, or closed, as the invariant wants it *)

LEMMA OpenParts ==
    ASSUME NEW s, NEW f, NEW w, StreamInv(s, f, w), f.state = "open"
    PROVE  /\ s \in StreamType /\ f \in FramesType /\ w \in Seq(FrameType)
           /\ f.window <= f.granted /\ ~s.late /\ Framed(s, w) /\ s.held
           /\ Unanswered(s, f, w) \/ HeadersOnly(s, f, w) \/ WithBody(s, f, w) \/ Over(s, f, w)
           /\ BytesIn(w) + Total(s.pending) = Total(s.given)
           /\ s.cancelled => s.reset \/ "reset" \in f.queue
BY DEF StreamInv, Typed, OpenInv

LEMMA StaysOpen ==
    ASSUME NEW t, NEW g, NEW v, t \in StreamType, g \in FramesType, v \in Seq(FrameType),
           g.window <= g.granted, ~t.late, Framed(t, v), t.held, g.state = "open",
           Unanswered(t, g, v) \/ HeadersOnly(t, g, v) \/ WithBody(t, g, v) \/ Over(t, g, v),
           BytesIn(v) + Total(t.pending) = Total(t.given),
           t.cancelled => t.reset \/ "reset" \in g.queue
    PROVE  StreamInv(t, g, v)
BY DEF StreamInv, Typed, OpenInv

LEMMA StaysClosed ==
    ASSUME NEW t, NEW g, NEW v, t \in StreamType, g \in FramesType, v \in Seq(FrameType),
           g.window <= g.granted, ~t.late, Framed(t, v), ~t.held, g.state = "closed"
    PROVE  StreamInv(t, g, v)
BY DEF StreamInv, Typed

\* The framing depends on nothing else of the stream.
LEMMA FramedSame ==
    ASSUME NEW s, NEW t, NEW w, Framed(s, w), t.endSent = s.endSent, t.given = s.given
    PROVE  Framed(t, w)
BY DEF Framed, FramedAt

\* A stream with a body that has not ended is framed whatever the body is.
LEMMA FramedWithBody ==
    ASSUME NEW s, NEW f, NEW w \in Seq(FrameType), WithBody(s, f, w)
    PROVE  Framed(s, w)
<1>1. CASE "headers" \in f.queue
  <2>1. w = <<>> /\ DOMAIN w = {}
    BY <1>1 DEF WithBody
  <2> QED
    BY <2>1 DEF Framed
<1>2. CASE "headers" \notin f.queue
  <2>1. HeadersSent(w) /\ ~s.endSent
    BY <1>2 DEF WithBody
  <2> QED
    BY <2>1, FramedBody
<1> QED
  BY <1>1, <1>2

-----------------------------------------------------------------------------
(* What a step does to the stream and its frames *)

Opened(s, end, tooLarge) ==
    [s EXCEPT !.held = TRUE, !.headers = tooLarge, !.remoteEnd = end /\ ~tooLarge]
OpenedFrames(f, tooLarge) ==
    [f EXCEPT !.state = "open", !.queue = IF tooLarge THEN {"reset"} ELSE {}]

\* RecvHeaders().
LEMMA OpenedInv ==
    ASSUME NEW s, NEW f, NEW w, StreamInv(s, f, w), f.state = "idle",
           NEW end \in BOOLEAN, NEW tooLarge \in BOOLEAN
    PROVE  StreamInv(Opened(s, end, tooLarge), OpenedFrames(f, tooLarge), w)
<1> DEFINE t == Opened(s, end, tooLarge)
           g == OpenedFrames(f, tooLarge)
<1>1. s = NoStream /\ f = NoFrames /\ w = <<>> /\ w \in Seq(FrameType)
      /\ s \in StreamType /\ f \in FramesType /\ f.window <= f.granted /\ Framed(s, w)
  BY DEF StreamInv, Typed
<1>2. /\ t \in StreamType /\ t.held /\ ~t.late /\ ~t.answered /\ ~t.localEnd /\ ~t.endSent
      /\ ~t.trailers /\ ~t.deferred /\ t.pending = <<>> /\ t.given = <<>> /\ ~t.cancelled
  <2>1. /\ ~s.late /\ ~s.answered /\ ~s.localEnd /\ ~s.endSent /\ ~s.trailers /\ ~s.deferred
        /\ s.pending = <<>> /\ s.given = <<>> /\ ~s.cancelled
    BY <1>1 DEF NoStream
  <2>2. s \in StreamType /\ (end /\ ~tooLarge) \in BOOLEAN
    BY <1>1
  <2>3. /\ t \in StreamType /\ t.held /\ t.late = s.late /\ t.answered = s.answered
        /\ t.localEnd = s.localEnd /\ t.endSent = s.endSent /\ t.trailers = s.trailers
        /\ t.deferred = s.deferred /\ t.pending = s.pending /\ t.given = s.given
        /\ t.cancelled = s.cancelled
    BY <2>2 DEF Opened, StreamType
  <2> QED
    BY <2>1, <2>3
<1>3. /\ g \in FramesType /\ g.state = "open" /\ g.queue \subseteq {"reset"} /\ g.data = "none"
      /\ g.window <= g.granted
  <2>1. f.data = "none"
    BY <1>1 DEF NoFrames
  <2>2. f \in FramesType /\ f.window <= f.granted
    BY <1>1
  <2>3. (IF tooLarge THEN {"reset"} ELSE {}) \subseteq {"reset"}
    OBVIOUS
  <2>4. g \in FramesType
    BY <2>2, <2>3 DEF OpenedFrames, FramesType, QueueKinds
  <2>5. /\ g.state = "open" /\ g.queue = (IF tooLarge THEN {"reset"} ELSE {})
        /\ g.data = f.data /\ g.window = f.window /\ g.granted = f.granted
    BY <2>2 DEF OpenedFrames, FramesType
  <2> HIDE DEF g
  <2> QED
    BY <2>1, <2>2, <2>3, <2>4, <2>5
<1>4. Framed(t, w)
  <2>1. t.endSent = s.endSent /\ t.given = s.given
    BY <1>1 DEF Opened, StreamType
  <2> HIDE DEF t
  <2> QED
    BY <1>1, <2>1, FramedSame
<1> HIDE DEF t, g
<1>5. Unanswered(t, g, w)
  BY <1>1, <1>2, <1>3 DEF Unanswered
<1>6. BytesIn(w) + Total(t.pending) = Total(t.given)
  BY <1>1, <1>2, BytesEmpty, TotalEmpty
<1>7. StreamInv(t, g, w)
  BY <1>1, <1>2, <1>3, <1>4, <1>5, <1>6, StaysOpen
<1> QED
  BY <1>7 DEF t, g

HeadersGiven(s, end) == [s EXCEPT !.answered = TRUE, !.localEnd = end]
HeadersQueued(f, end) == [f EXCEPT !.queue = @ \cup {IF end THEN "end" ELSE "headers"}]

\* EncodeHeaders().
LEMMA HeadersGivenInv ==
    ASSUME NEW s, NEW f, NEW w, StreamInv(s, f, w), f.state = "open", ~s.answered,
           NEW end \in BOOLEAN
    PROVE  StreamInv(HeadersGiven(s, end), HeadersQueued(f, end), w)
<1> DEFINE t == HeadersGiven(s, end)
           g == HeadersQueued(f, end)
<1>1. /\ s \in StreamType /\ f \in FramesType /\ w \in Seq(FrameType)
      /\ f.window <= f.granted /\ ~s.late /\ Framed(s, w) /\ s.held
      /\ BytesIn(w) + Total(s.pending) = Total(s.given)
      /\ s.cancelled => s.reset \/ "reset" \in f.queue
  BY OpenParts
<1>2. Unanswered(s, f, w)
  BY OpenParts DEF HeadersOnly, WithBody, Over
<1>3. /\ t \in StreamType /\ t.answered /\ t.localEnd = end /\ t.held = s.held /\ t.late = s.late
      /\ t.endSent = s.endSent /\ t.trailers = s.trailers /\ t.deferred = s.deferred
      /\ t.pending = s.pending /\ t.given = s.given /\ t.cancelled = s.cancelled
      /\ t.reset = s.reset
  BY <1>1 DEF HeadersGiven, StreamType
<1>4. /\ g \in FramesType /\ g.state = f.state /\ g.data = f.data /\ g.window = f.window
      /\ g.granted = f.granted /\ g.queue = f.queue \cup {IF end THEN "end" ELSE "headers"}
  BY <1>1 DEF HeadersQueued, FramesType, QueueKinds
<1> HIDE DEF t, g
<1>5. Framed(t, w)
  BY <1>1, <1>3, FramedSame
<1>6. HeadersOnly(t, g, w) \/ WithBody(t, g, w)
  <2>1. CASE end
    BY <1>2, <1>3, <1>4, <2>1 DEF Unanswered, HeadersOnly
  <2>2. CASE ~end
    BY <1>2, <1>3, <1>4, <2>2 DEF Unanswered, WithBody
  <2> QED
    BY <2>1, <2>2
<1>7. t.cancelled => t.reset \/ "reset" \in g.queue
  BY <1>1, <1>3, <1>4
<1>8. /\ g.window <= g.granted /\ ~t.late /\ t.held /\ g.state = "open"
      /\ BytesIn(w) + Total(t.pending) = Total(t.given)
  BY <1>1, <1>3, <1>4
<1>9. StreamInv(t, g, w)
  BY <1>1, <1>3, <1>4, <1>5, <1>6, <1>7, <1>8, StaysOpen
<1> QED
  BY <1>9 DEF t, g

DataGiven(s, more, end) ==
    [s EXCEPT !.localEnd = end, !.pending = @ \o more, !.given = @ \o more, !.deferred = FALSE]
DataResumed(s, f) == [f EXCEPT !.data = IF s.deferred THEN "active" ELSE @]

\* EncodeData().
LEMMA DataGivenInv ==
    ASSUME NEW s, NEW f, NEW w, StreamInv(s, f, w), f.state = "open", s.answered, ~s.localEnd,
           NEW end \in BOOLEAN, NEW more \in Seq(Nat \ {0})
    PROVE  StreamInv(DataGiven(s, more, end), DataResumed(s, f), w)
<1> DEFINE t == DataGiven(s, more, end)
           g == DataResumed(s, f)
<1>1. /\ s \in StreamType /\ f \in FramesType /\ w \in Seq(FrameType)
      /\ f.window <= f.granted /\ ~s.late /\ s.held
      /\ BytesIn(w) + Total(s.pending) = Total(s.given)
      /\ s.cancelled => s.reset \/ "reset" \in f.queue
  BY OpenParts
<1>2. WithBody(s, f, w)
  BY OpenParts DEF Unanswered, HeadersOnly, Over
<1>3. s.pending \o more \in Seq(Nat \ {0}) /\ s.given \o more \in Seq(Nat \ {0})
  <2>1. s.pending \in Seq(Nat \ {0}) /\ s.given \in Seq(Nat \ {0})
    BY <1>1 DEF StreamType
  <2> QED
    BY <2>1, ConcatProperties
<1>4. /\ t \in StreamType /\ t.answered = s.answered /\ t.localEnd = end /\ t.held = s.held
      /\ t.late = s.late /\ t.endSent = s.endSent /\ t.trailers = s.trailers /\ ~t.deferred
      /\ t.pending = s.pending \o more /\ t.given = s.given \o more /\ t.cancelled = s.cancelled
      /\ t.reset = s.reset
  <2> DEFINE p == s.pending \o more  q == s.given \o more
  <2>1. t = [s EXCEPT !.localEnd = end, !.pending = p, !.given = q, !.deferred = FALSE]
    BY DEF DataGiven
  <2>2. p \in Seq(Nat \ {0}) /\ q \in Seq(Nat \ {0})
    BY <1>3
  <2> HIDE DEF p, q, t
  <2>3. /\ t \in StreamType /\ t.answered = s.answered /\ t.localEnd = end /\ t.held = s.held
        /\ t.late = s.late /\ t.endSent = s.endSent /\ t.trailers = s.trailers /\ ~t.deferred
        /\ t.pending = p /\ t.given = q /\ t.cancelled = s.cancelled /\ t.reset = s.reset
    BY <1>1, <2>1, <2>2 DEF StreamType
  <2> QED
    BY <2>3 DEF p, q
<1>5. /\ g \in FramesType /\ g.state = f.state /\ g.window = f.window /\ g.queue = f.queue
      /\ g.granted = f.granted /\ g.data = IF s.deferred THEN "active" ELSE f.data
  BY <1>1 DEF DataResumed, FramesType
<1>6. BytesIn(w) + Total(t.pending) = Total(t.given)
  <2>1. /\ s.pending \in Seq(Nat) /\ s.given \in Seq(Nat) /\ more \in Seq(Nat)
        /\ Total(s.pending) \in Nat /\ Total(s.given) \in Nat /\ Total(more) \in Nat
    <3>1. Typed(s, f, w)
      BY <1>1 DEF Typed
    <3>2. more \in Seq(Nat)
      BY SeqMonotonic, (Nat \ {0}) \subseteq Nat
    <3>3. Total(more) \in Nat
      BY TotalNothing
    <3> QED
      BY <3>1, <3>2, <3>3, Fields
  <2>2. Total(s.pending \o more) = Total(s.pending) + Total(more)
    BY <2>1, TotalConcat
  <2>3. Total(s.given \o more) = Total(s.given) + Total(more)
    BY <2>1, TotalConcat
  <2>4. BytesIn(w) \in Nat
    BY <1>1, BytesType
  <2> HIDE DEF t
  <2>5. Total(t.pending) = Total(s.pending) + Total(more)
        /\ Total(t.given) = Total(s.given) + Total(more)
    BY <1>4, <2>2, <2>3
  <2> QED
    BY <1>1, <2>1, <2>4, <2>5
<1> HIDE DEF t, g
<1>7. WithBody(t, g, w)
  BY <1>2, <1>4, <1>5 DEF WithBody
<1>8. Framed(t, w)
  BY <1>1, <1>7, FramedWithBody
<1>9. t.cancelled => t.reset \/ "reset" \in g.queue
  BY <1>1, <1>4, <1>5
<1>10. g.window <= g.granted /\ ~t.late /\ t.held /\ g.state = "open"
  BY <1>1, <1>4, <1>5
<1>11. StreamInv(t, g, w)
  BY <1>1, <1>4, <1>5, <1>6, <1>7, <1>8, <1>9, <1>10, StaysOpen
<1> QED
  BY <1>11 DEF t, g

TrailersGiven(s) == [s EXCEPT !.localEnd = TRUE, !.trailers = s.pending # <<>>]
TrailersQueued(s, f) ==
    [f EXCEPT !.queue = IF s.pending # <<>> THEN @ ELSE @ \cup {"trailers"}]

\* EncodeTrailers().
LEMMA TrailersGivenInv ==
    ASSUME NEW s, NEW f, NEW w, StreamInv(s, f, w), f.state = "open", s.answered, ~s.localEnd
    PROVE  StreamInv(TrailersGiven(s), TrailersQueued(s, f), w)
<1> DEFINE t == TrailersGiven(s)
           g == TrailersQueued(s, f)
<1>1. /\ s \in StreamType /\ f \in FramesType /\ w \in Seq(FrameType)
      /\ f.window <= f.granted /\ ~s.late /\ s.held
      /\ BytesIn(w) + Total(s.pending) = Total(s.given)
      /\ s.cancelled => s.reset \/ "reset" \in f.queue
  BY OpenParts
<1>2. WithBody(s, f, w)
  BY OpenParts DEF Unanswered, HeadersOnly, Over
<1>3. /\ t \in StreamType /\ t.answered = s.answered /\ t.localEnd /\ t.held = s.held
      /\ t.late = s.late /\ t.endSent = s.endSent /\ t.trailers = (s.pending # <<>>)
      /\ t.deferred = s.deferred /\ t.pending = s.pending /\ t.given = s.given
      /\ t.cancelled = s.cancelled /\ t.reset = s.reset
  BY <1>1 DEF TrailersGiven, StreamType
<1>4. /\ g \in FramesType /\ g.state = f.state /\ g.window = f.window /\ g.data = f.data
      /\ g.granted = f.granted
      /\ g.queue = IF s.pending # <<>> THEN f.queue ELSE f.queue \cup {"trailers"}
  BY <1>1 DEF TrailersQueued, FramesType, QueueKinds
<1> HIDE DEF t, g
<1>5. WithBody(t, g, w)
  <2>1. CASE s.pending # <<>>
    BY <1>2, <1>3, <1>4, <2>1 DEF WithBody
  <2>2. CASE s.pending = <<>>
    <3>1. g.queue = f.queue \cup {"trailers"} /\ ~t.trailers /\ t.pending = <<>>
      BY <1>3, <1>4, <2>2
    <3>2. /\ "end" \notin g.queue /\ "trailers" \in g.queue
          /\ "headers" \in g.queue <=> "headers" \in f.queue
          /\ {"headers", "trailers"} \cap g.queue # {}
      BY <1>2, <3>1 DEF WithBody
    <3> QED
      BY <1>2, <1>3, <1>4, <3>1, <3>2 DEF WithBody
  <2> QED
    BY <2>1, <2>2
<1>6. Framed(t, w)
  BY <1>1, <1>5, FramedWithBody
<1>7. t.cancelled => t.reset \/ "reset" \in g.queue
  BY <1>1, <1>3, <1>4
<1>8. /\ g.window <= g.granted /\ ~t.late /\ t.held /\ g.state = "open"
      /\ BytesIn(w) + Total(t.pending) = Total(t.given)
  BY <1>1, <1>3, <1>4
<1>9. StreamInv(t, g, w)
  BY <1>1, <1>3, <1>4, <1>5, <1>6, <1>7, <1>8, StaysOpen
<1> QED
  BY <1>9 DEF t, g

ResetPutOff(s) == s.localEnd /\ ~s.endSent
Cancelled(s) == [s EXCEPT !.cancelled = TRUE, !.reset = ResetPutOff(s)]
ResetQueued(f) == [f EXCEPT !.queue = @ \cup {"reset"}]

\* A reset may join the frames of any stream that is open.
LEMMA ResetQueuedInv ==
    ASSUME NEW s, NEW f, NEW w, StreamInv(s, f, w), f.state = "open"
    PROVE  StreamInv(s, ResetQueued(f), w)
<1> DEFINE g == ResetQueued(f)
<1>1. /\ s \in StreamType /\ f \in FramesType /\ w \in Seq(FrameType)
      /\ f.window <= f.granted /\ ~s.late /\ Framed(s, w) /\ s.held
      /\ BytesIn(w) + Total(s.pending) = Total(s.given)
      /\ Unanswered(s, f, w) \/ HeadersOnly(s, f, w) \/ WithBody(s, f, w) \/ Over(s, f, w)
  BY OpenParts
<1>2. /\ g \in FramesType /\ g.state = f.state /\ g.window = f.window /\ g.data = f.data
      /\ g.granted = f.granted /\ g.queue = f.queue \cup {"reset"}
  BY <1>1 DEF ResetQueued, FramesType, QueueKinds
<1> HIDE DEF g
<1>3. Unanswered(s, g, w) \/ HeadersOnly(s, g, w) \/ WithBody(s, g, w) \/ Over(s, g, w)
  <2>1. CASE Unanswered(s, f, w)
    BY <1>2, <2>1 DEF Unanswered
  <2>2. CASE HeadersOnly(s, f, w)
    BY <1>2, <2>2 DEF HeadersOnly
  <2>3. CASE WithBody(s, f, w)
    BY <1>2, <2>3 DEF WithBody
  <2>4. CASE Over(s, f, w)
    BY <1>2, <2>4 DEF Over
  <2> QED
    BY <1>1, <2>1, <2>2, <2>3, <2>4
<1>4. /\ g.window <= g.granted /\ g.state = "open"
      /\ s.cancelled => s.reset \/ "reset" \in g.queue
  BY <1>2, <1>1
<1>5. StreamInv(s, g, w)
  BY <1>1, <1>2, <1>3, <1>4, StaysOpen
<1> QED
  BY <1>5 DEF g

\* ResetStream().
LEMMA CancelledInv ==
    ASSUME NEW s, NEW f, NEW w, StreamInv(s, f, w), f.state = "open"
    PROVE  StreamInv(Cancelled(s), IF ResetPutOff(s) THEN f ELSE ResetQueued(f), w)
<1> DEFINE t == Cancelled(s)
           g == IF ResetPutOff(s) THEN f ELSE ResetQueued(f)
<1>1. StreamInv(s, g, w) /\ g.state = "open"
  <2>1. f \in FramesType
    BY OpenParts
  <2>2. ResetQueued(f).state = "open"
    BY <2>1 DEF ResetQueued, FramesType
  <2>3. StreamInv(s, ResetQueued(f), w)
    BY ResetQueuedInv
  <2> QED
    BY <2>2, <2>3
<1>2. ~ResetPutOff(s) => "reset" \in g.queue
  <2>1. f \in FramesType
    BY OpenParts
  <2> QED
    BY <2>1 DEF ResetQueued, FramesType
<1> HIDE DEF g
<1>3. /\ s \in StreamType /\ g \in FramesType /\ w \in Seq(FrameType)
      /\ g.window <= g.granted /\ ~s.late /\ Framed(s, w) /\ s.held
      /\ BytesIn(w) + Total(s.pending) = Total(s.given)
      /\ Unanswered(s, g, w) \/ HeadersOnly(s, g, w) \/ WithBody(s, g, w) \/ Over(s, g, w)
  BY <1>1, OpenParts
<1>4. /\ t \in StreamType /\ t.answered = s.answered /\ t.localEnd = s.localEnd
      /\ t.held = s.held /\ t.late = s.late /\ t.endSent = s.endSent
      /\ t.trailers = s.trailers /\ t.deferred = s.deferred /\ t.pending = s.pending
      /\ t.given = s.given /\ t.cancelled /\ t.reset = ResetPutOff(s)
  BY <1>3 DEF Cancelled, StreamType, ResetPutOff
<1> HIDE DEF t
<1>5. Framed(t, w)
  BY <1>3, <1>4, FramedSame
<1>6. Unanswered(t, g, w) \/ HeadersOnly(t, g, w) \/ WithBody(t, g, w) \/ Over(t, g, w)
  <2>1. CASE Unanswered(s, g, w)
    BY <1>4, <2>1 DEF Unanswered
  <2>2. CASE HeadersOnly(s, g, w)
    BY <1>4, <2>2 DEF HeadersOnly
  <2>3. CASE WithBody(s, g, w)
    BY <1>4, <2>3 DEF WithBody
  <2>4. CASE Over(s, g, w)
    BY <1>4, <2>4 DEF Over
  <2> QED
    BY <1>3, <2>1, <2>2, <2>3, <2>4
<1>7. /\ ~t.late /\ t.held /\ (t.reset \/ "reset" \in g.queue)
      /\ BytesIn(w) + Total(t.pending) = Total(t.given)
  BY <1>2, <1>3, <1>4
<1>8. StreamInv(t, g, w)
  BY <1>1, <1>3, <1>4, <1>5, <1>6, <1>7, StaysOpen
<1> QED
  BY <1>8 DEF t, g

EventTaken(s, end) ==
    [s EXCEPT !.remoteEnd = end, !.late = @ \/ (~s.reset /\ s.cancelled)]

\* Received(), as long as no reset has been submitted.
LEMMA EventTakenInv ==
    ASSUME NEW s, NEW f, NEW w, StreamInv(s, f, w), f.state = "open", "reset" \notin f.queue,
           NEW end \in BOOLEAN
    PROVE  StreamInv(EventTaken(s, end), f, w)
<1> DEFINE t == EventTaken(s, end)
<1>1. /\ s \in StreamType /\ f \in FramesType /\ w \in Seq(FrameType)
      /\ f.window <= f.granted /\ ~s.late /\ Framed(s, w) /\ s.held
      /\ BytesIn(w) + Total(s.pending) = Total(s.given)
      /\ s.cancelled => s.reset
      /\ Unanswered(s, f, w) \/ HeadersOnly(s, f, w) \/ WithBody(s, f, w) \/ Over(s, f, w)
  BY OpenParts
<1>2. /\ t \in StreamType /\ t.answered = s.answered /\ t.localEnd = s.localEnd
      /\ t.held = s.held /\ t.endSent = s.endSent
      /\ t.trailers = s.trailers /\ t.deferred = s.deferred /\ t.pending = s.pending
      /\ t.given = s.given /\ t.cancelled = s.cancelled /\ t.reset = s.reset
      /\ t.late <=> s.late \/ (~s.reset /\ s.cancelled)
  BY <1>1 DEF EventTaken, StreamType
<1> HIDE DEF t
<1>3. Framed(t, w)
  BY <1>1, <1>2, FramedSame
<1>4. Unanswered(t, f, w) \/ HeadersOnly(t, f, w) \/ WithBody(t, f, w) \/ Over(t, f, w)
  <2>1. CASE Unanswered(s, f, w)
    BY <1>2, <2>1 DEF Unanswered
  <2>2. CASE HeadersOnly(s, f, w)
    BY <1>2, <2>2 DEF HeadersOnly
  <2>3. CASE WithBody(s, f, w)
    BY <1>2, <2>3 DEF WithBody
  <2>4. CASE Over(s, f, w)
    BY <1>2, <2>4 DEF Over
  <2> QED
    BY <1>1, <2>1, <2>2, <2>3, <2>4
<1>5. /\ ~t.late /\ t.held /\ (t.cancelled => t.reset)
      /\ BytesIn(w) + Total(t.pending) = Total(t.given)
  BY <1>1, <1>2
<1>6. StreamInv(t, f, w)
  BY <1>1, <1>2, <1>3, <1>4, <1>5, StaysOpen
<1> QED
  BY <1>6 DEF t

Gone(s) == [s EXCEPT !.held = FALSE]
Dropped(f) == [f EXCEPT !.state = "closed", !.queue = {}, !.data = "none"]

\* A stream is closed, maybe after a frame that is framed well.
LEMMA GoneInv ==
    ASSUME NEW s, NEW f, NEW w, StreamInv(s, f, w), f.state = "open",
           NEW v \in Seq(FrameType), Framed(s, v)
    PROVE  StreamInv(Gone(s), Dropped(f), v)
<1> DEFINE t == Gone(s)
           g == Dropped(f)
<1>1. s \in StreamType /\ f \in FramesType /\ f.window <= f.granted /\ ~s.late
  BY OpenParts
<1>2. t \in StreamType /\ ~t.held /\ t.late = s.late /\ t.endSent = s.endSent /\ t.given = s.given
  BY <1>1 DEF Gone, StreamType
<1>3. /\ g \in FramesType /\ g.state = "closed" /\ g.window = f.window /\ g.granted = f.granted
  BY <1>1 DEF Dropped, FramesType, QueueKinds
<1> HIDE DEF t, g
<1>4. Framed(t, v)
  BY <1>2, FramedSame
<1>5. StreamInv(t, g, v)
  BY <1>1, <1>2, <1>3, <1>4, StaysClosed
<1> QED
  BY <1>5 DEF t, g

Granted(f, more) == [f EXCEPT !.window = @ + more, !.granted = @ + more]

\* RecvWindow().
LEMMA GrantedInv ==
    ASSUME NEW s, NEW f, NEW w, StreamInv(s, f, w), f.state = "open",
           NEW more \in Nat, f.granted + more <= MaxWindow
    PROVE  StreamInv(s, Granted(f, more), w)
<1> DEFINE g == Granted(f, more)
<1>1. /\ s \in StreamType /\ f \in FramesType /\ w \in Seq(FrameType)
      /\ f.window <= f.granted /\ ~s.late /\ Framed(s, w) /\ s.held
      /\ BytesIn(w) + Total(s.pending) = Total(s.given)
      /\ s.cancelled => s.reset \/ "reset" \in f.queue
      /\ Unanswered(s, f, w) \/ HeadersOnly(s, f, w) \/ WithBody(s, f, w) \/ Over(s, f, w)
  BY OpenParts
<1>2. /\ g \in FramesType /\ g.state = f.state /\ g.queue = f.queue /\ g.data = f.data
      /\ g.window <= g.granted
  <2>1. f.window \in Nat /\ f.granted \in Nat /\ MaxWindow \in Nat
    BY <1>1, Http2Assumption DEF FramesType
  <2> DEFINE a == f.window + more  b == f.granted + more
  <2>2. a \in 0..MaxWindow /\ b \in 0..MaxWindow /\ a <= b
    BY <1>1, <2>1
  <2>3. g = [f EXCEPT !.window = a, !.granted = b]
    BY DEF Granted
  <2> HIDE DEF a, b, g
  <2>4. /\ g \in FramesType /\ g.state = f.state /\ g.queue = f.queue /\ g.data = f.data
        /\ g.window = a /\ g.granted = b
    BY <1>1, <2>2, <2>3 DEF FramesType
  <2> QED
    BY <2>2, <2>4
<1> HIDE DEF g
<1>3. Unanswered(s, g, w) \/ HeadersOnly(s, g, w) \/ WithBody(s, g, w) \/ Over(s, g, w)
  <2>1. CASE Unanswered(s, f, w)
    BY <1>2, <2>1 DEF Unanswered
  <2>2. CASE HeadersOnly(s, f, w)
    BY <1>2, <2>2 DEF HeadersOnly
  <2>3. CASE WithBody(s, f, w)
    BY <1>2, <2>3 DEF WithBody
  <2>4. CASE Over(s, f, w)
    BY <1>2, <2>4 DEF Over
  <2> QED
    BY <1>1, <2>1, <2>2, <2>3, <2>4
<1>4. g.state = "open" /\ (s.cancelled => s.reset \/ "reset" \in g.queue)
  BY <1>1, <1>2
<1>5. StreamInv(s, g, w)
  BY <1>1, <1>2, <1>3, <1>4, StaysOpen
<1> QED
  BY <1>5 DEF g

-----------------------------------------------------------------------------
(* What sending a frame does to them *)

FrameSent(s, ends) == [s EXCEPT !.endSent = ends]
FrameTaken(f, kind) ==
    [f EXCEPT !.queue = @ \ {kind},
              !.data = IF kind # "headers" THEN "none" ELSE "active"]

\* The end of a response is framed well: all headers, or trailers after the body.
LEMMA EndingFramed ==
    ASSUME NEW s, NEW f, NEW w, StreamInv(s, f, w), f.state = "open",
           NEW k \in {"end", "trailers"}, k \in f.queue, "headers" \notin f.queue,
           "end" \notin f.queue \/ k = "end"
    PROVE  /\ k \in FrameKinds
           /\ HeadersOnly(s, f, w) \/ WithBody(s, f, w)
           /\ s.localEnd /\ ~s.trailers /\ s.pending = <<>> /\ s.answered
           /\ f.queue \ {k} \subseteq {"reset"}
           /\ BytesIn(w) = Total(s.given)
           /\ \A t : t.given = s.given => Framed(t, Append(w, Frame(k, 0)))
<1>1. /\ w \in Seq(FrameType) /\ Framed(s, w)
      /\ BytesIn(w) + Total(s.pending) = Total(s.given)
      /\ Unanswered(s, f, w) \/ HeadersOnly(s, f, w) \/ WithBody(s, f, w) \/ Over(s, f, w)
  BY OpenParts
<1>2. k \in FrameKinds
  BY DEF FrameKinds
<1>3. HeadersOnly(s, f, w) \/ WithBody(s, f, w)
  BY <1>1 DEF Unanswered, Over
<1>4. f.queue \subseteq QueueKinds /\ BytesIn(w) \in Nat /\ Total(s.given) \in Nat
  <2>1. Typed(s, f, w)
    BY DEF StreamInv
  <2>2. f.queue \subseteq QueueKinds /\ Total(s.given) \in Nat
    BY <2>1, Fields
  <2>3. BytesIn(w) \in Nat
    BY <1>1, BytesType
  <2> QED
    BY <2>2, <2>3
<1>5. /\ s.localEnd /\ ~s.trailers /\ s.pending = <<>> /\ s.answered
      /\ f.queue \ {k} \subseteq {"reset"}
      /\ (k = "end" /\ w = <<>>) \/ (k = "trailers" /\ HeadersSent(w))
  <2>1. CASE HeadersOnly(s, f, w)
    BY <2>1 DEF HeadersOnly
  <2>2. CASE WithBody(s, f, w)
    <3>1. "end" \notin f.queue /\ k = "trailers"
      BY <2>2 DEF WithBody
    <3>2. s.localEnd /\ ~s.trailers /\ s.pending = <<>> /\ s.answered /\ HeadersSent(w)
      BY <2>2, <3>1 DEF WithBody
    <3>3. f.queue \ {k} \subseteq {"reset"}
      BY <1>4, <3>1 DEF QueueKinds
    <3> QED
      BY <3>1, <3>2, <3>3
  <2> QED
    BY <1>3, <2>1, <2>2
<1>6. BytesIn(w) = Total(s.given)
  <2>1. Total(s.pending) = 0
    BY <1>5, TotalEmpty
  <2> QED
    BY <1>1, <1>4, <2>1
<1>7. ASSUME NEW t, t.given = s.given
      PROVE  Framed(t, Append(w, Frame(k, 0)))
  <2>1. BytesIn(w) = Total(t.given)
    BY <1>6, <1>7
  <2> QED
    BY <1>1, <1>2, <1>5, <2>1, EndFramed
<1> QED
  BY <1>2, <1>3, <1>5, <1>6, <1>7

\* SendHeaders() of the headers before a body.
LEMMA HeadersSentInv ==
    ASSUME NEW s, NEW f, NEW w, StreamInv(s, f, w), f.state = "open",
           "headers" \in f.queue
    PROVE  StreamInv(FrameSent(s, FALSE), FrameTaken(f, "headers"),
                     Append(w, Frame("headers", 0)))
<1> DEFINE t == FrameSent(s, FALSE)
           g == FrameTaken(f, "headers")
           v == Append(w, Frame("headers", 0))
<1>1. /\ s \in StreamType /\ f \in FramesType /\ w \in Seq(FrameType)
      /\ f.window <= f.granted /\ ~s.late /\ s.held
      /\ BytesIn(w) + Total(s.pending) = Total(s.given)
      /\ s.cancelled => s.reset \/ "reset" \in f.queue
  BY OpenParts
<1>2. WithBody(s, f, w) /\ w = <<>> /\ f.data = "none"
  BY OpenParts DEF Unanswered, HeadersOnly, Over, WithBody
<1>3. /\ t \in StreamType /\ t.answered = s.answered /\ t.localEnd = s.localEnd
      /\ t.held = s.held /\ t.late = s.late /\ ~t.endSent
      /\ t.trailers = s.trailers /\ t.deferred = s.deferred /\ t.pending = s.pending
      /\ t.given = s.given /\ t.cancelled = s.cancelled /\ t.reset = s.reset
  BY <1>1 DEF FrameSent, StreamType
<1>4. /\ g \in FramesType /\ g.state = f.state /\ g.window = f.window /\ g.granted = f.granted
      /\ g.queue = f.queue \ {"headers"} /\ g.data = "active"
  <2>1. g = [f EXCEPT !.queue = @ \ {"headers"}, !.data = "active"]
    BY DEF FrameTaken
  <2> HIDE DEF g
  <2> QED
    BY <1>1, <2>1 DEF FramesType, QueueKinds
<1>5. HeadersSent(v) /\ v \in Seq(FrameType) /\ BytesIn(v) = BytesIn(w)
  <2>1. HeadersSent(v)
    BY <1>2, HeadersFramed
  <2>2. PICK k \in FrameKinds : k = "headers"
    BY DEF FrameKinds
  <2>3. PICK zero \in Nat : zero = 0
    OBVIOUS
  <2>4. /\ Append(w, Frame(k, zero)) \in Seq(FrameType)
        /\ BytesIn(Append(w, Frame(k, zero))) = BytesIn(w) + zero
    BY <1>1, FramesAppend
  <2>5. BytesIn(w) \in Nat
    BY <1>1, BytesType
  <2> QED
    BY <2>1, <2>2, <2>3, <2>4, <2>5
<1> HIDE DEF t, g, v
<1>6. WithBody(t, g, v)
  <2>1. "headers" \notin g.queue /\ "end" \notin g.queue
        /\ ("trailers" \in g.queue <=> "trailers" \in f.queue)
    BY <1>2, <1>4 DEF WithBody
  <2>2. ~s.deferred
    BY <1>2 DEF WithBody
  <2> QED
    BY <1>2, <1>3, <1>4, <1>5, <2>1, <2>2 DEF WithBody
<1>7. Framed(t, v)
  BY <1>5, <1>6, FramedWithBody
<1>8. t.cancelled => t.reset \/ "reset" \in g.queue
  BY <1>1, <1>3, <1>4
<1>9. /\ g.window <= g.granted /\ ~t.late /\ t.held /\ g.state = "open"
      /\ BytesIn(v) + Total(t.pending) = Total(t.given)
  BY <1>1, <1>3, <1>4, <1>5
<1>10. StreamInv(t, g, v)
  BY <1>3, <1>4, <1>5, <1>6, <1>7, <1>8, <1>9, StaysOpen
<1> QED
  BY <1>10 DEF t, g, v

\* SendHeaders() of the end of a response.
LEMMA EndSentInv ==
    ASSUME NEW s, NEW f, NEW w, StreamInv(s, f, w), f.state = "open",
           NEW k \in {"end", "trailers"}, k \in f.queue, "headers" \notin f.queue,
           "end" \notin f.queue \/ k = "end"
    PROVE  StreamInv(FrameSent(s, TRUE), FrameTaken(f, k), Append(w, Frame(k, 0)))
<1> DEFINE t == FrameSent(s, TRUE)
           g == FrameTaken(f, k)
           v == Append(w, Frame(k, 0))
<1>1. /\ s \in StreamType /\ f \in FramesType /\ w \in Seq(FrameType)
      /\ f.window <= f.granted /\ ~s.late /\ s.held
      /\ s.cancelled => s.reset \/ "reset" \in f.queue
  BY OpenParts
<1>2. /\ k \in FrameKinds
      /\ s.localEnd /\ ~s.trailers /\ s.pending = <<>> /\ s.answered
      /\ f.queue \ {k} \subseteq {"reset"}
      /\ BytesIn(w) = Total(s.given)
      /\ \A x : x.given = s.given => Framed(x, v)
  BY EndingFramed
<1>3. /\ t \in StreamType /\ t.answered = s.answered /\ t.localEnd = s.localEnd
      /\ t.held = s.held /\ t.late = s.late /\ t.endSent
      /\ t.trailers = s.trailers /\ t.pending = s.pending
      /\ t.given = s.given /\ t.cancelled = s.cancelled /\ t.reset = s.reset
  BY <1>1 DEF FrameSent, StreamType
<1>4. /\ g \in FramesType /\ g.state = f.state /\ g.window = f.window /\ g.granted = f.granted
      /\ g.queue = f.queue \ {k} /\ g.data = "none"
  <2>1. g = [f EXCEPT !.queue = @ \ {k}, !.data = "none"]
    BY DEF FrameTaken
  <2> HIDE DEF g
  <2> QED
    BY <1>1, <2>1 DEF FramesType
<1>5. v \in Seq(FrameType) /\ BytesIn(v) = BytesIn(w) /\ v # <<>> /\ BytesIn(w) \in Nat
  <2>1. PICK zero \in Nat : zero = 0
    OBVIOUS
  <2>2. /\ Append(w, Frame(k, zero)) \in Seq(FrameType) /\ Append(w, Frame(k, zero)) # <<>>
        /\ BytesIn(Append(w, Frame(k, zero))) = BytesIn(w) + zero
    BY <1>1, <1>2, FramesAppend
  <2>3. BytesIn(w) \in Nat
    BY <1>1, BytesType
  <2> QED
    BY <2>1, <2>2, <2>3
<1>6. Framed(t, v)
  BY <1>2, <1>3
<1> HIDE DEF t, g, v
<1>7. Over(t, g, v)
  BY <1>2, <1>3, <1>4, <1>5 DEF Over
<1>8. t.cancelled => t.reset \/ "reset" \in g.queue
  BY <1>1, <1>3, <1>4
<1>9. /\ g.window <= g.granted /\ ~t.late /\ t.held /\ g.state = "open"
  BY <1>1, <1>3, <1>4
<1>10. BytesIn(v) + Total(t.pending) = Total(t.given)
  <2>1. Total(t.pending) = 0
    BY <1>2, <1>3, TotalEmpty
  <2> QED
    BY <1>2, <1>3, <1>5, <2>1
<1>11. StreamInv(t, g, v)
  BY <1>3, <1>4, <1>5, <1>6, <1>7, <1>8, <1>9, <1>10, StaysOpen
<1> QED
  BY <1>11 DEF t, g, v

\* The end of a response, or a reset, that closes the stream.
LEMMA EndClosesInv ==
    ASSUME NEW s, NEW f, NEW w, StreamInv(s, f, w), f.state = "open",
           NEW k \in {"end", "trailers"}, k \in f.queue, "headers" \notin f.queue,
           "end" \notin f.queue \/ k = "end"
    PROVE  StreamInv(Gone(s), Dropped(f), Append(w, Frame(k, 0)))
<1>1. k \in FrameKinds /\ Framed(s, Append(w, Frame(k, 0)))
  <2>1. /\ k \in FrameKinds
        /\ \A x : x.given = s.given => Framed(x, Append(w, Frame(k, 0)))
    BY EndingFramed
  <2> QED
    BY <2>1
<1>2. Append(w, Frame(k, 0)) \in Seq(FrameType)
  <2>1. w \in Seq(FrameType)
    BY OpenParts
  <2>2. PICK zero \in Nat : zero = 0
    OBVIOUS
  <2>3. Append(w, Frame(k, zero)) \in Seq(FrameType)
    BY <1>1, <2>1, FramesAppend
  <2> QED
    BY <2>2, <2>3
<1> QED
  BY <1>1, <1>2, GoneInv

LEMMA ResetClosesInv ==
    ASSUME NEW s, NEW f, NEW w, StreamInv(s, f, w), f.state = "open"
    PROVE  StreamInv(Gone(s), Dropped(f), Append(w, Frame("reset", 0)))
<1>1. w \in Seq(FrameType) /\ Framed(s, w)
  BY OpenParts
<1>2. s.endSent => w # <<>>
  BY OpenParts DEF Unanswered, HeadersOnly, WithBody, Over
<1>3. Framed(s, Append(w, Frame("reset", 0)))
  BY <1>1, <1>2, ResetFramed
<1>4. Append(w, Frame("reset", 0)) \in Seq(FrameType)
  <2>1. PICK k \in FrameKinds : k = "reset"
    BY DEF FrameKinds
  <2>2. PICK zero \in Nat : zero = 0
    OBVIOUS
  <2>3. Append(w, Frame(k, zero)) \in Seq(FrameType)
    BY <1>1, FramesAppend
  <2> QED
    BY <2>1, <2>2, <2>3
<1> QED
  BY <1>3, <1>4, GoneInv

-----------------------------------------------------------------------------
(* Data *)

\* What is left when a frame has taken whole pieces.
LEMMA RestOf ==
    ASSUME NEW p \in Seq(Nat \ {0}), NEW amount \in Nat, EndsBuffer(p, amount)
    PROVE  /\ Rest(p, amount) \in Seq(Nat \ {0})
           /\ Total(Rest(p, amount)) \in Nat
           /\ amount + Total(Rest(p, amount)) = Total(p)
           /\ Rest(p, amount) = <<>> <=> Total(Rest(p, amount)) = 0
<1> DEFINE i == CHOOSE j \in 0..Len(p) : Total(SubSeq(p, 1, j)) = amount
<1>1. i \in 0..Len(p) /\ Total(SubSeq(p, 1, i)) = amount
  BY DEF EndsBuffer
<1>2. Rest(p, amount) = SubSeq(p, i + 1, Len(p))
  BY DEF Rest
<1> HIDE DEF i
<1>3. Len(p) \in Nat
  BY LenProperties
<1>4. SubSeq(p, i + 1, Len(p)) \in Seq(Nat \ {0})
  <2>1. \A j \in (i + 1)..Len(p) : p[j] \in Nat \ {0}
    <3> TAKE j \in (i + 1)..Len(p)
    <3>1. j \in 1..Len(p)
      BY <1>1, <1>3
    <3> QED
      BY <3>1, ElementOfSeq
  <2> QED
    BY <1>1, <1>3, <2>1, SubSeqProperties
<1>5. p \in Seq(Nat)
  BY SeqMonotonic, (Nat \ {0}) \subseteq Nat
<1>6. Total(SubSeq(p, 1, i)) + Total(SubSeq(p, i + 1, Len(p))) = Total(p)
  BY <1>1, <1>5, TotalSplit
<1>7. /\ Total(SubSeq(p, i + 1, Len(p))) \in Nat
      /\ Total(SubSeq(p, i + 1, Len(p))) = 0 <=> SubSeq(p, i + 1, Len(p)) = <<>>
  BY <1>4, TotalNothing
<1> QED
  BY <1>1, <1>2, <1>4, <1>6, <1>7

\* The data source is read when nothing goes before it.
DataNext(f) ==
    /\ f.data = "active" /\ f.window > 0
    /\ \A k \in QueueKinds : k \notin f.queue

LEMMA DataNextBody ==
    ASSUME NEW s, NEW f, NEW w, StreamInv(s, f, w), f.state = "open", DataNext(f)
    PROVE  WithBody(s, f, w) /\ HeadersSent(w)
<1>1. Unanswered(s, f, w) \/ HeadersOnly(s, f, w) \/ WithBody(s, f, w) \/ Over(s, f, w)
  BY OpenParts
<1>2. f.data = "active" /\ "headers" \notin f.queue
  BY DEF DataNext, QueueKinds
<1>3. WithBody(s, f, w)
  BY <1>1, <1>2 DEF Unanswered, HeadersOnly, Over
<1> QED
  BY <1>2, <1>3 DEF WithBody

Deferred(s) == [s EXCEPT !.deferred = TRUE]
DataDeferred(f) == [f EXCEPT !.data = "deferred"]

\* PutOff().
LEMMA PutOffInv ==
    ASSUME NEW s, NEW f, NEW w, StreamInv(s, f, w), f.state = "open", DataNext(f),
           Total(s.pending) = 0, ~s.localEnd
    PROVE  StreamInv(Deferred(s), DataDeferred(f), w)
<1> DEFINE t == Deferred(s)
           g == DataDeferred(f)
<1>1. /\ s \in StreamType /\ f \in FramesType /\ w \in Seq(FrameType)
      /\ f.window <= f.granted /\ ~s.late /\ s.held
      /\ BytesIn(w) + Total(s.pending) = Total(s.given)
      /\ s.cancelled => s.reset \/ "reset" \in f.queue
  BY OpenParts
<1>2. WithBody(s, f, w)
  BY DataNextBody
<1>3. s.pending = <<>>
  <2>1. s.pending \in Seq(Nat \ {0})
    BY <1>1 DEF StreamType
  <2> QED
    BY <2>1, TotalNothing
<1>4. /\ t \in StreamType /\ t.answered = s.answered /\ t.localEnd = s.localEnd
      /\ t.held = s.held /\ t.late = s.late /\ t.endSent = s.endSent
      /\ t.trailers = s.trailers /\ t.deferred /\ t.pending = s.pending
      /\ t.given = s.given /\ t.cancelled = s.cancelled /\ t.reset = s.reset
  BY <1>1 DEF Deferred, StreamType
<1>5. /\ g \in FramesType /\ g.state = f.state /\ g.window = f.window /\ g.granted = f.granted
      /\ g.queue = f.queue /\ g.data = "deferred"
  BY <1>1 DEF DataDeferred, FramesType
<1> HIDE DEF t, g
<1>6. WithBody(t, g, w)
  <2>1. "headers" \notin f.queue
    BY DEF DataNext, QueueKinds
  <2> QED
    BY <1>2, <1>3, <1>4, <1>5, <2>1 DEF WithBody
<1>7. Framed(t, w)
  BY <1>1, <1>6, FramedWithBody
<1>8. t.cancelled => t.reset \/ "reset" \in g.queue
  BY <1>1, <1>4, <1>5
<1>9. /\ g.window <= g.granted /\ ~t.late /\ t.held /\ g.state = "open"
      /\ BytesIn(w) + Total(t.pending) = Total(t.given)
  BY <1>1, <1>4, <1>5
<1>10. StreamInv(t, g, w)
  BY <1>1, <1>4, <1>5, <1>6, <1>7, <1>8, <1>9, StaysOpen
<1> QED
  BY <1>10 DEF t, g

DataSent(s, amount, eof) ==
    [[s EXCEPT !.pending = Rest(@, amount), !.trailers = IF eof THEN FALSE ELSE @]
        EXCEPT !.endSent = eof /\ ~s.trailers]
DataTaken(s, f, amount, eof) ==
    [[f EXCEPT !.window = @ - amount, !.data = IF eof THEN "none" ELSE @,
               !.queue = IF eof /\ s.trailers THEN @ \cup {"trailers"} ELSE @]
        EXCEPT !.data = IF eof /\ ~s.trailers THEN "none" ELSE @]

\* A DATA frame takes all that is waiting, or what fits.
FitsFrame(s, f, amount, eof) ==
    /\ amount \in Nat /\ amount <= f.window /\ EndsBuffer(s.pending, amount)
    /\ eof \in BOOLEAN /\ (eof <=> s.localEnd /\ amount = Total(s.pending))

\* The frame itself.
LEMMA DataFrame ==
    ASSUME NEW s, NEW f, NEW w, StreamInv(s, f, w), f.state = "open", DataNext(f),
           NEW amount, NEW eof, FitsFrame(s, f, amount, eof)
    PROVE  /\ HeadersSent(Append(w, Frame("data", amount)))
           /\ Append(w, Frame("data", amount)) \in Seq(FrameType)
           /\ Append(w, Frame("data", amount)) # <<>>
           /\ BytesIn(Append(w, Frame("data", amount))) = BytesIn(w) + amount
           /\ BytesIn(w) \in Nat
<1>1. w \in Seq(FrameType) /\ HeadersSent(w) /\ amount \in Nat
  BY OpenParts, DataNextBody DEF FitsFrame
<1>2. PICK k \in FrameKinds : k = "data"
  BY DEF FrameKinds
<1>3. /\ Append(w, Frame(k, amount)) \in Seq(FrameType)
      /\ Append(w, Frame(k, amount)) # <<>>
      /\ BytesIn(Append(w, Frame(k, amount))) = BytesIn(w) + amount
  BY <1>1, FramesAppend
<1>4. HeadersSent(Append(w, Frame("data", amount)))
  BY <1>1, DataFramed
<1>5. BytesIn(w) \in Nat
  BY <1>1, BytesType
<1> QED
  BY <1>2, <1>3, <1>4, <1>5

\* SendData() that closes the stream.
LEMMA DataClosesInv ==
    ASSUME NEW s, NEW f, NEW w, StreamInv(s, f, w), f.state = "open", DataNext(f),
           NEW amount, NEW eof, FitsFrame(s, f, amount, eof)
    PROVE  StreamInv(Gone(s), Dropped(f), Append(w, Frame("data", amount)))
<1>1. ~s.endSent
  BY DataNextBody DEF WithBody
<1> DEFINE v == Append(w, Frame("data", amount))
<1>2. HeadersSent(v) /\ v \in Seq(FrameType)
  BY DataFrame
<1> HIDE DEF v
<1>3. Framed(s, v)
  BY <1>1, <1>2, FramedBody
<1>4. StreamInv(Gone(s), Dropped(f), v)
  BY <1>2, <1>3, GoneInv
<1> QED
  BY <1>4 DEF v

\* SendData() that does not.
LEMMA DataSentInv ==
    ASSUME NEW s, NEW f, NEW w, StreamInv(s, f, w), f.state = "open", DataNext(f),
           NEW amount, NEW eof, FitsFrame(s, f, amount, eof)
    PROVE  StreamInv(DataSent(s, amount, eof), DataTaken(s, f, amount, eof),
                     Append(w, Frame("data", amount)))
<1> DEFINE t == DataSent(s, amount, eof)
           g == DataTaken(s, f, amount, eof)
           v == Append(w, Frame("data", amount))
           rest == Rest(s.pending, amount)
<1>1. /\ s \in StreamType /\ f \in FramesType
      /\ f.window <= f.granted /\ ~s.late /\ s.held
      /\ BytesIn(w) + Total(s.pending) = Total(s.given)
      /\ s.cancelled => s.reset \/ "reset" \in f.queue
  BY OpenParts
<1>2. WithBody(s, f, w)
  BY DataNextBody
<1>3. /\ HeadersSent(v) /\ v \in Seq(FrameType) /\ v # <<>>
      /\ BytesIn(v) = BytesIn(w) + amount /\ BytesIn(w) \in Nat
  BY DataFrame
<1>4. /\ amount \in Nat /\ amount <= f.window /\ eof \in BOOLEAN
      /\ eof <=> s.localEnd /\ amount = Total(s.pending)
  BY DEF FitsFrame
<1>5. /\ rest \in Seq(Nat \ {0}) /\ Total(rest) \in Nat
      /\ amount + Total(rest) = Total(s.pending)
      /\ rest = <<>> <=> Total(rest) = 0
  <2>1. s.pending \in Seq(Nat \ {0}) /\ EndsBuffer(s.pending, amount)
    BY <1>1 DEF StreamType, FitsFrame
  <2> QED
    BY <1>4, <2>1, RestOf
<1>6. /\ t \in StreamType /\ t.answered = s.answered /\ t.localEnd = s.localEnd
      /\ t.held = s.held /\ t.late = s.late /\ t.endSent = (eof /\ ~s.trailers)
      /\ t.trailers = (~eof /\ s.trailers) /\ t.deferred = s.deferred
      /\ t.pending = rest /\ t.given = s.given
      /\ t.cancelled = s.cancelled /\ t.reset = s.reset
  <2> DEFINE x == eof /\ ~s.trailers  y == IF eof THEN FALSE ELSE s.trailers
  <2> DEFINE u == [s EXCEPT !.pending = rest, !.trailers = y]
  <2>1. t = [u EXCEPT !.endSent = x]
    BY DEF DataSent
  <2>2. x \in BOOLEAN /\ y \in BOOLEAN /\ y = (~eof /\ s.trailers)
    BY <1>1, <1>4 DEF StreamType
  <2> HIDE DEF x, y, rest, t
  <2>3. /\ u \in StreamType /\ u.answered = s.answered /\ u.localEnd = s.localEnd
        /\ u.held = s.held /\ u.late = s.late
        /\ u.trailers = y /\ u.deferred = s.deferred /\ u.pending = rest /\ u.given = s.given
        /\ u.cancelled = s.cancelled /\ u.reset = s.reset
    BY <1>1, <1>5, <2>2 DEF StreamType
  <2> HIDE DEF u
  <2>4. /\ t \in StreamType /\ t.answered = u.answered /\ t.localEnd = u.localEnd
        /\ t.held = u.held /\ t.late = u.late /\ t.endSent = x
        /\ t.trailers = u.trailers /\ t.deferred = u.deferred /\ t.pending = u.pending
        /\ t.given = u.given /\ t.cancelled = u.cancelled /\ t.reset = u.reset
    BY <2>1, <2>2, <2>3 DEF StreamType
  <2> QED
    BY <2>2, <2>3, <2>4 DEF x
<1>7. /\ g \in FramesType /\ g.state = f.state /\ g.window <= g.granted
      /\ g.data = IF eof THEN "none" ELSE "active"
      /\ g.queue = IF eof /\ s.trailers THEN {"trailers"} ELSE {}
  <2>1. f.window \in Nat /\ f.granted \in Nat /\ f.window \in 0..MaxWindow /\ MaxWindow \in Nat
    BY <1>1, Http2Assumption DEF FramesType
  <2> DEFINE a == f.window - amount
             d == IF eof THEN "none" ELSE f.data
             e == IF eof /\ ~s.trailers THEN "none" ELSE d
             q == IF eof /\ s.trailers THEN f.queue \cup {"trailers"} ELSE f.queue
  <2>2. a \in 0..MaxWindow /\ a <= f.granted
    BY <1>1, <1>4, <2>1
  <2>3. f.queue = {} /\ f.data = "active"
    <3>1. f.queue \subseteq QueueKinds
      BY <1>1 DEF FramesType
    <3> QED
      BY <3>1 DEF DataNext
  <2>4. q = (IF eof /\ s.trailers THEN {"trailers"} ELSE {}) /\ q \subseteq QueueKinds
    <3>1. CASE eof /\ s.trailers
      BY <2>3, <3>1 DEF QueueKinds
    <3>2. CASE ~(eof /\ s.trailers)
      BY <2>3, <3>2
    <3> QED
      BY <3>1, <3>2
  <2>5. d \in {"none", "active"} /\ e = d /\ d = IF eof THEN "none" ELSE "active"
    BY <2>3
  <2>6. g = [[f EXCEPT !.window = a, !.data = d, !.queue = q] EXCEPT !.data = e]
    <3>1. f.data \in {"none", "active"}
      BY <2>3
    <3>2. [f EXCEPT !.window = a, !.data = d, !.queue = q].data = d
      BY <1>1 DEF FramesType
    <3> QED
      BY <3>2 DEF DataTaken
  <2> HIDE DEF a, d, q, e, g
  <2>7. /\ g \in FramesType /\ g.state = f.state /\ g.window = a /\ g.granted = f.granted
        /\ g.data = e /\ g.queue = q
    BY <1>1, <2>2, <2>4, <2>5, <2>6 DEF FramesType
  <2> QED
    BY <2>2, <2>4, <2>5, <2>7
<1> HIDE DEF t, g, v, rest
<1>8. BytesIn(v) + Total(t.pending) = Total(t.given)
  <2>1. Total(t.pending) = Total(rest) /\ Total(t.given) = Total(s.given)
    BY <1>6
  <2> QED
    BY <1>1, <1>3, <1>4, <1>5, <2>1
<1>9. eof => rest = <<>>
  BY <1>4, <1>5
<1>10. s.localEnd /\ ~eof => rest # <<>>
  BY <1>4, <1>5
<1>11. (WithBody(t, g, v) \/ Over(t, g, v)) /\ Framed(t, v)
  <2>1. CASE eof /\ ~s.trailers
    <3>1. Over(t, g, v)
      BY <1>2, <1>3, <1>4, <1>6, <1>7, <1>9, <2>1 DEF WithBody, Over
    <3>2. BytesIn(v) = Total(t.given)
      <4>1. Total(rest) = 0 /\ t.pending = rest
        BY <1>5, <1>6, <1>9, <2>1
      <4> QED
        BY <1>3, <1>4, <1>8, <4>1
    <3>3. Framed(t, v)
      BY <1>3, <3>2, FramedBody
    <3> QED
      BY <3>1, <3>3
  <2>2. CASE ~(eof /\ ~s.trailers)
    <3>1. WithBody(t, g, v)
      <4>1. CASE eof
        <5>1. g.queue = {"trailers"} /\ g.data = "none" /\ ~t.trailers /\ t.pending = <<>>
          BY <1>6, <1>7, <1>9, <2>2, <4>1
        <5>2. t.answered /\ ~t.endSent /\ t.localEnd /\ ~t.deferred
          <6>1. s.answered /\ ~s.deferred
            BY <1>2 DEF WithBody, DataNext
          <6> QED
            BY <1>4, <1>6, <2>2, <4>1, <6>1
        <5> QED
          BY <1>3, <5>1, <5>2 DEF WithBody
      <4>2. CASE ~eof
        <5>1. g.queue = {} /\ g.data = "active"
          BY <1>7, <4>2
        <5>2. t.answered /\ ~t.endSent /\ ~t.deferred /\ (t.trailers => t.localEnd /\ t.pending # <<>>)
          <6>1. s.answered /\ ~s.deferred /\ (s.trailers => s.localEnd)
            BY <1>2 DEF WithBody, DataNext
          <6> QED
            BY <1>4, <1>6, <1>10, <4>2, <6>1
        <5> QED
          BY <1>3, <5>1, <5>2 DEF WithBody
      <4> QED
        BY <1>4, <4>1, <4>2
    <3>2. Framed(t, v)
      BY <1>3, <3>1, FramedWithBody
    <3> QED
      BY <3>1, <3>2
  <2> QED
    BY <2>1, <2>2
<1>12. ~t.late /\ t.held /\ g.state = "open" /\ (t.cancelled => t.reset \/ "reset" \in g.queue)
  <2>1. s.cancelled => s.reset
    BY <1>1 DEF DataNext, QueueKinds
  <2> QED
    BY <1>1, <1>6, <1>7, <2>1
<1>13. StreamInv(t, g, v)
  BY <1>3, <1>6, <1>7, <1>8, <1>11, <1>12, StaysOpen
<1> QED
  BY <1>13 DEF t, g, v

-----------------------------------------------------------------------------
(* One stream at a time *)

\* A step that changes one stream.
LEMMA OneStream ==
    ASSUME StreamsInv, ResetsPending, NEW n \in Streams,
           DOMAIN str' = Streams, DOMAIN lib' = Streams, DOMAIN wire' = Streams,
           \A m \in Streams \ {n} : str'[m] = str[m] /\ lib'[m] = lib[m] /\ wire'[m] = wire[m],
           StreamInv(str'[n], lib'[n], wire'[n]),
           str'[n].held /\ str'[n].reset /\ "reset" \notin lib'[n].queue => resetPending',
           resetPending => resetPending'
    PROVE  StreamsInv' /\ ResetsPending'
<1>1. \A m \in Streams : StreamInv(str'[m], lib'[m], wire'[m])
  <2> TAKE m \in Streams
  <2>1. CASE m = n
    BY <2>1
  <2>2. CASE m # n
    <3>1. StreamInv(str[m], lib[m], wire[m])
      BY DEF StreamsInv
    <3> QED
      BY <2>2, <3>1
  <2> QED
    BY <2>1, <2>2
<1>2. \A m \in Streams : str'[m].held /\ str'[m].reset /\ "reset" \notin lib'[m].queue => resetPending'
  <2> TAKE m \in Streams
  <2>1. CASE m = n
    BY <2>1
  <2>2. CASE m # n
    BY <2>2 DEF ResetsPending
  <2> QED
    BY <2>1, <2>2
<1> QED
  BY <1>1, <1>2 DEF StreamsInv, ResetsPending

\* A step that changes no stream.
LEMMA NoChange ==
    ASSUME StreamsInv, ResetsPending, UNCHANGED <<str, lib, wire>>, resetPending => resetPending'
    PROVE  StreamsInv' /\ ResetsPending'
BY DEF StreamsInv, ResetsPending

\* A call of the user sends what is waiting, unless it cannot.
LEMMA AfterCall ==
    ASSUME PhaseInv, phase \in {"rest", "recv", "failed"}, SendPending,
           UNCHANGED <<dispatching, closedConn>>, resetPending' \in BOOLEAN
    PROVE  PhaseInv' /\ NothingStalls'
<1>1. PhaseInv'
  BY DEF PhaseInv, SendPending
<1>2. ~(phase' = "rest" /\ ~closedConn')
  BY DEF PhaseInv, SendPending
<1> QED
  BY <1>1, <1>2 DEF NothingStalls

\* The streams a user may call.
LEMMA Callable ==
    ASSUME StreamsInv, NEW n \in Streams, MayCall(n)
    PROVE  /\ DOMAIN str = Streams /\ DOMAIN lib = Streams /\ DOMAIN wire = Streams
           /\ StreamInv(str[n], lib[n], wire[n])
           /\ str[n] \in StreamType /\ lib[n] \in FramesType /\ wire[n] \in Seq(FrameType)
           /\ lib[n].state = "open" /\ str[n].held /\ ~str[n].cancelled
           /\ phase \in {"rest", "recv", "failed"}
<1>1. StreamInv(str[n], lib[n], wire[n])
  BY DEF StreamsInv
<1> QED
  BY <1>1 DEF StreamsInv, StreamInv, Typed, MayCall

LEMMA EncodeHeadersStep ==
    ASSUME Http2Inv, NEW n \in Streams, NEW end \in BOOLEAN, EncodeHeaders(n, end)
    PROVE  Http2Inv'
<1>1. /\ MayCall(n) /\ ~str[n].answered
      /\ str' = [str EXCEPT ![n].answered = TRUE, ![n].localEnd = end]
      /\ lib' = [lib EXCEPT ![n].queue = @ \cup {IF end THEN "end" ELSE "headers"}]
      /\ SendPending /\ UNCHANGED <<dispatching, resetPending, closedConn, wire>>
  BY DEF EncodeHeaders
<1>2. StreamsInv /\ PhaseInv /\ ResetsPending
  BY DEF Http2Inv
<1>3. /\ DOMAIN str = Streams /\ DOMAIN lib = Streams /\ DOMAIN wire = Streams
      /\ StreamInv(str[n], lib[n], wire[n])
      /\ str[n] \in StreamType /\ lib[n] \in FramesType /\ wire[n] \in Seq(FrameType)
      /\ lib[n].state = "open" /\ str[n].held /\ ~str[n].cancelled
      /\ phase \in {"rest", "recv", "failed"}
  BY <1>1, <1>2, Callable
<1>4. str'[n] = HeadersGiven(str[n], end) /\ lib'[n] = HeadersQueued(lib[n], end)
  BY <1>1, <1>3 DEF HeadersGiven, HeadersQueued
<1>5. /\ DOMAIN str' = Streams /\ DOMAIN lib' = Streams
      /\ \A m \in Streams \ {n} : str'[m] = str[m] /\ lib'[m] = lib[m]
  BY <1>1, <1>3
<1>6. StreamInv(str'[n], lib'[n], wire'[n])
  <2>1. StreamInv(HeadersGiven(str[n], end), HeadersQueued(lib[n], end), wire[n])
    <3>1. StreamInv(str[n], lib[n], wire[n]) /\ lib[n].state = "open" /\ ~str[n].answered
      BY <1>1, <1>3
    <3> QED
      BY <3>1, HeadersGivenInv
  <2>2. wire'[n] = wire[n]
    BY <1>1
  <2> QED
    BY <1>4, <2>1, <2>2
<1>7. str'[n].reset = str[n].reset /\ (str[n].reset => resetPending \/ "reset" \in lib'[n].queue)
  <2>1. str'[n].reset = str[n].reset
    BY <1>3, <1>4 DEF HeadersGiven, StreamType
  <2>2. "reset" \in lib[n].queue => "reset" \in lib'[n].queue
    BY <1>3, <1>4 DEF HeadersQueued, FramesType
  <2> QED
    BY <1>2, <1>3, <2>1, <2>2 DEF ResetsPending
<1>8. StreamsInv' /\ ResetsPending'
  BY <1>1, <1>2, <1>3, <1>5, <1>6, <1>7, OneStream
<1>9. PhaseInv' /\ NothingStalls'
  <2>1. resetPending' \in BOOLEAN
    BY <1>1, <1>2 DEF PhaseInv
  <2> QED
    BY <1>1, <1>2, <1>3, <2>1, AfterCall
<1> QED
  BY <1>8, <1>9 DEF Http2Inv

LEMMA EncodeDataStep ==
    ASSUME Http2Inv, NEW n \in Streams, NEW size \in Sizes \cup {0}, NEW end \in BOOLEAN,
           EncodeData(n, size, end)
    PROVE  Http2Inv'
<1> DEFINE more == IF size > 0 THEN <<size>> ELSE <<>>
<1>1. /\ MayCall(n) /\ str[n].answered /\ ~str[n].localEnd
      /\ str' = [str EXCEPT ![n].localEnd = end, ![n].pending = @ \o more,
                            ![n].given = @ \o more, ![n].deferred = FALSE]
      /\ lib' = [lib EXCEPT ![n].data = IF str[n].deferred THEN "active" ELSE @]
      /\ SendPending /\ UNCHANGED <<dispatching, resetPending, closedConn, wire>>
  BY DEF EncodeData
<1>2. StreamsInv /\ PhaseInv /\ ResetsPending
  BY DEF Http2Inv
<1>3. /\ DOMAIN str = Streams /\ DOMAIN lib = Streams /\ DOMAIN wire = Streams
      /\ StreamInv(str[n], lib[n], wire[n])
      /\ str[n] \in StreamType /\ lib[n] \in FramesType /\ wire[n] \in Seq(FrameType)
      /\ lib[n].state = "open" /\ str[n].held /\ ~str[n].cancelled
      /\ phase \in {"rest", "recv", "failed"}
  BY <1>1, <1>2, Callable
<1>4. more \in Seq(Nat \ {0})
  <2>1. size \in Nat
    BY Http2Assumption
  <2>2. CASE size > 0
    <3>1. PICK y \in Nat \ {0} : y = size /\ more = <<y>>
      BY <2>1, <2>2
    <3>2. <<y>> \in Seq(Nat \ {0})
      OBVIOUS
    <3> HIDE DEF more
    <3> QED
      BY <3>1, <3>2
  <2>3. CASE ~(size > 0)
    <3>1. more = <<>>
      BY <2>3
    <3> HIDE DEF more
    <3> QED
      BY <3>1, EmptySeq
  <2> QED
    BY <2>2, <2>3
<1> HIDE DEF more
<1>5. str'[n] = DataGiven(str[n], more, end) /\ lib'[n] = DataResumed(str[n], lib[n])
  BY <1>1, <1>3 DEF DataGiven, DataResumed
<1>6. /\ DOMAIN str' = Streams /\ DOMAIN lib' = Streams
      /\ \A m \in Streams \ {n} : str'[m] = str[m] /\ lib'[m] = lib[m]
  BY <1>1, <1>3
<1>7. StreamInv(str'[n], lib'[n], wire'[n])
  <2>1. StreamInv(DataGiven(str[n], more, end), DataResumed(str[n], lib[n]), wire[n])
    <3>1. /\ StreamInv(str[n], lib[n], wire[n]) /\ lib[n].state = "open"
          /\ str[n].answered /\ ~str[n].localEnd
      BY <1>1, <1>3
    <3> QED
      BY <1>4, <3>1, DataGivenInv
  <2>2. wire'[n] = wire[n]
    BY <1>1
  <2> QED
    BY <1>5, <2>1, <2>2
<1>8. str'[n].reset = str[n].reset /\ (str[n].reset => resetPending \/ "reset" \in lib'[n].queue)
  <2>1. str'[n].reset = str[n].reset
    BY <1>3, <1>5 DEF DataGiven, StreamType
  <2>2. lib[n].queue = lib'[n].queue
    BY <1>3, <1>5 DEF DataResumed, FramesType
  <2> QED
    BY <1>2, <1>3, <2>1, <2>2 DEF ResetsPending
<1>9. StreamsInv' /\ ResetsPending'
  BY <1>1, <1>2, <1>3, <1>6, <1>7, <1>8, OneStream
<1>10. PhaseInv' /\ NothingStalls'
  <2>1. resetPending' \in BOOLEAN
    BY <1>1, <1>2 DEF PhaseInv
  <2> QED
    BY <1>1, <1>2, <1>3, <2>1, AfterCall
<1> QED
  BY <1>9, <1>10 DEF Http2Inv

LEMMA EncodeTrailersStep ==
    ASSUME Http2Inv, NEW n \in Streams, EncodeTrailers(n)
    PROVE  Http2Inv'
<1>1. /\ MayCall(n) /\ str[n].answered /\ ~str[n].localEnd
      /\ str' = [str EXCEPT ![n].localEnd = TRUE, ![n].trailers = str[n].pending # <<>>]
      /\ lib' = [lib EXCEPT ![n].queue = IF str[n].pending # <<>> THEN @ ELSE @ \cup {"trailers"}]
      /\ SendPending /\ UNCHANGED <<dispatching, resetPending, closedConn, wire>>
  BY DEF EncodeTrailers
<1>2. StreamsInv /\ PhaseInv /\ ResetsPending
  BY DEF Http2Inv
<1>3. /\ DOMAIN str = Streams /\ DOMAIN lib = Streams /\ DOMAIN wire = Streams
      /\ StreamInv(str[n], lib[n], wire[n])
      /\ str[n] \in StreamType /\ lib[n] \in FramesType /\ wire[n] \in Seq(FrameType)
      /\ lib[n].state = "open" /\ str[n].held /\ ~str[n].cancelled
      /\ phase \in {"rest", "recv", "failed"}
  BY <1>1, <1>2, Callable
<1>4. str'[n] = TrailersGiven(str[n]) /\ lib'[n] = TrailersQueued(str[n], lib[n])
  BY <1>1, <1>3 DEF TrailersGiven, TrailersQueued
<1>5. /\ DOMAIN str' = Streams /\ DOMAIN lib' = Streams
      /\ \A m \in Streams \ {n} : str'[m] = str[m] /\ lib'[m] = lib[m]
  BY <1>1, <1>3
<1>6. StreamInv(str'[n], lib'[n], wire'[n])
  <2>1. StreamInv(TrailersGiven(str[n]), TrailersQueued(str[n], lib[n]), wire[n])
    <3>1. /\ StreamInv(str[n], lib[n], wire[n]) /\ lib[n].state = "open"
          /\ str[n].answered /\ ~str[n].localEnd
      BY <1>1, <1>3
    <3> QED
      BY <3>1, TrailersGivenInv
  <2>2. wire'[n] = wire[n]
    BY <1>1
  <2> QED
    BY <1>4, <2>1, <2>2
<1>7. str'[n].reset = str[n].reset /\ (str[n].reset => resetPending \/ "reset" \in lib'[n].queue)
  <2>1. str'[n].reset = str[n].reset
    BY <1>3, <1>4 DEF TrailersGiven, StreamType
  <2>2. "reset" \in lib[n].queue => "reset" \in lib'[n].queue
    BY <1>3, <1>4 DEF TrailersQueued, FramesType
  <2> QED
    BY <1>2, <1>3, <2>1, <2>2 DEF ResetsPending
<1>8. StreamsInv' /\ ResetsPending'
  BY <1>1, <1>2, <1>3, <1>5, <1>6, <1>7, OneStream
<1>9. PhaseInv' /\ NothingStalls'
  <2>1. resetPending' \in BOOLEAN
    BY <1>1, <1>2 DEF PhaseInv
  <2> QED
    BY <1>1, <1>2, <1>3, <2>1, AfterCall
<1> QED
  BY <1>8, <1>9 DEF Http2Inv

LEMMA ResetStreamStep ==
    ASSUME Http2Inv, NEW n \in Streams, ResetStream(n)
    PROVE  Http2Inv'
<1>1. /\ MayCall(n)
      /\ str' = [str EXCEPT ![n].cancelled = TRUE, ![n].reset = ResetPutOff(str[n])]
      /\ resetPending' = (resetPending \/ ResetPutOff(str[n]))
      /\ lib' = [lib EXCEPT ![n].queue = IF ResetPutOff(str[n]) THEN @ ELSE @ \cup {"reset"}]
      /\ SendPending /\ UNCHANGED <<dispatching, closedConn, wire>>
  BY DEF ResetStream, ResetPutOff
<1>2. StreamsInv /\ PhaseInv /\ ResetsPending
  BY DEF Http2Inv
<1>3. /\ DOMAIN str = Streams /\ DOMAIN lib = Streams /\ DOMAIN wire = Streams
      /\ StreamInv(str[n], lib[n], wire[n])
      /\ str[n] \in StreamType /\ lib[n] \in FramesType /\ wire[n] \in Seq(FrameType)
      /\ lib[n].state = "open" /\ str[n].held /\ ~str[n].cancelled
      /\ phase \in {"rest", "recv", "failed"}
  BY <1>1, <1>2, Callable
<1>4. /\ str'[n] = Cancelled(str[n])
      /\ lib'[n] = IF ResetPutOff(str[n]) THEN lib[n] ELSE ResetQueued(lib[n])
  <2>1. str'[n] = Cancelled(str[n])
    BY <1>1, <1>3 DEF Cancelled
  <2>2. CASE ResetPutOff(str[n])
    <3>1. lib' = [lib EXCEPT ![n].queue = @]
      BY <1>1, <2>2
    <3>2. lib'[n] = lib[n]
      BY <1>3, <3>1 DEF FramesType
    <3> QED
      BY <2>1, <2>2, <3>2
  <2>3. CASE ~ResetPutOff(str[n])
    <3>1. lib' = [lib EXCEPT ![n].queue = @ \cup {"reset"}]
      BY <1>1, <2>3
    <3>2. lib'[n] = ResetQueued(lib[n])
      BY <1>3, <3>1 DEF ResetQueued
    <3> QED
      BY <2>1, <2>3, <3>2
  <2> QED
    BY <2>2, <2>3
<1>5. /\ DOMAIN str' = Streams /\ DOMAIN lib' = Streams
      /\ \A m \in Streams \ {n} : str'[m] = str[m] /\ lib'[m] = lib[m]
  BY <1>1, <1>3
<1>6. StreamInv(str'[n], lib'[n], wire'[n])
  <2>1. StreamInv(Cancelled(str[n]), IF ResetPutOff(str[n]) THEN lib[n] ELSE ResetQueued(lib[n]),
                  wire[n])
    <3>1. StreamInv(str[n], lib[n], wire[n]) /\ lib[n].state = "open"
      BY <1>3
    <3> QED
      BY <3>1, CancelledInv
  <2>2. wire'[n] = wire[n]
    BY <1>1
  <2> QED
    BY <1>4, <2>1, <2>2
<1>7. str'[n].reset => resetPending'
  <2>1. str'[n].reset = ResetPutOff(str[n])
    BY <1>3, <1>4 DEF Cancelled, StreamType
  <2> QED
    BY <1>1, <2>1
<1>8. StreamsInv' /\ ResetsPending'
  <2>1. resetPending => resetPending'
    BY <1>1
  <2>2. DOMAIN wire' = Streams /\ \A m \in Streams \ {n} : wire'[m] = wire[m]
    BY <1>1, <1>3
  <2> QED
    BY <1>2, <1>5, <1>6, <1>7, <2>1, <2>2, OneStream
<1>9. PhaseInv' /\ NothingStalls'
  <2>1. resetPending' \in BOOLEAN
    BY <1>1, <1>2 DEF PhaseInv, ResetPutOff
  <2> QED
    BY <1>1, <1>2, <1>3, <2>1, AfterCall
<1> QED
  BY <1>8, <1>9 DEF Http2Inv

LEMMA GoAwayStep ==
    ASSUME Http2Inv, GoAway
    PROVE  Http2Inv'
<1>1. StreamsInv /\ PhaseInv /\ ResetsPending
  BY DEF Http2Inv
<1>2. StreamsInv' /\ ResetsPending'
  BY <1>1, NoChange DEF GoAway
<1>3. PhaseInv' /\ NothingStalls'
  <2>1. resetPending' \in BOOLEAN
    BY <1>1 DEF PhaseInv, GoAway
  <2> QED
    BY <1>1, <2>1, AfterCall DEF GoAway
<1> QED
  BY <1>2, <1>3 DEF Http2Inv

\* The steps of dispatch() and of the connection that belong to no stream.
LEMMA ConnectionStep ==
    ASSUME Http2Inv, BeginDispatch \/ EndDispatch \/ DispatchThrows \/ CloseConnection
    PROVE  Http2Inv'
<1>1. StreamsInv /\ PhaseInv /\ ResetsPending /\ NothingStalls
  BY DEF Http2Inv
<1>2. UNCHANGED <<str, lib, wire>> /\ UNCHANGED resetPending
  BY DEF BeginDispatch, EndDispatch, DispatchThrows, CloseConnection
<1>3. StreamsInv' /\ ResetsPending'
  BY <1>1, <1>2, NoChange
<1>4. PhaseInv' /\ ~(phase' = "rest" /\ ~closedConn')
  <2>1. CASE BeginDispatch
    BY <1>1, <2>1 DEF PhaseInv, BeginDispatch
  <2>2. CASE EndDispatch
    BY <1>1, <2>2 DEF PhaseInv, EndDispatch
  <2>3. CASE DispatchThrows
    BY <1>1, <2>3 DEF PhaseInv, DispatchThrows
  <2>4. CASE CloseConnection
    BY <1>1, <2>4 DEF PhaseInv, CloseConnection
  <2> QED
    BY <2>1, <2>2, <2>3, <2>4
<1>5. NothingStalls'
  BY <1>4 DEF NothingStalls
<1> QED
  BY <1>3, <1>4, <1>5 DEF Http2Inv

\* Within dispatch() nothing has to move on.
LEMMA InDispatch ==
    ASSUME PhaseInv, phase = "recv", phase' \in {"recv", "failed"},
           UNCHANGED <<dispatching, resetPending, closedConn>>
    PROVE  PhaseInv' /\ NothingStalls'
BY DEF PhaseInv, NothingStalls

LEMMA OfStreams ==
    ASSUME StreamsInv, NEW n \in Streams
    PROVE  /\ DOMAIN str = Streams /\ DOMAIN lib = Streams /\ DOMAIN wire = Streams
           /\ StreamInv(str[n], lib[n], wire[n])
           /\ str[n] \in StreamType /\ lib[n] \in FramesType /\ wire[n] \in Seq(FrameType)
<1>1. StreamInv(str[n], lib[n], wire[n])
  BY DEF StreamsInv
<1> QED
  BY <1>1 DEF StreamsInv, StreamInv, Typed

LEMMA RecvHeadersStep ==
    ASSUME Http2Inv, NEW n \in Streams, NEW end \in BOOLEAN, NEW tooLarge \in BOOLEAN,
           RecvHeaders(n, end, tooLarge)
    PROVE  Http2Inv'
<1>1. /\ phase = "recv" /\ lib[n].state = "idle"
      /\ str' = [str EXCEPT ![n].held = TRUE, ![n].headers = tooLarge,
                            ![n].remoteEnd = end /\ ~tooLarge]
      /\ lib' = [lib EXCEPT ![n].state = "open",
                            ![n].queue = IF tooLarge THEN {"reset"} ELSE {}]
      /\ UNCHANGED <<phase, dispatching, resetPending, closedConn, wire>>
  BY DEF RecvHeaders
<1>2. StreamsInv /\ PhaseInv /\ ResetsPending
  BY DEF Http2Inv
<1>3. /\ DOMAIN str = Streams /\ DOMAIN lib = Streams /\ DOMAIN wire = Streams
      /\ StreamInv(str[n], lib[n], wire[n])
      /\ str[n] \in StreamType /\ lib[n] \in FramesType /\ wire[n] \in Seq(FrameType)
  BY <1>2, OfStreams
<1>4. str'[n] = Opened(str[n], end, tooLarge) /\ lib'[n] = OpenedFrames(lib[n], tooLarge)
  BY <1>1, <1>3 DEF Opened, OpenedFrames
<1>5. /\ DOMAIN str' = Streams /\ DOMAIN lib' = Streams
      /\ \A m \in Streams \ {n} : str'[m] = str[m] /\ lib'[m] = lib[m]
  BY <1>1, <1>3
<1>6. StreamInv(str'[n], lib'[n], wire'[n])
  <2>1. StreamInv(Opened(str[n], end, tooLarge), OpenedFrames(lib[n], tooLarge), wire[n])
    <3>1. StreamInv(str[n], lib[n], wire[n]) /\ lib[n].state = "idle"
      BY <1>1, <1>3
    <3> QED
      BY <3>1, OpenedInv
  <2>2. wire'[n] = wire[n]
    BY <1>1
  <2> QED
    BY <1>4, <2>1, <2>2
<1>7. ~str'[n].reset
  <2>1. ~str[n].reset
    BY <1>1, <1>3 DEF StreamInv, NoStream
  <2> QED
    BY <1>3, <1>4, <2>1 DEF Opened, StreamType
<1>8. StreamsInv' /\ ResetsPending'
  BY <1>1, <1>2, <1>3, <1>5, <1>6, <1>7, OneStream
<1>9. PhaseInv' /\ NothingStalls'
  BY <1>1, <1>2, InDispatch
<1> QED
  BY <1>8, <1>9 DEF Http2Inv

\* Received(), which both DATA and trailers end in.
LEMMA ReceivedStep ==
    ASSUME StreamsInv, ResetsPending, NEW n \in Streams, NEW end \in BOOLEAN,
           Receiving(n), Received(n, end), UNCHANGED <<wire, resetPending>>
    PROVE  StreamsInv' /\ ResetsPending'
<1>1. lib[n].state = "open" /\ "reset" \notin lib[n].queue
  BY DEF Receiving
<1>2. /\ DOMAIN str = Streams /\ DOMAIN lib = Streams /\ DOMAIN wire = Streams
      /\ StreamInv(str[n], lib[n], wire[n])
      /\ str[n] \in StreamType /\ lib[n] \in FramesType /\ wire[n] \in Seq(FrameType)
  BY OfStreams
<1>3. StreamInv(EventTaken(str[n], end), lib[n], wire[n])
  BY <1>1, <1>2, EventTakenInv
<1>4. /\ EventTaken(str[n], end).reset = str[n].reset
      /\ EventTaken(str[n], end).held = str[n].held
  BY <1>2 DEF EventTaken, StreamType
<1>5. CASE end /\ str[n].endSent
  <2> DEFINE s == EventTaken(str[n], end)
  <2>1. str' = [str EXCEPT ![n] = Gone(s)] /\ lib' = ClosedFrames(n)
    BY <1>5 DEF Received, EventTaken, Gone
  <2>2. s \in StreamType
    BY <1>3 DEF StreamInv, Typed
  <2>3. StreamInv(Gone(s), Dropped(lib[n]), wire[n])
    <3>1. Framed(s, wire[n])
      BY <1>3 DEF StreamInv
    <3> HIDE DEF s
    <3> QED
      BY <1>1, <1>2, <1>3, <3>1, GoneInv DEF s
  <2> HIDE DEF s
  <2>4. /\ str'[n] = Gone(s) /\ lib'[n] = Dropped(lib[n])
        /\ DOMAIN str' = Streams /\ DOMAIN lib' = Streams
        /\ \A m \in Streams \ {n} : str'[m] = str[m] /\ lib'[m] = lib[m]
    BY <1>2, <2>1 DEF ClosedFrames, Dropped
  <2>5. ~str'[n].held
    BY <2>2, <2>4 DEF Gone, StreamType
  <2> QED
    BY <1>2, <2>3, <2>4, <2>5, OneStream
<1>6. CASE ~(end /\ str[n].endSent)
  <2> DEFINE s == EventTaken(str[n], end)
  <2>1. str' = [str EXCEPT ![n] = s] /\ lib' = lib
    BY <1>6 DEF Received, EventTaken
  <2>2. s.reset = str[n].reset /\ s.held = str[n].held
    BY <1>4
  <2>3. StreamInv(s, lib[n], wire[n])
    BY <1>3
  <2> HIDE DEF s
  <2>4. /\ str'[n] = s /\ lib'[n] = lib[n]
        /\ DOMAIN str' = Streams /\ DOMAIN lib' = Streams
        /\ \A m \in Streams \ {n} : str'[m] = str[m] /\ lib'[m] = lib[m]
    BY <1>2, <2>1
  <2>5. str'[n].held /\ str'[n].reset /\ "reset" \notin lib'[n].queue => resetPending
    BY <2>2, <2>4 DEF ResetsPending
  <2> QED
    BY <1>2, <2>3, <2>4, <2>5, OneStream
<1> QED
  BY <1>5, <1>6

LEMMA RecvDataStep ==
    ASSUME Http2Inv, NEW n \in Streams, NEW end \in BOOLEAN,
           RecvData(n, end) \/ RecvTrailers(n, end)
    PROVE  Http2Inv'
<1>1. StreamsInv /\ PhaseInv /\ ResetsPending
  BY DEF Http2Inv
<1>2. /\ Receiving(n) /\ phase = "recv" /\ phase' \in {"recv", "failed"}
      /\ UNCHANGED <<dispatching, resetPending, closedConn, wire>>
      /\ Received(n, end) \/ UNCHANGED <<str, lib>>
  BY DEF RecvData, RecvTrailers, Receiving
<1>3. StreamsInv' /\ ResetsPending'
  <2>1. CASE Received(n, end)
    BY <1>1, <1>2, <2>1, ReceivedStep
  <2>2. CASE UNCHANGED <<str, lib>>
    BY <1>1, <1>2, <2>2, NoChange
  <2> QED
    BY <1>2, <2>1, <2>2
<1>4. PhaseInv' /\ NothingStalls'
  BY <1>1, <1>2, InDispatch
<1> QED
  BY <1>3, <1>4 DEF Http2Inv

\* A stream is closed, after the frame that was sent, if any.
LEMMA ClosesStep ==
    ASSUME StreamsInv, ResetsPending, NEW n \in Streams, UNCHANGED resetPending,
           str' = ClosedStream(n), lib' = ClosedFrames(n),
           DOMAIN wire' = Streams, \A m \in Streams \ {n} : wire'[m] = wire[m],
           StreamInv(Gone(str[n]), Dropped(lib[n]), wire'[n])
    PROVE  StreamsInv' /\ ResetsPending'
<1>1. /\ DOMAIN str = Streams /\ DOMAIN lib = Streams
      /\ str[n] \in StreamType /\ lib[n] \in FramesType
  BY OfStreams
<1>2. str'[n] = Gone(str[n]) /\ lib'[n] = Dropped(lib[n])
  BY <1>1 DEF ClosedStream, ClosedFrames, Gone, Dropped
<1>3. /\ DOMAIN str' = Streams /\ DOMAIN lib' = Streams
      /\ \A m \in Streams \ {n} : str'[m] = str[m] /\ lib'[m] = lib[m]
  BY <1>1 DEF ClosedStream, ClosedFrames
<1>4. ~str'[n].held
  BY <1>1, <1>2 DEF Gone, StreamType
<1> QED
  BY <1>2, <1>3, <1>4, OneStream

LEMMA RecvResetStep ==
    ASSUME Http2Inv, NEW n \in Streams, RecvReset(n)
    PROVE  Http2Inv'
<1>1. StreamsInv /\ PhaseInv /\ ResetsPending
  BY DEF Http2Inv
<1>2. /\ phase = "recv" /\ lib[n].state = "open"
      /\ str' = ClosedStream(n) /\ lib' = ClosedFrames(n)
      /\ UNCHANGED <<phase, dispatching, resetPending, closedConn, wire>>
  BY DEF RecvReset
<1>3. StreamInv(Gone(str[n]), Dropped(lib[n]), wire'[n])
  <2>1. StreamInv(str[n], lib[n], wire[n]) /\ wire[n] \in Seq(FrameType)
    BY <1>1, OfStreams
  <2>2. Framed(str[n], wire[n])
    BY <2>1 DEF StreamInv
  <2>3. StreamInv(Gone(str[n]), Dropped(lib[n]), wire[n])
    BY <1>2, <2>1, <2>2, GoneInv
  <2> QED
    BY <1>2, <2>3
<1>4. StreamsInv' /\ ResetsPending'
  <2>1. DOMAIN wire' = Streams /\ \A m \in Streams \ {n} : wire'[m] = wire[m]
    BY <1>1, <1>2 DEF StreamsInv
  <2> QED
    BY <1>1, <1>2, <1>3, <2>1, ClosesStep
<1>5. PhaseInv' /\ NothingStalls'
  BY <1>1, <1>2, InDispatch
<1> QED
  BY <1>4, <1>5 DEF Http2Inv

LEMMA RecvWindowStep ==
    ASSUME Http2Inv, NEW n \in Streams, NEW more \in 1..MaxWindow, RecvWindow(n, more)
    PROVE  Http2Inv'
<1>1. StreamsInv /\ PhaseInv /\ ResetsPending
  BY DEF Http2Inv
<1>2. /\ phase = "recv" /\ lib[n].state = "open" /\ lib[n].granted + more <= MaxWindow
      /\ lib' = [lib EXCEPT ![n].window = @ + more, ![n].granted = @ + more]
      /\ UNCHANGED <<phase, dispatching, resetPending, closedConn, str, wire>>
  BY DEF RecvWindow
<1>3. /\ DOMAIN str = Streams /\ DOMAIN lib = Streams /\ DOMAIN wire = Streams
      /\ StreamInv(str[n], lib[n], wire[n])
      /\ str[n] \in StreamType /\ lib[n] \in FramesType /\ wire[n] \in Seq(FrameType)
  BY <1>1, OfStreams
<1>4. lib'[n] = Granted(lib[n], more)
  BY <1>2, <1>3 DEF Granted
<1>5. DOMAIN lib' = Streams /\ \A m \in Streams \ {n} : lib'[m] = lib[m]
  BY <1>2, <1>3
<1>6. StreamInv(str'[n], lib'[n], wire'[n])
  <2>1. more \in Nat
    BY Http2Assumption
  <2>2. StreamInv(str[n], Granted(lib[n], more), wire[n])
    BY <1>2, <1>3, <2>1, GrantedInv
  <2> QED
    BY <1>2, <1>4, <2>2
<1>7. lib'[n].queue = lib[n].queue
  BY <1>3, <1>4 DEF Granted, FramesType
<1>8. str'[n].held /\ str'[n].reset /\ "reset" \notin lib'[n].queue => resetPending'
  BY <1>1, <1>2, <1>7 DEF ResetsPending
<1>9. StreamsInv' /\ ResetsPending'
  BY <1>1, <1>2, <1>3, <1>5, <1>6, <1>8, OneStream
<1>10. PhaseInv' /\ NothingStalls'
  BY <1>1, <1>2, InDispatch
<1> QED
  BY <1>9, <1>10 DEF Http2Inv

-----------------------------------------------------------------------------
(* Sending *)

\* A frame that leaves the stream open.
LEMMA OpenSentStep ==
    ASSUME StreamsInv, ResetsPending, NEW n \in Streams, lib[n].state = "open",
           NEW t, NEW g, NEW v, UNCHANGED resetPending,
           str' = [str EXCEPT ![n] = t], lib' = [lib EXCEPT ![n] = g],
           wire' = [wire EXCEPT ![n] = v], StreamInv(t, g, v),
           t.reset = str[n].reset, "reset" \in lib[n].queue => "reset" \in g.queue
    PROVE  StreamsInv' /\ ResetsPending'
<1>1. /\ DOMAIN str = Streams /\ DOMAIN lib = Streams /\ DOMAIN wire = Streams
      /\ str[n].held
  BY OfStreams, OpenParts
<1>2. /\ DOMAIN str' = Streams /\ DOMAIN lib' = Streams /\ DOMAIN wire' = Streams
      /\ \A m \in Streams \ {n} : str'[m] = str[m] /\ lib'[m] = lib[m] /\ wire'[m] = wire[m]
      /\ str'[n] = t /\ lib'[n] = g /\ wire'[n] = v
  BY <1>1
<1>3. str'[n].held /\ str'[n].reset /\ "reset" \notin lib'[n].queue => resetPending'
  BY <1>1, <1>2 DEF ResetsPending
<1>4. StreamInv(str'[n], lib'[n], wire'[n])
  BY <1>2
<1> QED
  BY <1>2, <1>3, <1>4, OneStream

\* A frame that closes it.
LEMMA ClosedSentStep ==
    ASSUME StreamsInv, ResetsPending, NEW n \in Streams, UNCHANGED resetPending,
           str' = ClosedStream(n), lib' = ClosedFrames(n),
           NEW v, wire' = [wire EXCEPT ![n] = v], StreamInv(Gone(str[n]), Dropped(lib[n]), v)
    PROVE  StreamsInv' /\ ResetsPending'
<1>1. DOMAIN wire' = Streams /\ wire'[n] = v /\ \A m \in Streams \ {n} : wire'[m] = wire[m]
  BY DEF StreamsInv
<1> QED
  BY <1>1, ClosesStep

\* What NextFrame() says of the frames of a stream.
LEMMA NextFrameMeans ==
    ASSUME NEW n
    PROVE  /\ NextFrame(n) = "headers" => "headers" \in lib[n].queue
           /\ NextFrame(n) \in {"end", "trailers"} =>
                 /\ NextFrame(n) \in lib[n].queue /\ "headers" \notin lib[n].queue
                 /\ "end" \notin lib[n].queue \/ NextFrame(n) = "end"
           /\ NextFrame(n) = "data" => DataNext(lib[n])
           /\ NextFrame(n) = "none" =>
                 /\ \A k \in QueueKinds : k \notin lib[n].queue
                 /\ lib[n].data = "active" => ~(lib[n].window > 0)
BY DEF NextFrame, DataNext, QueueKinds

LEMMA SendHeadersStep ==
    ASSUME StreamsInv, ResetsPending, NEW n \in Streams, lib[n].state = "open",
           SendHeaders(n), UNCHANGED resetPending
    PROVE  StreamsInv' /\ ResetsPending'
<1> DEFINE kind == NextFrame(n)
<1>1. /\ StreamInv(str[n], lib[n], wire[n])
      /\ str[n] \in StreamType /\ lib[n] \in FramesType
  BY OfStreams
<1>2. /\ kind \in {"headers", "end", "trailers"}
      /\ wire' = [wire EXCEPT ![n] = Append(@, Frame(kind, 0))]
      /\ IF BothEnded(n, kind # "headers")
         THEN str' = ClosedStream(n) /\ lib' = ClosedFrames(n)
         ELSE /\ str' = [str EXCEPT ![n] = [str[n] EXCEPT !.endSent = kind # "headers"]]
              /\ lib' = [lib EXCEPT ![n] = [[lib[n] EXCEPT !.queue = @ \ {kind},
                                                !.data = IF kind = "headers" THEN "active" ELSE @]
                             EXCEPT !.data = IF kind # "headers" THEN "none" ELSE @]]
  BY DEF SendHeaders, Sent
<1>3. /\ kind = "headers" => "headers" \in lib[n].queue
      /\ kind # "headers" =>
            /\ kind \in {"end", "trailers"}
            /\ kind \in lib[n].queue /\ "headers" \notin lib[n].queue
            /\ "end" \notin lib[n].queue \/ kind = "end"
  BY <1>2, NextFrameMeans
<1> HIDE DEF kind
<1>4. [[lib[n] EXCEPT !.queue = @ \ {kind}, !.data = IF kind = "headers" THEN "active" ELSE @]
          EXCEPT !.data = IF kind # "headers" THEN "none" ELSE @] = FrameTaken(lib[n], kind)
  <2> DEFINE f == lib[n]
             d == IF kind = "headers" THEN "active" ELSE f.data
             q == f.queue \ {kind}
             h == [f EXCEPT !.queue = q, !.data = d]
             e == IF kind # "headers" THEN "none" ELSE h.data
             x == IF kind # "headers" THEN "none" ELSE "active"
  <2>1. h.data = d
    BY <1>1 DEF FramesType
  <2>2. e = x
    BY <2>1
  <2>3. f \in FramesType
    BY <1>1
  <2> HIDE DEF f, d, q, e, x
  <2>4. [h EXCEPT !.data = x] = [f EXCEPT !.queue = q, !.data = x]
    BY <2>3 DEF FramesType
  <2> QED
    BY <2>2, <2>4 DEF FrameTaken, f, d, q, e, x
<1>5. /\ FrameTaken(lib[n], kind).queue = lib[n].queue \ {kind}
      /\ \A ends : FrameSent(str[n], ends).reset = str[n].reset
  BY <1>1 DEF FrameTaken, FrameSent, FramesType, StreamType
<1>6. "reset" \in lib[n].queue => "reset" \in FrameTaken(lib[n], kind).queue
  BY <1>2, <1>5
<1>7. CASE kind = "headers"
  <2>1. StreamInv(FrameSent(str[n], FALSE), FrameTaken(lib[n], kind),
                  Append(wire[n], Frame(kind, 0)))
    BY <1>1, <1>3, <1>7, HeadersSentInv
  <2>2. /\ str' = [str EXCEPT ![n] = FrameSent(str[n], FALSE)]
        /\ lib' = [lib EXCEPT ![n] = FrameTaken(lib[n], kind)]
        /\ wire' = [wire EXCEPT ![n] = Append(wire[n], Frame(kind, 0))]
    <3>1. ~BothEnded(n, kind # "headers")
      BY <1>7 DEF BothEnded
    <3>2. (kind # "headers") = FALSE
      BY <1>7
    <3>3. str' = [str EXCEPT ![n] = [str[n] EXCEPT !.endSent = kind # "headers"]]
      BY <1>2, <3>1
    <3> QED
      BY <1>2, <1>4, <3>1, <3>2, <3>3 DEF FrameSent
  <2> QED
    BY <1>5, <1>6, <2>1, <2>2, OpenSentStep
<1>8. CASE kind # "headers" /\ ~BothEnded(n, kind # "headers")
  <2>1. StreamInv(FrameSent(str[n], TRUE), FrameTaken(lib[n], kind),
                  Append(wire[n], Frame(kind, 0)))
    BY <1>1, <1>3, <1>8, EndSentInv
  <2>2. /\ str' = [str EXCEPT ![n] = FrameSent(str[n], TRUE)]
        /\ lib' = [lib EXCEPT ![n] = FrameTaken(lib[n], kind)]
        /\ wire' = [wire EXCEPT ![n] = Append(wire[n], Frame(kind, 0))]
    <3>1. (kind # "headers") = TRUE
      BY <1>8
    <3>2. str' = [str EXCEPT ![n] = [str[n] EXCEPT !.endSent = kind # "headers"]]
      BY <1>2, <1>8
    <3> QED
      BY <1>2, <1>4, <1>8, <3>1, <3>2 DEF FrameSent
  <2> QED
    BY <1>5, <1>6, <2>1, <2>2, OpenSentStep
<1>9. CASE kind # "headers" /\ BothEnded(n, kind # "headers")
  <2>1. StreamInv(Gone(str[n]), Dropped(lib[n]), Append(wire[n], Frame(kind, 0)))
    BY <1>1, <1>3, <1>9, EndClosesInv
  <2>2. /\ str' = ClosedStream(n) /\ lib' = ClosedFrames(n)
        /\ wire' = [wire EXCEPT ![n] = Append(wire[n], Frame(kind, 0))]
    BY <1>2, <1>9
  <2> QED
    BY <2>1, <2>2, ClosedSentStep
<1> QED
  BY <1>7, <1>8, <1>9

LEMMA SendResetStep ==
    ASSUME StreamsInv, ResetsPending, NEW n \in Streams, lib[n].state = "open",
           SendReset(n), UNCHANGED resetPending
    PROVE  StreamsInv' /\ ResetsPending'
<1>1. StreamInv(str[n], lib[n], wire[n])
  BY OfStreams
<1>2. StreamInv(Gone(str[n]), Dropped(lib[n]), Append(wire[n], Frame("reset", 0)))
  BY <1>1, ResetClosesInv
<1>3. /\ wire' = [wire EXCEPT ![n] = Append(wire[n], Frame("reset", 0))]
      /\ str' = ClosedStream(n) /\ lib' = ClosedFrames(n)
  BY DEF SendReset
<1> QED
  BY <1>2, <1>3, ClosedSentStep

LEMMA SendDataStep ==
    ASSUME StreamsInv, ResetsPending, NEW n \in Streams, lib[n].state = "open",
           SendData(n), UNCHANGED resetPending
    PROVE  StreamsInv' /\ ResetsPending'
<1> DEFINE s == str[n]
           f == lib[n]
           length == IF f.window < MaxFrame THEN f.window ELSE MaxFrame
           there  == Total(s.pending)
           amount == IF there < length THEN there ELSE length
           eof    == s.localEnd /\ there <= length
           v      == Append(wire[n], Frame("data", amount))
<1>1. /\ StreamInv(s, f, wire[n])
      /\ s \in StreamType /\ f \in FramesType /\ DOMAIN wire = Streams
  BY OfStreams
<1>2. DataNext(f)
  <2>1. NextFrame(n) = "data"
    BY DEF SendData
  <2> QED
    BY <2>1, NextFrameMeans
<1>3. f.window \in Nat /\ MaxFrame \in Nat \ {0} /\ there \in Nat /\ s.localEnd \in BOOLEAN
  <2>1. f.window \in 0..MaxWindow /\ s.localEnd \in BOOLEAN /\ s.pending \in Seq(Nat \ {0})
    BY <1>1 DEF FramesType, StreamType
  <2>2. there \in Nat
    BY <2>1, TotalNothing
  <2> QED
    BY <2>1, <2>2, Http2Assumption
<1>4. /\ amount \in Nat /\ amount <= f.window
      /\ eof \in BOOLEAN /\ (eof <=> s.localEnd /\ amount = there)
  <2>1. length \in Nat /\ length <= f.window
    BY <1>3
  <2> HIDE DEF length, there
  <2> QED
    BY <1>3, <2>1
<1>5. CASE there = 0 /\ ~s.localEnd
  <2>1. /\ str' = [str EXCEPT ![n].deferred = TRUE]
        /\ lib' = [lib EXCEPT ![n].data = "deferred"] /\ UNCHANGED wire
    <3>1. PutOff(n)
      BY <1>5 DEF SendData
    <3> QED
      BY <3>1 DEF PutOff
  <2>2. StreamInv(Deferred(s), DataDeferred(f), wire[n])
    <3>1. Total(s.pending) = 0 /\ ~s.localEnd
      BY <1>5
    <3> HIDE DEF s, f
    <3>2. f.state = "open"
      BY DEF f
    <3> QED
      BY <1>1, <1>2, <3>1, <3>2, PutOffInv
  <2>3. /\ Deferred(s).reset = s.reset /\ DataDeferred(f).queue = f.queue
    BY <1>1 DEF Deferred, DataDeferred, StreamType, FramesType
  <2>4. /\ DOMAIN str = Streams /\ DOMAIN lib = Streams /\ str[n].held
    <3>1. str[n].held
      BY <1>1, OpenParts
    <3> QED
      BY <3>1 DEF StreamsInv
  <2>5. /\ str'[n] = Deferred(str[n]) /\ lib'[n] = DataDeferred(lib[n]) /\ wire'[n] = wire[n]
        /\ DOMAIN str' = Streams /\ DOMAIN lib' = Streams /\ DOMAIN wire' = Streams
        /\ \A m \in Streams \ {n} : str'[m] = str[m] /\ lib'[m] = lib[m] /\ wire'[m] = wire[m]
    BY <1>1, <2>1, <2>4 DEF Deferred, DataDeferred
  <2>6. StreamInv(str'[n], lib'[n], wire'[n])
    BY <2>2, <2>5
  <2>7. str'[n].held /\ str'[n].reset /\ "reset" \notin lib'[n].queue => resetPending'
    BY <2>3, <2>4, <2>5 DEF ResetsPending
  <2> QED
    BY <2>5, <2>6, <2>7, OneStream
<1>6. CASE ~(there = 0 /\ ~s.localEnd) /\ ~EndsBuffer(s.pending, amount)
  <2>1. UNCHANGED <<str, lib, wire>>
    BY <1>6 DEF SendData
  <2> QED
    BY <2>1, NoChange
<1>7. CASE ~(there = 0 /\ ~s.localEnd) /\ EndsBuffer(s.pending, amount)
  <2>1. Sent(n, "data", amount, eof /\ ~s.trailers,
             [f EXCEPT !.window = @ - amount, !.data = IF eof THEN "none" ELSE @,
                       !.queue = IF eof /\ s.trailers THEN @ \cup {"trailers"} ELSE @],
             [s EXCEPT !.pending = Rest(@, amount), !.trailers = IF eof THEN FALSE ELSE @])
    BY <1>7 DEF SendData
  <2>2. FitsFrame(s, f, amount, eof)
    BY <1>4, <1>7 DEF FitsFrame
  <2> HIDE DEF amount, eof, s, f
  <2>3. f.state = "open"
    BY DEF f
  <2>4. CASE BothEnded(n, eof /\ ~s.trailers)
    <3>1. str' = ClosedStream(n) /\ lib' = ClosedFrames(n) /\ wire' = [wire EXCEPT ![n] = v]
      BY <2>1, <2>4 DEF Sent
    <3>2. StreamInv(Gone(s), Dropped(f), v)
      BY <1>1, <1>2, <2>2, <2>3, DataClosesInv
    <3> QED
      BY <3>1, <3>2, ClosedSentStep DEF s, f
  <2>5. CASE ~BothEnded(n, eof /\ ~s.trailers)
    <3>1. /\ str' = [str EXCEPT ![n] = DataSent(s, amount, eof)]
          /\ lib' = [lib EXCEPT ![n] = DataTaken(s, f, amount, eof)]
          /\ wire' = [wire EXCEPT ![n] = v]
      BY <2>1, <2>5 DEF Sent, DataSent, DataTaken
    <3>2. StreamInv(DataSent(s, amount, eof), DataTaken(s, f, amount, eof), v)
      BY <1>1, <1>2, <2>2, <2>3, DataSentInv
    <3>3. DataSent(s, amount, eof).reset = s.reset
      BY <1>1 DEF DataSent, StreamType
    <3>4. "reset" \notin f.queue
      BY <1>2 DEF DataNext, QueueKinds
    <3> QED
      BY <3>1, <3>2, <3>3, <3>4, OpenSentStep DEF s, f
  <2> QED
    BY <2>4, <2>5
<1> QED
  BY <1>5, <1>6, <1>7

LEMMA SendFrameStep ==
    ASSUME Http2Inv, SendFrame
    PROVE  Http2Inv'
<1>1. StreamsInv /\ PhaseInv /\ ResetsPending
  BY DEF Http2Inv
<1>2. PICK n \in Sendable : SendHeaders(n) \/ SendReset(n) \/ SendData(n)
  BY DEF SendFrame
<1>3. phase = "send" /\ UNCHANGED <<dispatching, resetPending, closedConn>>
  BY DEF SendFrame
<1>4. n \in Streams /\ lib[n].state = "open"
  BY DEF Sendable
<1>5. StreamsInv' /\ ResetsPending'
  <2>1. CASE SendHeaders(n)
    BY <1>1, <1>3, <1>4, <2>1, SendHeadersStep
  <2>2. CASE SendReset(n)
    BY <1>1, <1>3, <1>4, <2>2, SendResetStep
  <2>3. CASE SendData(n)
    BY <1>1, <1>3, <1>4, <2>3, SendDataStep
  <2> QED
    BY <1>2, <2>1, <2>2, <2>3
<1>6. phase' \in {"send", "spin"}
  <2>1. CASE SendHeaders(n)
    BY <1>3, <2>1 DEF SendHeaders, Sent
  <2>2. CASE SendReset(n)
    BY <1>3, <2>2 DEF SendReset
  <2>3. CASE SendData(n)
    BY <1>3, <2>3 DEF SendData, Sent, PutOff
  <2> QED
    BY <1>2, <2>1, <2>2, <2>3
<1>7. PhaseInv' /\ NothingStalls'
  BY <1>1, <1>3, <1>6 DEF PhaseInv, NothingStalls
<1> QED
  BY <1>5, <1>7 DEF Http2Inv

\* A stream of which nothing can be sent: its data source waits for the window.
LEMMA QuietStream ==
    ASSUME NEW s, NEW f, NEW w, StreamInv(s, f, w), f.state = "open",
           \A k \in QueueKinds : k \notin f.queue, f.data = "active" => ~(f.window > 0)
    PROVE  /\ s.cancelled => s.reset
           /\ s.pending # <<>> \/ (s.localEnd /\ ~s.endSent) => f.window = 0
<1>1. /\ f \in FramesType /\ (s.cancelled => s.reset \/ "reset" \in f.queue)
      /\ Unanswered(s, f, w) \/ HeadersOnly(s, f, w) \/ WithBody(s, f, w) \/ Over(s, f, w)
  BY OpenParts
<1>2. f.window \in Nat
  BY <1>1, Http2Assumption DEF FramesType
<1>3. "reset" \notin f.queue /\ "headers" \notin f.queue /\ "end" \notin f.queue
      /\ "trailers" \notin f.queue
  BY DEF QueueKinds
<1>4. ASSUME s.pending # <<>> \/ (s.localEnd /\ ~s.endSent)
      PROVE  f.window = 0
  <2>1. WithBody(s, f, w)
    BY <1>1, <1>3, <1>4 DEF Unanswered, HeadersOnly, Over
  <2>2. f.data # "none" /\ f.data # "deferred"
    BY <1>3, <1>4, <2>1 DEF WithBody
  <2>3. f.data = "active"
    BY <1>1, <2>2 DEF FramesType
  <2> QED
    BY <1>2, <2>3
<1> QED
  BY <1>1, <1>3, <1>4

LEMMA SendDoneStep ==
    ASSUME Http2Inv, SendDone
    PROVE  Http2Inv'
<1>1. StreamsInv /\ PhaseInv /\ ResetsPending
  BY DEF Http2Inv
<1>2. phase = "send" /\ Sendable = {} /\ UNCHANGED <<dispatching, closedConn, str, wire>>
  BY DEF SendDone
<1>3. CASE resetPending
  <2>1. /\ lib' = [n \in Streams |-> IF str[n].held /\ str[n].reset
                     THEN [lib[n] EXCEPT !.queue = @ \cup {"reset"}] ELSE lib[n]]
        /\ resetPending' = FALSE /\ UNCHANGED phase
    BY <1>3 DEF SendDone
  <2>2. ASSUME NEW n \in Streams
        PROVE  /\ StreamInv(str'[n], lib'[n], wire'[n])
               /\ str'[n].held /\ str'[n].reset => "reset" \in lib'[n].queue
    <3>1. /\ StreamInv(str[n], lib[n], wire[n]) /\ lib[n] \in FramesType
          /\ str'[n] = str[n] /\ wire'[n] = wire[n]
      BY <1>1, <1>2, OfStreams
    <3>2. CASE str[n].held /\ str[n].reset
      <4>1. lib'[n] = ResetQueued(lib[n])
        BY <2>1, <3>2 DEF ResetQueued
      <4>2. lib[n].state = "open"
        BY <3>1, <3>2 DEF StreamInv
      <4>3. StreamInv(str[n], ResetQueued(lib[n]), wire[n])
        BY <3>1, <4>2, ResetQueuedInv
      <4>4. "reset" \in ResetQueued(lib[n]).queue
        BY <3>1 DEF ResetQueued, FramesType
      <4> QED
        BY <3>1, <4>1, <4>3, <4>4
    <3>3. CASE ~(str[n].held /\ str[n].reset)
      <4>1. lib'[n] = lib[n]
        BY <2>1, <3>3
      <4> QED
        BY <3>1, <3>3, <4>1
    <3> QED
      BY <3>2, <3>3
  <2>3. StreamsInv'
    <3>1. DOMAIN str' = Streams /\ DOMAIN lib' = Streams /\ DOMAIN wire' = Streams
      BY <1>1, <1>2, <2>1 DEF StreamsInv
    <3> QED
      BY <2>2, <3>1 DEF StreamsInv
  <2>4. ResetsPending'
    BY <2>2 DEF ResetsPending
  <2>5. PhaseInv' /\ NothingStalls'
    BY <1>1, <1>2, <2>1 DEF PhaseInv, NothingStalls
  <2> QED
    BY <2>3, <2>4, <2>5 DEF Http2Inv
<1>4. CASE ~resetPending
  <2>1. phase' = "rest" /\ UNCHANGED <<lib, resetPending>>
    BY <1>4 DEF SendDone
  <2>2. StreamsInv' /\ ResetsPending'
    BY <1>1, <1>2, <2>1, NoChange
  <2>3. PhaseInv'
    BY <1>1, <1>2, <2>1 DEF PhaseInv
  <2>4. ASSUME NEW n \in Streams, str[n].held
        PROVE  /\ ~str[n].cancelled
               /\ str[n].pending # <<>> \/ (str[n].localEnd /\ ~str[n].endSent) =>
                     lib[n].window = 0
    <3>1. StreamInv(str[n], lib[n], wire[n])
      BY <1>1, OfStreams
    <3>2. lib[n].state = "open"
      BY <2>4, <3>1 DEF StreamInv
    <3>3. NextFrame(n) = "none"
      BY <1>2, <3>2 DEF Sendable
    <3>4. /\ \A k \in QueueKinds : k \notin lib[n].queue
          /\ lib[n].data = "active" => ~(lib[n].window > 0)
      BY <3>3, NextFrameMeans
    <3>5. /\ str[n].cancelled => str[n].reset
          /\ str[n].pending # <<>> \/ (str[n].localEnd /\ ~str[n].endSent) =>
                lib[n].window = 0
      BY <3>1, <3>2, <3>4, QuietStream
    <3>6. ~str[n].reset
      BY <1>1, <1>4, <2>4, <3>4 DEF ResetsPending, QueueKinds
    <3> QED
      BY <3>5, <3>6
  <2>5. NothingStalls'
    BY <1>2, <1>4, <2>1, <2>4 DEF NothingStalls
  <2> QED
    BY <2>2, <2>3, <2>5 DEF Http2Inv
<1> QED
  BY <1>3, <1>4

-----------------------------------------------------------------------------
(* The invariant, and what it says *)

LEMMA InitInv == Http2Init => Http2Inv
<1> SUFFICES ASSUME Http2Init PROVE Http2Inv
  OBVIOUS
<1>1. /\ phase = "rest" /\ dispatching = FALSE /\ resetPending = FALSE /\ closedConn = FALSE
      /\ DOMAIN str = Streams /\ DOMAIN lib = Streams /\ DOMAIN wire = Streams
      /\ \A n \in Streams : str[n] = NoStream /\ lib[n] = NoFrames /\ wire[n] = <<>>
  BY DEF Http2Init
<1>2. StreamInv(NoStream, NoFrames, <<>>)
  <2>1. NoStream \in StreamType
    BY DEF NoStream, StreamType
  <2>2. Window \in 0..MaxWindow
    BY Http2Assumption
  <2>3. NoFrames \in FramesType /\ NoFrames.window <= NoFrames.granted /\ NoFrames.state = "idle"
    BY <2>2, Http2Assumption DEF NoFrames, FramesType
  <2>4. ~NoStream.late /\ ~NoStream.held
    BY DEF NoStream
  <2>5. << >> \in Seq(FrameType)
    BY EmptySeq
  <2>6. Framed(NoStream, <<>>)
    BY DEF Framed
  <2> QED
    BY <2>1, <2>3, <2>4, <2>5, <2>6 DEF StreamInv, Typed
<1>3. StreamsInv
  BY <1>1, <1>2 DEF StreamsInv
<1>4. ResetsPending /\ NothingStalls
  <2>1. \A n \in Streams : ~str[n].held
    BY <1>1 DEF NoStream
  <2> QED
    BY <1>1, <2>1 DEF ResetsPending, NothingStalls
<1>5. PhaseInv
  BY <1>1 DEF PhaseInv
<1> QED
  BY <1>3, <1>4, <1>5 DEF Http2Inv

LEMMA NextInv == Http2Inv /\ [Http2Next]_http2Vars => Http2Inv'
<1> SUFFICES ASSUME Http2Inv, [Http2Next]_http2Vars PROVE Http2Inv'
  OBVIOUS
<1>1. CASE SendFrame
  BY <1>1, SendFrameStep
<1>2. CASE SendDone
  BY <1>2, SendDoneStep
<1>3. CASE BeginDispatch \/ EndDispatch \/ DispatchThrows \/ CloseConnection
  BY <1>3, ConnectionStep
<1>4. CASE GoAway
  BY <1>4, GoAwayStep
<1>5. ASSUME NEW n \in Streams, NEW end \in BOOLEAN,
             \/ EncodeHeaders(n, end) \/ RecvData(n, end) \/ RecvTrailers(n, end)
             \/ \E size \in Sizes \cup {0} : EncodeData(n, size, end)
             \/ \E tooLarge \in BOOLEAN : RecvHeaders(n, end, tooLarge)
      PROVE  Http2Inv'
  <2>1. CASE EncodeHeaders(n, end)
    BY <2>1, EncodeHeadersStep
  <2>2. CASE RecvData(n, end) \/ RecvTrailers(n, end)
    BY <2>2, RecvDataStep
  <2>3. CASE \E size \in Sizes \cup {0} : EncodeData(n, size, end)
    BY <2>3, EncodeDataStep
  <2>4. CASE \E tooLarge \in BOOLEAN : RecvHeaders(n, end, tooLarge)
    BY <2>4, RecvHeadersStep
  <2> QED
    BY <1>5, <2>1, <2>2, <2>3, <2>4
<1>6. ASSUME NEW n \in Streams,
             \/ EncodeTrailers(n) \/ ResetStream(n) \/ RecvReset(n)
             \/ \E more \in 1..MaxWindow : RecvWindow(n, more)
      PROVE  Http2Inv'
  BY <1>6, EncodeTrailersStep, ResetStreamStep, RecvResetStep, RecvWindowStep
<1>7. CASE UNCHANGED http2Vars
  <2>1. StreamsInv /\ PhaseInv /\ ResetsPending /\ NothingStalls
    BY DEF Http2Inv
  <2>2. UNCHANGED <<phase, dispatching, resetPending, closedConn, str, lib, wire>>
    BY <1>7 DEF http2Vars
  <2>3. StreamsInv' /\ ResetsPending'
    BY <2>1, <2>2, NoChange
  <2>4. PhaseInv' /\ NothingStalls'
    BY <2>1, <2>2 DEF PhaseInv, NothingStalls
  <2> QED
    BY <2>3, <2>4 DEF Http2Inv
<1> QED
  BY <1>1, <1>2, <1>3, <1>4, <1>5, <1>6, <1>7 DEF Http2Next

LEMMA Http2InvHolds == Http2Spec => []Http2Inv
<1>1. Http2Init => Http2Inv
  BY InitInv
<1>2. Http2Inv /\ [Http2Next]_http2Vars => Http2Inv'
  BY NextInv
<1> QED
  BY <1>1, <1>2, PTL DEF Http2Spec

\* Whatever the user encodes and the peer sends, in any order, and however small its
\* windows are, the codec is in a state it is meant for: a stream is in active_streams_
\* exactly as long as nghttp2 has it open, and never is more sent than was granted.
THEOREM Http2Typed == Http2Spec => []Http2TypeOK
<1>1. Http2Inv => Http2TypeOK
  <2> SUFFICES ASSUME Http2Inv PROVE Http2TypeOK
    OBVIOUS
  <2>1. StreamsInv /\ PhaseInv
    BY DEF Http2Inv
  <2>2. ASSUME NEW n \in Streams
        PROVE  /\ DOMAIN str[n] = DOMAIN NoStream
               /\ lib[n].state \in {"idle", "open", "closed"}
               /\ lib[n].data \in {"none", "active", "deferred"}
               /\ lib[n].window \in 0..MaxWindow
               /\ str[n].held <=> lib[n].state = "open"
    <3>1. StreamInv(str[n], lib[n], wire[n]) /\ str[n] \in StreamType /\ lib[n] \in FramesType
      BY <2>1, OfStreams
    <3>2. DOMAIN str[n] = DOMAIN NoStream
      BY <3>1 DEF StreamType, NoStream
    <3>3. str[n].held <=> lib[n].state = "open"
      BY <3>1 DEF StreamInv
    <3> QED
      BY <3>1, <3>2, <3>3 DEF FramesType
  <2>3. DOMAIN str = Streams /\ DOMAIN lib = Streams /\ DOMAIN wire = Streams
    BY <2>1 DEF StreamsInv
  <2>4. phase \in {"rest", "recv", "send", "failed", "spin"}
        /\ {dispatching, resetPending, closedConn} \subseteq BOOLEAN
    BY <2>1 DEF PhaseInv
  <2> QED
    BY <2>2, <2>3, <2>4 DEF Http2TypeOK
<1> QED
  BY <1>1, Http2InvHolds, PTL

\* What StreamImpl and nghttp2 send of a stream is a response as HTTP/2 wants it, with
\* every byte of the body before the end: whatever the order in which the user encodes,
\* the data source is put off and resumed, windows open, and resets are put off.
THEOREM Http2Framing == Http2Spec => []ResponseFraming
<1>1. Http2Inv => ResponseFraming
  <2> SUFFICES ASSUME Http2Inv, NEW n \in Streams, NEW i \in DOMAIN wire[n]
               PROVE  FramedAt(str[n], wire[n], i)
    BY DEF ResponseFraming, FramedAt
  <2>1. StreamInv(str[n], lib[n], wire[n])
    BY OfStreams DEF Http2Inv
  <2> QED
    BY <2>1 DEF StreamInv, Framed
<1> QED
  BY <1>1, Http2InvHolds, PTL

\* sendPendingFrames() leaves nothing behind: a stream with something left waits for the
\* window of the peer, and no reset that was put off is forgotten.
THEOREM Http2MovesOn == Http2Spec => []NothingStalls
<1>1. Http2Inv => NothingStalls
  BY DEF Http2Inv
<1> QED
  BY <1>1, Http2InvHolds, PTL

\* onFrameReceived() tells the decoder of no frame after resetStream(), at once or put off.
THEOREM Http2Silence == Http2Spec => []NoEventsAfterReset
<1>1. Http2Inv => NoEventsAfterReset
  <2> SUFFICES ASSUME Http2Inv, NEW n \in Streams PROVE ~str[n].late
    BY DEF NoEventsAfterReset
  <2>1. StreamInv(str[n], lib[n], wire[n])
    BY OfStreams DEF Http2Inv
  <2> QED
    BY <2>1 DEF StreamInv
<1> QED
  BY <1>1, Http2InvHolds, PTL

-----------------------------------------------------------------------------
(* Joining the sequences of a sequence *)

Joins(f, q, k) == f = [i \in 1..k |-> IF i = 1 THEN q[i] ELSE f[i - 1] \o q[i]]

\* The definition of FlattenSeq has one solution.
LEMMA JoinsOnce ==
    ASSUME NEW q, NEW k \in Nat, NEW f, NEW g, Joins(f, q, k), Joins(g, q, k)
    PROVE  f = g
<1> DEFINE Step(w, i) == IF i = 1 THEN q[i] ELSE w[i - 1] \o q[i]
           Differ == {i \in 1..k : f[i] # g[i]}
<1>1. f = [i \in 1..k |-> Step(f, i)] /\ g = [i \in 1..k |-> Step(g, i)]
  BY DEF Joins
<1>2. CASE Differ # {}
  <2>1. PICK i \in Differ : \A j \in Differ : i <= j
    <3>1. Differ \in SUBSET Nat
      OBVIOUS
    <3> HIDE DEF Differ
    <3> QED
      BY <1>2, <3>1, LeastNatural
  <2>2. i \in 1..k /\ f[i] # g[i]
    OBVIOUS
  <2>3. f[i] = Step(f, i) /\ g[i] = Step(g, i)
    <3> HIDE DEF Step
    <3> QED
      BY <1>1, <2>2
  <2>4. CASE i = 1
    BY <2>2, <2>3, <2>4
  <2>5. CASE i # 1
    <3>1. i - 1 \in 1..k /\ ~(i <= i - 1)
      BY <2>2, <2>5
    <3>2. f[i - 1] = g[i - 1]
      BY <2>1, <3>1
    <3> QED
      BY <2>2, <2>3, <2>5, <3>2
  <2> QED
    BY <2>4, <2>5
<1>3. CASE Differ = {}
  <2>1. \A i \in 1..k : f[i] = g[i]
    BY <1>3
  <2>2. f = [i \in 1..k |-> f[i]] /\ g = [i \in 1..k |-> g[i]]
    <3> HIDE DEF Step
    <3> QED
      BY <1>1
  <2> QED
    BY <2>1, <2>2
<1> QED
  BY <1>2, <1>3

LEMMA JoinedIs ==
    ASSUME NEW q, Len(q) \in Nat, Len(q) # 0, NEW f, Joins(f, q, Len(q))
    PROVE  FlattenSeq(q) = f[Len(q)]
<1>1. PICK k \in Nat : k = Len(q)
  OBVIOUS
<1>2. PICK g : g = CHOOSE h : Joins(h, q, k)
  OBVIOUS
<1>3. Joins(g, q, k) /\ Joins(f, q, k)
  BY <1>1, <1>2
<1>4. g = f
  BY <1>3, JoinsOnce
<1>5. FlattenSeq(q) = g[k]
  <2>1. g = CHOOSE flatten : flatten = [i \in 1..k |-> IF i = 1 THEN q[i] ELSE flatten[i - 1] \o q[i]]
    BY <1>2 DEF Joins
  <2> QED
    BY <1>1, <2>1 DEF FlattenSeq
<1> QED
  BY <1>1, <1>4, <1>5

LEMMA JoinsExist ==
    ASSUME NEW S, NEW q \in Seq(Seq(S))
    PROVE  /\ Len(q) \in Nat
           /\ \E f : Joins(f, q, Len(q)) /\ \A i \in 1..Len(q) : f[i] \in Seq(S)
<1>1. PICK L \in Nat : L = Len(q)
  BY LenProperties
<1>2. \A i \in 1..L : q[i] \in Seq(S)
  BY <1>1, ElementOfSeq
<1> DEFINE Ok(k) == \E f : Joins(f, q, k) /\ \A i \in 1..k : f[i] \in Seq(S)
           Bad == {k \in 0..L : ~Ok(k)}
<1>3. CASE Bad # {}
  <2>1. PICK k \in Bad : \A j \in Bad : k <= j
    <3>1. Bad \in SUBSET Nat
      OBVIOUS
    <3> HIDE DEF Bad
    <3> QED
      BY <1>3, <3>1, LeastNatural
  <2>2. k \in 0..L /\ ~Ok(k)
    OBVIOUS
  <2>3. CASE k = 0
    <3>1. PICK f : f = [i \in 1..0 |-> IF i = 1 THEN q[i] ELSE <<>>]
      OBVIOUS
    <3>2. Joins(f, q, 0)
      BY <3>1 DEF Joins
    <3> QED
      BY <2>2, <2>3, <3>2
  <2>4. CASE k # 0
    <3>1. k - 1 \in 0..L /\ ~(k <= k - 1)
      BY <2>2, <2>4
    <3>2. Ok(k - 1)
      BY <2>1, <3>1
    <3>3. PICK g : Joins(g, q, k - 1) /\ \A i \in 1..(k - 1) : g[i] \in Seq(S)
      BY <3>2
    <3>4. PICK last \in Seq(S) : last = IF k = 1 THEN q[k] ELSE g[k - 1] \o q[k]
      <4>1. k \in 1..L
        BY <2>2, <2>4
      <4>2. CASE k = 1
        BY <1>2, <4>1, <4>2
      <4>3. CASE k # 1
        <5>1. g[k - 1] \in Seq(S) /\ q[k] \in Seq(S)
          BY <1>2, <3>3, <4>1, <4>3
        <5>2. PICK a \in Seq(S), b \in Seq(S) : a = g[k - 1] /\ b = q[k]
          BY <5>1
        <5>3. a \o b \in Seq(S)
          OBVIOUS
        <5> QED
          BY <4>3, <5>2, <5>3
      <4> QED
        BY <4>2, <4>3
    <3>5. PICK f : f = [i \in 1..k |-> IF i < k THEN g[i] ELSE last]
      OBVIOUS
    <3>6. \A i \in 1..k : f[i] \in Seq(S)
      BY <2>2, <3>3, <3>4, <3>5
    <3>7. Joins(f, q, k)
      <4> DEFINE Step(w, i) == IF i = 1 THEN q[i] ELSE w[i - 1] \o q[i]
      <4>1. g = [i \in 1..(k - 1) |-> Step(g, i)]
        BY <3>3 DEF Joins
      <4>2. ASSUME NEW i \in 1..k PROVE f[i] = Step(f, i)
        <5>1. CASE i < k
          <6>1. i \in 1..(k - 1) /\ f[i] = g[i]
            BY <2>2, <3>5, <5>1
          <6>2. g[i] = Step(g, i)
            <7> HIDE DEF Step
            <7> QED
              BY <4>1, <6>1
          <6>3. i # 1 => f[i - 1] = g[i - 1]
            <7>1. i # 1 => (i - 1 \in 1..k /\ i - 1 < k)
              BY <2>2, <5>1
            <7> QED
              BY <3>5, <7>1
          <6> QED
            BY <6>1, <6>2, <6>3
        <5>2. CASE i = k
          <6>1. f[i] = last
            BY <2>2, <3>5, <5>2
          <6>2. i # 1 => f[i - 1] = g[k - 1]
            <7>1. i # 1 => (i - 1 \in 1..k /\ i - 1 < k /\ i - 1 = k - 1)
              BY <2>2, <5>2
            <7> QED
              BY <3>5, <7>1
          <6> QED
            BY <3>4, <5>2, <6>1, <6>2
        <5> QED
          BY <2>2, <5>1, <5>2
      <4> HIDE DEF Step
      <4>3. f = [i \in 1..k |-> f[i]]
        BY <3>5
      <4>4. f = [i \in 1..k |-> Step(f, i)]
        BY <4>2, <4>3
      <4> QED
        BY <4>4 DEF Joins, Step
    <3> QED
      BY <2>2, <3>6, <3>7
  <2> QED
    BY <2>3, <2>4
<1>4. CASE Bad = {}
  <2>1. L \in 0..L
    OBVIOUS
  <2>2. Ok(L)
    BY <1>4, <2>1
  <2> QED
    BY <1>1, <2>2
<1> QED
  BY <1>3, <1>4

LEMMA JoinedType ==
    ASSUME NEW S, NEW q \in Seq(Seq(S))
    PROVE  FlattenSeq(q) \in Seq(S)
<1>1. PICK f : Joins(f, q, Len(q)) /\ \A i \in 1..Len(q) : f[i] \in Seq(S)
  BY JoinsExist
<1>2. Len(q) \in Nat
  BY LenProperties
<1>3. CASE Len(q) = 0
  <2>1. q = <<>>
    BY <1>3, EmptySeq
  <2> QED
    BY <1>3, <2>1 DEF FlattenSeq
<1>4. CASE Len(q) # 0
  <2>1. FlattenSeq(q) = f[Len(q)]
    BY <1>1, <1>2, <1>4, JoinedIs
  <2> QED
    BY <1>1, <1>2, <1>4, <2>1
<1> QED
  BY <1>3, <1>4

LEMMA JoinedAppend ==
    ASSUME NEW S, NEW q \in Seq(Seq(S)), NEW s \in Seq(S)
    PROVE  FlattenSeq(Append(q, s)) = FlattenSeq(q) \o s
<1>1. PICK f : Joins(f, q, Len(q)) /\ \A i \in 1..Len(q) : f[i] \in Seq(S)
  BY JoinsExist
<1>2. PICK L \in Nat : L = Len(q)
  BY LenProperties
<1>3. PICK p : p = Append(q, s)
  OBVIOUS
<1>4. /\ Len(p) = L + 1 /\ p[L + 1] = s
      /\ \A i \in 1..L : p[i] = q[i]
  <2>1. PICK T : T = Seq(S)
    OBVIOUS
  <2>2. q \in Seq(T) /\ s \in T
    BY <2>1
  <2> QED
    BY <1>2, <1>3, <2>2, AppendProperties
<1>5. PICK last : last = IF L = 0 THEN s ELSE f[L] \o s
  OBVIOUS
<1>6. PICK g : g = [i \in 1..(L + 1) |-> IF i <= L THEN f[i] ELSE last]
  OBVIOUS
<1>7. Joins(g, p, L + 1)
  <2> DEFINE Step(w, r, i) == IF i = 1 THEN r[i] ELSE w[i - 1] \o r[i]
  <2>1. f = [i \in 1..L |-> Step(f, q, i)]
    BY <1>1, <1>2 DEF Joins
  <2>2. ASSUME NEW i \in 1..(L + 1) PROVE g[i] = Step(g, p, i)
    <3>1. CASE i <= L
      <4>1. i \in 1..L /\ g[i] = f[i]
        BY <1>6, <3>1
      <4>2. f[i] = Step(f, q, i)
        <5> HIDE DEF Step
        <5> QED
          BY <2>1, <4>1
      <4>3. i # 1 => g[i - 1] = f[i - 1]
        <5>1. i # 1 => (i - 1 \in 1..(L + 1) /\ i - 1 <= L)
          BY <3>1
        <5> QED
          BY <1>6, <5>1
      <4>4. p[i] = q[i]
        BY <1>4, <4>1
      <4> QED
        BY <4>1, <4>2, <4>3, <4>4
    <3>2. CASE i = L + 1
      <4>1. g[i] = last /\ p[i] = s
        BY <1>4, <1>6, <3>2
      <4>2. i # 1 => g[i - 1] = f[L] /\ L # 0
        <5>1. i # 1 => (i - 1 \in 1..(L + 1) /\ i - 1 <= L /\ i - 1 = L /\ L # 0)
          BY <3>2
        <5> QED
          BY <1>6, <5>1
      <4>3. i = 1 => L = 0
        BY <3>2
      <4> QED
        BY <1>5, <4>1, <4>2, <4>3
    <3> QED
      BY <3>1, <3>2
  <2> HIDE DEF Step
  <2>3. g = [i \in 1..(L + 1) |-> g[i]]
    BY <1>6
  <2>4. g = [i \in 1..(L + 1) |-> Step(g, p, i)]
    BY <2>2, <2>3
  <2> QED
    BY <2>4 DEF Joins, Step
<1>8. FlattenSeq(p) = g[L + 1]
  <2>1. Len(p) \in Nat /\ Len(p) # 0 /\ Joins(g, p, Len(p))
    BY <1>4, <1>7
  <2>2. FlattenSeq(p) = g[Len(p)]
    BY <2>1, JoinedIs
  <2> QED
    BY <1>4, <2>2
<1>9. g[L + 1] = last
  BY <1>6
<1>10. CASE L = 0
  <2>1. q = <<>>
    BY <1>2, <1>10, EmptySeq
  <2>2. FlattenSeq(q) = q
    BY <1>2, <1>10 DEF FlattenSeq
  <2>3. <<>> \o s = s
    OBVIOUS
  <2> QED
    BY <1>3, <1>5, <1>8, <1>9, <1>10, <2>1, <2>2, <2>3
<1>11. CASE L # 0
  <2>1. FlattenSeq(q) = f[L]
    <3>1. Len(q) \in Nat /\ Len(q) # 0 /\ Joins(f, q, Len(q))
      BY <1>1, <1>2, <1>11
    <3> QED
      BY <1>2, <3>1, JoinedIs
  <2> QED
    BY <1>3, <1>5, <1>8, <1>9, <1>11, <2>1
<1> QED
  BY <1>10, <1>11

-----------------------------------------------------------------------------
(* What is on the wire of one response *)

Gathers(f, w, n, k) ==
    f = [i \in 0..k |-> IF i = 0 THEN <<>>
                        ELSE IF w[i].n = n THEN Append(f[i - 1], w[i].what) ELSE f[i - 1]]

\* The definition of Written has one solution.
LEMMA GathersOnce ==
    ASSUME NEW w, NEW n, NEW k \in Nat, NEW f, NEW g, Gathers(f, w, n, k), Gathers(g, w, n, k)
    PROVE  f = g
<1> DEFINE Step(h, i) == IF i = 0 THEN <<>>
                         ELSE IF w[i].n = n THEN Append(h[i - 1], w[i].what) ELSE h[i - 1]
           Differ == {i \in 0..k : f[i] # g[i]}
<1>1. f = [i \in 0..k |-> Step(f, i)] /\ g = [i \in 0..k |-> Step(g, i)]
  BY DEF Gathers
<1>2. CASE Differ # {}
  <2>1. PICK i \in Differ : \A j \in Differ : i <= j
    <3>1. Differ \in SUBSET Nat
      OBVIOUS
    <3> HIDE DEF Differ
    <3> QED
      BY <1>2, <3>1, LeastNatural
  <2>2. i \in 0..k /\ f[i] # g[i]
    OBVIOUS
  <2>3. f[i] = Step(f, i) /\ g[i] = Step(g, i)
    <3> HIDE DEF Step
    <3> QED
      BY <1>1, <2>2
  <2>4. CASE i = 0
    BY <2>2, <2>3, <2>4
  <2>5. CASE i # 0
    <3>1. i - 1 \in 0..k /\ ~(i <= i - 1)
      BY <2>2, <2>5
    <3>2. f[i - 1] = g[i - 1]
      BY <2>1, <3>1
    <3> QED
      BY <2>2, <2>3, <2>5, <3>2
  <2> QED
    BY <2>4, <2>5
<1>3. CASE Differ = {}
  <2>1. \A i \in 0..k : f[i] = g[i]
    BY <1>3
  <2>2. f = [i \in 0..k |-> f[i]] /\ g = [i \in 0..k |-> g[i]]
    <3> HIDE DEF Step
    <3> QED
      BY <1>1
  <2> QED
    BY <2>1, <2>2
<1> QED
  BY <1>2, <1>3

LEMMA WrittenIs ==
    ASSUME NEW w, Len(w) \in Nat, NEW n, NEW f, Gathers(f, w, n, Len(w))
    PROVE  Written(w, n) = f[Len(w)]
<1>1. PICK k \in Nat : k = Len(w)
  OBVIOUS
<1>2. PICK g : g = CHOOSE h : Gathers(h, w, n, k)
  OBVIOUS
<1>3. Gathers(g, w, n, k) /\ Gathers(f, w, n, k)
  BY <1>1, <1>2
<1>4. g = f
  BY <1>3, GathersOnce
<1>5. Written(w, n) = g[k]
  <2>1. g = CHOOSE h : h = [i \in 0..k |-> IF i = 0 THEN <<>>
                        ELSE IF w[i].n = n THEN Append(h[i - 1], w[i].what) ELSE h[i - 1]]
    BY <1>2 DEF Gathers
  <2> QED
    BY <1>1, <2>1 DEF Written
<1> QED
  BY <1>1, <1>4, <1>5

\* S: what may be on the wire.
OnWire(S) == [n : Nat, what : S]

LEMMA GathersExist ==
    ASSUME NEW S, NEW w \in Seq(OnWire(S)), NEW n
    PROVE  \E f : Gathers(f, w, n, Len(w)) /\ \A i \in 0..Len(w) : f[i] \in Seq(S)
<1>1. PICK L \in Nat : L = Len(w)
  BY LenProperties
<1>2. \A i \in 1..L : w[i].what \in S
  <2>1. \A i \in 1..L : w[i] \in OnWire(S)
    BY <1>1, ElementOfSeq
  <2> QED
    BY <2>1 DEF OnWire
<1> DEFINE Ok(k) == \E f : Gathers(f, w, n, k) /\ \A i \in 0..k : f[i] \in Seq(S)
           Bad == {k \in 0..L : ~Ok(k)}
<1>3. CASE Bad # {}
  <2>1. PICK k \in Bad : \A j \in Bad : k <= j
    <3>1. Bad \in SUBSET Nat
      OBVIOUS
    <3> HIDE DEF Bad
    <3> QED
      BY <1>3, <3>1, LeastNatural
  <2>2. k \in 0..L /\ ~Ok(k)
    OBVIOUS
  <2>3. CASE k = 0
    <3>1. PICK f : f = [i \in 0..0 |-> <<>>]
      OBVIOUS
    <3>2. f = [i \in 0..0 |-> IF i = 0 THEN <<>>
                        ELSE IF w[i].n = n THEN Append(f[i - 1], w[i].what) ELSE f[i - 1]]
      BY <3>1
    <3>3. Gathers(f, w, n, 0)
      BY <3>2 DEF Gathers
    <3>4. \A i \in 0..0 : f[i] \in Seq(S)
      BY <3>1
    <3> QED
      BY <2>2, <2>3, <3>3, <3>4
  <2>4. CASE k # 0
    <3>1. k - 1 \in 0..L /\ ~(k <= k - 1)
      BY <2>2, <2>4
    <3>2. Ok(k - 1)
      BY <2>1, <3>1
    <3>3. PICK g : Gathers(g, w, n, k - 1) /\ \A i \in 0..(k - 1) : g[i] \in Seq(S)
      BY <3>2
    <3>4. PICK last \in Seq(S) : last = IF w[k].n = n THEN Append(g[k - 1], w[k].what) ELSE g[k - 1]
      <4>1. PICK a \in Seq(S), b \in S : a = g[k - 1] /\ b = w[k].what
        BY <1>2, <2>2, <2>4, <3>3
      <4>2. Append(a, b) \in Seq(S)
        OBVIOUS
      <4> QED
        BY <4>1, <4>2
    <3>5. PICK f : f = [i \in 0..k |-> IF i < k THEN g[i] ELSE last]
      OBVIOUS
    <3>6. \A i \in 0..k : f[i] \in Seq(S)
      BY <2>2, <3>3, <3>4, <3>5
    <3>7. Gathers(f, w, n, k)
      <4> DEFINE Step(h, i) == IF i = 0 THEN <<>>
                         ELSE IF w[i].n = n THEN Append(h[i - 1], w[i].what) ELSE h[i - 1]
      <4>1. g = [i \in 0..(k - 1) |-> Step(g, i)]
        BY <3>3 DEF Gathers
      <4>2. ASSUME NEW i \in 0..k PROVE f[i] = Step(f, i)
        <5>1. CASE i < k
          <6>1. i \in 0..(k - 1) /\ f[i] = g[i]
            BY <2>2, <3>5, <5>1
          <6>2. g[i] = Step(g, i)
            <7> HIDE DEF Step
            <7> QED
              BY <4>1, <6>1
          <6>3. i # 0 => f[i - 1] = g[i - 1]
            <7>1. i # 0 => (i - 1 \in 0..k /\ i - 1 < k)
              BY <2>2, <5>1
            <7> QED
              BY <3>5, <7>1
          <6> QED
            BY <6>1, <6>2, <6>3
        <5>2. CASE i = k
          <6>1. f[i] = last /\ i # 0
            BY <2>2, <2>4, <3>5, <5>2
          <6>2. f[i - 1] = g[k - 1]
            <7>1. i - 1 \in 0..k /\ i - 1 < k /\ i - 1 = k - 1
              BY <2>2, <2>4, <5>2
            <7> QED
              BY <3>5, <7>1
          <6> QED
            BY <3>4, <5>2, <6>1, <6>2
        <5> QED
          BY <2>2, <5>1, <5>2
      <4> HIDE DEF Step
      <4>3. f = [i \in 0..k |-> f[i]]
        BY <3>5
      <4>4. f = [i \in 0..k |-> Step(f, i)]
        BY <4>2, <4>3
      <4> QED
        BY <4>4 DEF Gathers, Step
    <3> QED
      BY <2>2, <3>6, <3>7
  <2> QED
    BY <2>3, <2>4
<1>4. CASE Bad = {}
  <2>1. L \in 0..L
    OBVIOUS
  <2>2. Ok(L)
    BY <1>4, <2>1
  <2> QED
    BY <1>1, <2>2
<1> QED
  BY <1>3, <1>4

LEMMA WrittenType ==
    ASSUME NEW S, NEW w \in Seq(OnWire(S)), NEW n
    PROVE  Written(w, n) \in Seq(S)
<1>1. PICK f : Gathers(f, w, n, Len(w)) /\ \A i \in 0..Len(w) : f[i] \in Seq(S)
  BY GathersExist
<1>2. Len(w) \in Nat
  BY LenProperties
<1>3. Written(w, n) = f[Len(w)]
  BY <1>1, <1>2, WrittenIs
<1> QED
  BY <1>1, <1>2, <1>3

\* The items of stream m that are written add up to what is written of it, and nothing to
\* what is written of another.
LEMMA WrittenMore ==
    ASSUME NEW S, NEW w \in Seq(OnWire(S)), NEW m \in Nat, NEW whats \in Seq(S), NEW n
    PROVE  Written(w \o Items(m, whats), n)
              = IF m = n THEN Written(w, n) \o whats ELSE Written(w, n)
<1>1. PICK f : Gathers(f, w, n, Len(w)) /\ \A i \in 0..Len(w) : f[i] \in Seq(S)
  BY GathersExist
<1>2. PICK L \in Nat, M \in Nat : L = Len(w) /\ M = Len(whats)
  BY LenProperties
<1>3. PICK v : v = w \o Items(m, whats)
  OBVIOUS
<1>4. /\ Len(v) = L + M
      /\ \A i \in 1..L : v[i] = w[i]
      /\ \A i \in 1..M : v[L + i].n = m /\ v[L + i].what = whats[i]
  <2>1. PICK t : t = Items(m, whats)
    OBVIOUS
  <2>2. t = [i \in 1..M |-> [n |-> m, what |-> whats[i]]]
    BY <1>2, <2>1 DEF Items, Item
  <2>3. t \in Seq(OnWire(S))
    <3>1. \A i \in 1..M : [n |-> m, what |-> whats[i]] \in OnWire(S)
      <4>1. \A i \in 1..M : whats[i] \in S
        BY <1>2, ElementOfSeq
      <4> QED
        BY <4>1 DEF OnWire
    <3> QED
      BY <2>2, <3>1
  <2>4. Len(t) = M
    BY <2>2
  <2>5. /\ Len(w \o t) = Len(w) + Len(t)
        /\ \A i \in 1..(Len(w) + Len(t)) : (w \o t)[i] = IF i <= Len(w) THEN w[i] ELSE t[i - Len(w)]
    <3>1. PICK T : T = OnWire(S)
      OBVIOUS
    <3>2. w \in Seq(T) /\ t \in Seq(T)
      BY <2>3, <3>1
    <3> QED
      BY <3>2, ConcatProperties
  <2>6. \A i \in 1..L : v[i] = w[i]
    BY <1>2, <1>3, <2>1, <2>4, <2>5
  <2>7. ASSUME NEW i \in 1..M PROVE v[L + i] = t[i]
    <3>1. L + i \in 1..(Len(w) + Len(t)) /\ ~(L + i <= Len(w)) /\ (L + i) - Len(w) = i
      BY <1>2, <2>4
    <3> QED
      BY <1>3, <2>1, <2>5, <3>1
  <2> QED
    BY <1>2, <1>3, <2>1, <2>2, <2>4, <2>5, <2>6, <2>7
<1>5. PICK g : g = [i \in 0..(L + M) |->
                      IF i <= L THEN f[i]
                      ELSE IF m = n THEN f[L] \o SubSeq(whats, 1, i - L) ELSE f[L]]
  OBVIOUS
<1>6. Gathers(g, v, n, L + M)
  <2> DEFINE Step(h, u, i) == IF i = 0 THEN <<>>
                         ELSE IF u[i].n = n THEN Append(h[i - 1], u[i].what) ELSE h[i - 1]
  <2>1. f = [i \in 0..L |-> Step(f, w, i)]
    BY <1>1, <1>2 DEF Gathers
  <2>2. ASSUME NEW i \in 0..(L + M) PROVE g[i] = Step(g, v, i)
    <3>1. CASE i <= L
      <4>1. i \in 0..L /\ g[i] = f[i]
        BY <1>5, <3>1
      <4>2. f[i] = Step(f, w, i)
        <5> HIDE DEF Step
        <5> QED
          BY <2>1, <4>1
      <4>3. i # 0 => (g[i - 1] = f[i - 1] /\ v[i] = w[i])
        <5>1. i # 0 => (i - 1 \in 0..(L + M) /\ i - 1 <= L /\ i \in 1..L)
          BY <3>1
        <5> QED
          BY <1>4, <1>5, <5>1
      <4> QED
        BY <4>1, <4>2, <4>3
    <3>2. CASE i > L
      <4>1. PICK j \in 1..M : i = L + j
        <5>1. i - L \in 1..M /\ i = L + (i - L)
          BY <3>2
        <5> QED
          BY <5>1
      <4>2. v[i].n = m /\ v[i].what = whats[j] /\ i # 0
        BY <1>4, <3>2, <4>1
      <4>3. CASE m # n
        <5>1. g[i] = f[L]
          BY <1>5, <3>2, <4>3
        <5>2. g[i - 1] = f[L]
          <6>1. i - 1 \in 0..(L + M) /\ (i - 1 <= L => i - 1 = L)
            BY <3>2
          <6> QED
            BY <1>5, <4>3, <6>1
        <5> QED
          BY <4>2, <4>3, <5>1, <5>2
      <4>4. CASE m = n
        <5>1. PICK a \in Seq(S) : a = f[L]
          BY <1>1, <1>2
        <5>2. /\ SubSeq(whats, 1, j) \in Seq(S) /\ SubSeq(whats, 1, j - 1) \in Seq(S)
              /\ SubSeq(whats, 1, j) = Append(SubSeq(whats, 1, j - 1), whats[j])
          <6>1. PICK d \in Seq(S) : d = SubSeq(whats, 1, j - 1)
            <7>1. PICK p \in Int, q \in Int : p = 1 /\ q = j - 1
              OBVIOUS
            <7>2. 1 <= p /\ q <= Len(whats) /\ p <= q + 1
              BY <1>2, <7>1
            <7>3. SubSeq(whats, p, q) \in Seq(S)
              BY <7>2, Piece
            <7> QED
              BY <7>1, <7>3
          <6>2. PICK e \in Seq(S) : e = SubSeq(whats, 1, j)
            <7>1. PICK p \in Int, q \in Int : p = 1 /\ q = j
              OBVIOUS
            <7>2. 1 <= p /\ q <= Len(whats) /\ p <= q + 1
              BY <1>2, <7>1
            <7>3. SubSeq(whats, p, q) \in Seq(S)
              BY <7>2, Piece
            <7> QED
              BY <7>1, <7>3
          <6>3. Len(d) = j - 1 /\ Len(e) = j
            BY <1>2, <6>1, <6>2
          <6>4. \A i2 \in 1..j : e[i2] = whats[i2]
            BY <1>2, <6>2
          <6>5. \A i2 \in 1..(j - 1) : d[i2] = whats[i2]
            BY <1>2, <6>1
          <6>6. PICK b \in S : b = whats[j]
            BY <1>2, ElementOfSeq
          <6>7. PICK r : r = Append(d, b)
            OBVIOUS
          <6>8. r \in Seq(S) /\ Len(r) = j /\ \A i2 \in 1..j : r[i2] = whats[i2]
            BY <6>3, <6>5, <6>6, <6>7
          <6>9. r = e
            <7>1. r = [i2 \in 1..j |-> r[i2]] /\ e = [i2 \in 1..j |-> e[i2]]
              BY <6>2, <6>3, <6>8
            <7> QED
              BY <6>4, <6>8, <7>1
          <6> QED
            BY <6>1, <6>2, <6>6, <6>7, <6>9
        <5>3. g[i] = a \o SubSeq(whats, 1, j)
          <6>1. i \in 0..(L + M) /\ ~(i <= L) /\ i - L = j
            BY <3>2, <4>1
          <6> QED
            BY <1>5, <4>4, <5>1, <6>1
        <5>4. g[i - 1] = a \o SubSeq(whats, 1, j - 1)
          <6>1. CASE j = 1
            <7>1. i - 1 = L /\ L \in 0..(L + M)
              BY <4>1, <6>1
            <7>2. g[L] = f[L]
              BY <1>5, <7>1
            <7>3. SubSeq(whats, 1, 0) = <<>>
              BY <1>2
            <7>4. a \o <<>> = a
              OBVIOUS
            <7> QED
              BY <5>1, <6>1, <7>1, <7>2, <7>3, <7>4
          <6>2. CASE j # 1
            <7>1. i - 1 \in 0..(L + M) /\ ~(i - 1 <= L) /\ (i - 1) - L = j - 1
              BY <4>1, <6>2
            <7> QED
              BY <1>5, <4>4, <5>1, <7>1
          <6> QED
            BY <6>1, <6>2
        <5>5. PICK d \in Seq(S), b \in S : d = SubSeq(whats, 1, j - 1) /\ b = whats[j]
          <6>1. whats[j] \in S
            BY <1>2, ElementOfSeq
          <6> QED
            BY <5>2, <6>1
        <5>6. a \o Append(d, b) = Append(a \o d, b)
          OBVIOUS
        <5>7. g[i] = Append(g[i - 1], whats[j])
          BY <5>2, <5>3, <5>4, <5>5, <5>6
        <5> QED
          BY <4>2, <4>4, <5>7
      <4> QED
        BY <4>3, <4>4
    <3> QED
      BY <3>1, <3>2
  <2> HIDE DEF Step
  <2>3. g = [i \in 0..(L + M) |-> g[i]]
    BY <1>5
  <2>4. g = [i \in 0..(L + M) |-> Step(g, v, i)]
    BY <2>2, <2>3
  <2> QED
    BY <2>4 DEF Gathers, Step
<1>7. Written(v, n) = g[L + M]
  <2>1. Len(v) \in Nat /\ Gathers(g, v, n, Len(v))
    BY <1>4, <1>6
  <2>2. Written(v, n) = g[Len(v)]
    BY <2>1, WrittenIs
  <2> QED
    BY <1>4, <2>2
<1>8. Written(w, n) = f[L]
  <2>1. Len(w) \in Nat
    BY <1>2
  <2> QED
    BY <1>1, <1>2, <2>1, WrittenIs
<1>9. g[L + M] = IF m = n THEN f[L] \o whats ELSE f[L]
  <2>1. CASE M = 0
    <3>1. whats = <<>>
      BY <1>2, <2>1, EmptySeq
    <3>2. g[L + M] = f[L]
      BY <1>5, <2>1
    <3>3. PICK a \in Seq(S) : a = f[L]
      BY <1>1, <1>2
    <3>4. a \o <<>> = a
      OBVIOUS
    <3> QED
      BY <3>1, <3>2, <3>3, <3>4
  <2>2. CASE M # 0
    <3>1. L + M \in 0..(L + M) /\ ~(L + M <= L) /\ (L + M) - L = M
      BY <2>2
    <3>2. SubSeq(whats, 1, M) = whats
      BY <1>2, SubSeqFull
    <3> QED
      BY <1>5, <3>1, <3>2
  <2> QED
    BY <2>1, <2>2
<1> QED
  BY <1>3, <1>7, <1>8, <1>9

-----------------------------------------------------------------------------
(* The tokens a client sends *)

\* A sequence over a set is one over a larger set.
LEMMA Wider ==
    ASSUME NEW T, NEW U, T \subseteq U, NEW s \in Seq(T)
    PROVE  s \in Seq(U)
OBVIOUS

Cat(s, t) == s \o t

LEMMA CatAssociates ==
    ASSUME NEW U, NEW x \in Seq(U), NEW y \in Seq(U), NEW z \in Seq(U)
    PROVE  Cat(Cat(x, y), z) = Cat(x, Cat(y, z)) /\ Cat(x, y) \in Seq(U)
BY DEF Cat

Kinds == {"url", "field", "value", "headersEnd", "body", "end"}

\* What a text is cut into, and the arguments of the tokens of a request.
PiecesOf(text) == {<<text[k]>> : k \in DOMAIN text}
HeaderArgs(hs) == UNION {PiecesOf(hs[j].name) \cup PiecesOf(hs[j].value) : j \in DOMAIN hs}
Args(r) == {<<>>, r} \cup PiecesOf(r.url) \cup PiecesOf(r.body) \cup HeaderArgs(r.headers) \cup HeaderArgs(r.trailers)

\* The tokens of request i with an argument of A, and those among them that do not begin it.
AllOf(i, A) == [of : {i}, kind : Kinds \cup {"begin"}, arg : A]
Plain(i, A) == [of : {i}, kind : Kinds, arg : A]

LEMMA CutType ==
    ASSUME NEW i, NEW A, NEW kind \in Kinds, NEW text, IsText(text), PiecesOf(text) \subseteq A
    PROVE  Cut(i, kind, text) \in Seq(Plain(i, A))
<1>1. PICK L \in Nat : L = Len(text) /\ DOMAIN text = 1..L
  BY DEF IsText
<1>2. \A j \in 1..L : Token(i, kind, <<text[j]>>) \in Plain(i, A)
  <2>1. \A j \in 1..L : <<text[j]>> \in A
    BY <1>1 DEF PiecesOf
  <2> QED
    BY <2>1 DEF Plain, Token
<1>3. Cut(i, kind, text) = [j \in 1..L |-> Token(i, kind, <<text[j]>>)]
  BY <1>1 DEF Cut
<1> HIDE DEF Token
<1> QED
  BY <1>2, <1>3

LEMMA HeaderTokensType ==
    ASSUME NEW i, NEW A, <<>> \in A, NEW h, IsText(h.name), IsText(h.value),
           PiecesOf(h.name) \subseteq A, PiecesOf(h.value) \subseteq A
    PROVE  HeaderTokens(i, h) \in Seq(Plain(i, A))
<1>1. PICK a \in Seq(Plain(i, A)) : a = Cut(i, "field", h.name)
  <2>1. "field" \in Kinds
    BY DEF Kinds
  <2> QED
    BY <2>1, CutType
<1>2. PICK b \in Seq(Plain(i, A)) : b = Cut(i, "value", h.value)
  <2>1. "value" \in Kinds
    BY DEF Kinds
  <2> QED
    BY <2>1, CutType
<1>3. PICK d \in Seq(Plain(i, A)) : d = <<Token(i, "value", <<>>)>>
  <2>1. Token(i, "value", <<>>) \in Plain(i, A)
    BY DEF Token, Plain, Kinds
  <2>2. \A y \in Plain(i, A) : <<y>> \in Seq(Plain(i, A))
    OBVIOUS
  <2> QED
    BY <2>1, <2>2
<1>4. a \o b \in Seq(Plain(i, A)) /\ a \o d \in Seq(Plain(i, A))
  OBVIOUS
<1> QED
  BY <1>1, <1>2, <1>3, <1>4 DEF HeaderTokens

LEMMA AllHeadersType ==
    ASSUME NEW i, NEW A, <<>> \in A, NEW hs, AreHeaders(hs), HeaderArgs(hs) \subseteq A
    PROVE  AllHeaders(i, hs) \in Seq(Plain(i, A))
<1>1. PICK L \in Nat : L = Len(hs) /\ DOMAIN hs = 1..L
  BY DEF AreHeaders, IsText
<1>2. ASSUME NEW j \in 1..L PROVE HeaderTokens(i, hs[j]) \in Seq(Plain(i, A))
  <2>1. PICK h : h = hs[j]
    OBVIOUS
  <2>2. IsText(h.name) /\ IsText(h.value)
    BY <1>1, <2>1 DEF AreHeaders
  <2>3. PiecesOf(h.name) \subseteq A /\ PiecesOf(h.value) \subseteq A
    BY <1>1, <2>1 DEF HeaderArgs
  <2>4. HeaderTokens(i, h) \in Seq(Plain(i, A))
    BY <2>2, <2>3, HeaderTokensType
  <2> QED
    BY <2>1, <2>4
<1>3. [j \in 1..L |-> HeaderTokens(i, hs[j])] \in Seq(Seq(Plain(i, A)))
  BY <1>2
<1>4. FlattenSeq([j \in 1..L |-> HeaderTokens(i, hs[j])]) \in Seq(Plain(i, A))
  BY <1>3, JoinedType
<1> QED
  BY <1>1, <1>4 DEF AllHeaders

\* A sequence of tokens of which the first, and no other, begins a request.
OneBegin(s) ==
    /\ Len(s) >= 1 /\ s[1].kind = "begin"
    /\ \A k \in 2..Len(s) : s[k].kind # "begin"

LEMMA MorePlain ==
    ASSUME NEW i, NEW A, NEW s \in Seq(AllOf(i, A)), OneBegin(s), NEW p \in Seq(Plain(i, A))
    PROVE  s \o p \in Seq(AllOf(i, A)) /\ OneBegin(s \o p)
<1>1. p \in Seq(AllOf(i, A))
  <2>1. \A x \in Plain(i, A) : x \in AllOf(i, A)
    BY DEF Plain, AllOf
  <2>2. PICK P, Q : P = Plain(i, A) /\ Q = AllOf(i, A)
    OBVIOUS
  <2>3. p \in Seq(P) /\ P \subseteq Q
    BY <2>1, <2>2
  <2>4. p \in Seq(Q)
    BY <2>3
  <2> QED
    BY <2>2, <2>4
<1>2. PICK Q : Q = AllOf(i, A)
  OBVIOUS
<1>3. PICK M \in Nat, L \in Nat : M = Len(s) /\ L = Len(p) /\ M >= 1
  BY LenProperties DEF OneBegin
<1>4. PICK u \in Seq(Q) : u = s \o p
  <2>1. s \in Seq(Q) /\ p \in Seq(Q)
    BY <1>1, <1>2
  <2>2. s \o p \in Seq(Q)
    BY <2>1
  <2> QED
    BY <2>2
<1>5. Len(u) = M + L /\ \A k \in 1..(M + L) : u[k] = IF k <= M THEN s[k] ELSE p[k - M]
  BY <1>1, <1>2, <1>3, <1>4
<1>6. \A k \in 1..L : p[k].kind # "begin"
  <2>1. \A k \in 1..L : p[k] \in Plain(i, A)
    BY <1>3
  <2>2. "begin" \notin Kinds
    BY DEF Kinds
  <2> QED
    BY <2>1, <2>2 DEF Plain
<1>7. u[1].kind = "begin"
  BY <1>3, <1>5 DEF OneBegin
<1>8. ASSUME NEW k \in 2..(M + L) PROVE u[k].kind # "begin"
  <2>1. CASE k <= M
    BY <1>3, <1>5, <2>1 DEF OneBegin
  <2>2. CASE ~(k <= M)
    <3>1. k - M \in 1..L /\ k \in 1..(M + L)
      BY <1>3, <2>2
    <3> QED
      BY <1>5, <1>6, <2>2, <3>1
  <2> QED
    BY <2>1, <2>2
<1>9. OneBegin(u)
  BY <1>3, <1>5, <1>7, <1>8 DEF OneBegin
<1> QED
  BY <1>2, <1>4, <1>9

IsRequest(r) ==
    /\ IsText(r.url) /\ IsText(r.body)
    /\ AreHeaders(r.headers) /\ AreHeaders(r.trailers)

\* The tokens of a request are its own, and only the first begins it.
LEMMA TokensType ==
    ASSUME NEW i, NEW r, IsRequest(r)
    PROVE  Tokens(i, r) \in Seq(AllOf(i, Args(r))) /\ OneBegin(Tokens(i, r))
<1>1. PICK A : A = Args(r)
  OBVIOUS
<1>2. /\ <<>> \in A /\ r \in A
      /\ PiecesOf(r.url) \subseteq A /\ PiecesOf(r.body) \subseteq A
      /\ HeaderArgs(r.headers) \subseteq A /\ HeaderArgs(r.trailers) \subseteq A
  BY <1>1 DEF Args
<1>3. PICK t1 \in Seq(AllOf(i, A)) : t1 = <<Token(i, "begin", <<>>)>> /\ OneBegin(t1)
  <2>1. Token(i, "begin", <<>>) \in AllOf(i, A) /\ Token(i, "begin", <<>>).kind = "begin"
    BY <1>2 DEF Token, AllOf
  <2>2. PICK x \in AllOf(i, A) : x = Token(i, "begin", <<>>) /\ x.kind = "begin"
    BY <2>1
  <2>3. <<x>> \in Seq(AllOf(i, A)) /\ Len(<<x>>) = 1 /\ <<x>>[1] = x
    OBVIOUS
  <2>4. PICK t : t = <<x>>
    OBVIOUS
  <2>5. t \in Seq(AllOf(i, A)) /\ Len(t) = 1 /\ t[1].kind = "begin"
    BY <2>2, <2>3, <2>4
  <2>6. OneBegin(t)
    BY <2>5 DEF OneBegin
  <2>7. t = <<Token(i, "begin", <<>>)>>
    BY <2>2, <2>4
  <2> QED
    BY <2>5, <2>6, <2>7
<1>4. PICK p2 \in Seq(Plain(i, A)) : p2 = Cut(i, "url", r.url)
  <2>1. "url" \in Kinds /\ IsText(r.url)
    BY DEF Kinds, IsRequest
  <2> QED
    BY <1>2, <2>1, CutType
<1>5. PICK p3 \in Seq(Plain(i, A)) : p3 = AllHeaders(i, r.headers)
  <2>1. AreHeaders(r.headers)
    BY DEF IsRequest
  <2> QED
    BY <1>2, <2>1, AllHeadersType
<1>6. PICK p4 \in Seq(Plain(i, A)) : p4 = <<Token(i, "headersEnd", r)>>
  <2>1. Token(i, "headersEnd", r) \in Plain(i, A)
    BY <1>2 DEF Token, Plain, Kinds
  <2>2. \A y \in Plain(i, A) : <<y>> \in Seq(Plain(i, A))
    OBVIOUS
  <2> QED
    BY <2>1, <2>2
<1>7. PICK p5 \in Seq(Plain(i, A)) : p5 = Cut(i, "body", r.body)
  <2>1. "body" \in Kinds /\ IsText(r.body)
    BY DEF Kinds, IsRequest
  <2> QED
    BY <1>2, <2>1, CutType
<1>8. PICK p6 \in Seq(Plain(i, A)) : p6 = AllHeaders(i, r.trailers)
  <2>1. AreHeaders(r.trailers)
    BY DEF IsRequest
  <2> QED
    BY <1>2, <2>1, AllHeadersType
<1>9. PICK p7 \in Seq(Plain(i, A)) : p7 = <<Token(i, "end", <<>>)>>
  <2>1. Token(i, "end", <<>>) \in Plain(i, A)
    BY <1>2 DEF Token, Plain, Kinds
  <2>2. \A y \in Plain(i, A) : <<y>> \in Seq(Plain(i, A))
    OBVIOUS
  <2> QED
    BY <2>1, <2>2
<1>10. PICK t2 \in Seq(AllOf(i, A)) : t2 = t1 \o p2 /\ OneBegin(t2)
  BY <1>3, MorePlain
<1>11. PICK t3 \in Seq(AllOf(i, A)) : t3 = t2 \o p3 /\ OneBegin(t3)
  BY <1>10, MorePlain
<1>12. PICK t4 \in Seq(AllOf(i, A)) : t4 = t3 \o p4 /\ OneBegin(t4)
  BY <1>11, MorePlain
<1>13. PICK t5 \in Seq(AllOf(i, A)) : t5 = t4 \o p5 /\ OneBegin(t5)
  BY <1>12, MorePlain
<1>14. PICK t6 \in Seq(AllOf(i, A)) : t6 = t5 \o p6 /\ OneBegin(t6)
  BY <1>13, MorePlain
<1>15. PICK t7 \in Seq(AllOf(i, A)) : t7 = t6 \o p7 /\ OneBegin(t7)
  BY <1>14, MorePlain
<1>16. Tokens(i, r) = t7
  BY <1>3, <1>4, <1>5, <1>6, <1>7, <1>8, <1>9, <1>10, <1>11, <1>12, <1>13, <1>14, <1>15 DEF Tokens
<1> QED
  BY <1>1, <1>15, <1>16

-----------------------------------------------------------------------------
(* The beginnings of requests rise *)

\* The requests that begin in s come after request lo, up to hi, and in order.
Rises(s, lo, hi) ==
    \A i \in 1..Len(s) : s[i].kind = "begin" =>
        /\ s[i].of \in (lo + 1)..hi
        /\ \A k \in 1..Len(s) : (k > i /\ s[k].kind = "begin") => s[i].of < s[k].of

LEMMA TokensRise ==
    ASSUME NEW i \in Nat, NEW r, IsRequest(r)
    PROVE  Rises(Tokens(i + 1, r), i, i + 1)
<1>1. PICK t : t = Tokens(i + 1, r)
  OBVIOUS
<1>2. PICK A : t \in Seq(AllOf(i + 1, A)) /\ OneBegin(t)
  BY <1>1, TokensType
<1>3. PICK L \in Nat : L = Len(t)
  BY <1>2, LenProperties
<1>4. \A k \in 1..L : t[k].of = i + 1
  <2>1. \A k \in 1..L : t[k] \in AllOf(i + 1, A)
    BY <1>2, <1>3
  <2> QED
    BY <2>1 DEF AllOf
<1>5. ASSUME NEW k \in 1..L, t[k].kind = "begin" PROVE k = 1
  <2>1. k # 1 => k \in 2..L
    OBVIOUS
  <2> QED
    BY <1>2, <1>3, <1>5, <2>1 DEF OneBegin
<1>6. i + 1 \in (i + 1)..(i + 1)
  OBVIOUS
<1>7. Rises(t, i, i + 1)
  BY <1>3, <1>4, <1>5, <1>6 DEF Rises
<1> QED
  BY <1>1, <1>7

LEMMA RisesJoined ==
    ASSUME NEW T, NEW s \in Seq(T), NEW u \in Seq(T), NEW lo \in Nat, NEW mid \in Nat, NEW hi \in Nat,
           lo <= mid, mid <= hi, Rises(s, lo, mid), Rises(u, mid, hi)
    PROVE  Rises(s \o u, lo, hi)
<1>1. PICK M \in Nat, L \in Nat : M = Len(s) /\ L = Len(u)
  BY LenProperties
<1>2. PICK w \in Seq(T) : w = s \o u
  <2>1. s \o u \in Seq(T)
    OBVIOUS
  <2> QED
    BY <2>1
<1>3. Len(w) = M + L /\ \A k \in 1..(M + L) : w[k] = IF k <= M THEN s[k] ELSE u[k - M]
  BY <1>1, <1>2
<1>4. \A k \in 1..M : s[k].kind = "begin" => s[k].of \in (lo + 1)..mid
  BY <1>1 DEF Rises
<1>5. \A k \in 1..L : u[k].kind = "begin" => u[k].of \in (mid + 1)..hi
  BY <1>1 DEF Rises
<1>6. ASSUME NEW i \in 1..(M + L), w[i].kind = "begin"
      PROVE  /\ w[i].of \in (lo + 1)..hi
             /\ \A k \in 1..(M + L) : (k > i /\ w[k].kind = "begin") => w[i].of < w[k].of
  <2>1. CASE i <= M
    <3>1. i \in 1..M /\ w[i] = s[i]
      <4>1. i \in 1..M
        BY <2>1
      <4>2. w[i] = s[i]
        BY <1>3, <2>1
      <4> QED
        BY <4>1, <4>2
    <3>2. s[i].of \in (lo + 1)..mid
      BY <1>4, <1>6, <3>1
    <3>3. ASSUME NEW k \in 1..(M + L), k > i, w[k].kind = "begin" PROVE w[i].of < w[k].of
      <4>1. CASE k <= M
        <5>1. k \in 1..M /\ w[k] = s[k]
          BY <1>3, <4>1
        <5> QED
          BY <1>1, <1>6, <3>1, <3>3, <5>1 DEF Rises
      <4>2. CASE ~(k <= M)
        <5>1. k - M \in 1..L /\ w[k] = u[k - M]
          BY <1>3, <4>2
        <5>2. w[k].of \in (mid + 1)..hi
          BY <1>5, <3>3, <5>1
        <5>3. PICK x \in (lo + 1)..mid : x = w[i].of
          BY <3>1, <3>2
        <5>4. PICK y \in (mid + 1)..hi : y = w[k].of
          BY <5>2
        <5>5. x < y
          OBVIOUS
        <5> QED
          BY <5>3, <5>4, <5>5
      <4> QED
        BY <4>1, <4>2
    <3>4. w[i].of \in (lo + 1)..hi
      BY <3>1, <3>2
    <3> QED
      BY <3>3, <3>4
  <2>2. CASE ~(i <= M)
    <3>1. i - M \in 1..L /\ w[i] = u[i - M]
      BY <1>3, <2>2
    <3>2. u[i - M].of \in (mid + 1)..hi
      BY <1>5, <1>6, <3>1
    <3>3. ASSUME NEW k \in 1..(M + L), k > i, w[k].kind = "begin" PROVE w[i].of < w[k].of
      <4>1. k - M \in 1..L /\ w[k] = u[k - M] /\ k - M > i - M
        BY <1>3, <2>2, <3>3
      <4> QED
        BY <1>1, <1>6, <3>1, <3>3, <4>1 DEF Rises
    <3>4. w[i].of \in (lo + 1)..hi
      BY <3>1, <3>2
    <3> QED
      BY <3>3, <3>4
  <2> QED
    BY <2>1, <2>2
<1>7. Rises(w, lo, hi)
  BY <1>3, <1>6 DEF Rises
<1> QED
  BY <1>2, <1>7

\* What is left when the first tokens are gone, up to the beginning of request `mid`.
LEMMA RisesLeft ==
    ASSUME NEW T, NEW s \in Seq(T), NEW u \in Seq(T), NEW lo \in Nat, NEW hi \in Nat,
           Rises(s \o u, lo, hi)
    PROVE  /\ Rises(u, lo, hi)
           /\ \A i \in 1..Len(s) : s[i].kind = "begin" =>
                 s[i].of \in (lo + 1)..hi /\ Rises(u, s[i].of, hi)
<1>1. PICK M \in Nat, L \in Nat : M = Len(s) /\ L = Len(u)
  BY LenProperties
<1>2. PICK w \in Seq(T) : w = s \o u
  <2>1. s \o u \in Seq(T)
    OBVIOUS
  <2> QED
    BY <2>1
<1>3. Len(w) = M + L /\ \A k \in 1..(M + L) : w[k] = IF k <= M THEN s[k] ELSE u[k - M]
  BY <1>1, <1>2
<1>4. \A k \in 1..L : M + k \in 1..(M + L) /\ w[M + k] = u[k]
  <2>1. \A k \in 1..L : M + k \in 1..(M + L) /\ ~(M + k <= M) /\ (M + k) - M = k
    OBVIOUS
  <2> QED
    BY <1>3, <2>1
<1>5. \A k \in 1..M : k \in 1..(M + L) /\ w[k] = s[k]
  BY <1>3
<1>6. Rises(w, lo, hi)
  BY <1>2
<1>7. \A i \in 1..(M + L) : w[i].kind = "begin" =>
        /\ w[i].of \in (lo + 1)..hi
        /\ \A k \in 1..(M + L) : (k > i /\ w[k].kind = "begin") => w[i].of < w[k].of
  BY <1>3, <1>6 DEF Rises
<1>8. ASSUME NEW i \in 1..L, u[i].kind = "begin"
      PROVE  /\ u[i].of \in (lo + 1)..hi
             /\ \A k \in 1..L : (k > i /\ u[k].kind = "begin") => u[i].of < u[k].of
  <2>1. ASSUME NEW k \in 1..L, k > i, u[k].kind = "begin" PROVE u[i].of < u[k].of
    <3>1. M + k > M + i
      BY <2>1
    <3> QED
      BY <1>4, <1>7, <1>8, <2>1, <3>1
  <2>2. u[i].of \in (lo + 1)..hi
    BY <1>4, <1>7, <1>8
  <2> QED
    BY <2>1, <2>2
<1>9. Rises(u, lo, hi)
  BY <1>1, <1>8 DEF Rises
<1>10. ASSUME NEW j \in 1..M, s[j].kind = "begin"
       PROVE  s[j].of \in (lo + 1)..hi /\ Rises(u, s[j].of, hi)
  <2>1. s[j].of \in (lo + 1)..hi
    BY <1>5, <1>7, <1>10
  <2>2. PICK b \in Int : b = s[j].of
    BY <2>1
  <2>3. ASSUME NEW i \in 1..L, u[i].kind = "begin" PROVE u[i].of \in (b + 1)..hi
    <3>1. M + i > j
      BY <1>1
    <3>2. s[j].of < u[i].of
      BY <1>4, <1>5, <1>7, <1>10, <2>3, <3>1
    <3> QED
      BY <1>8, <2>2, <2>3, <3>2
  <2>4. Rises(u, b, hi)
    BY <1>1, <1>8, <2>3 DEF Rises
  <2> QED
    BY <2>1, <2>2, <2>4
<1> QED
  BY <1>1, <1>9, <1>10

-----------------------------------------------------------------------------
(* What a response is worth *)

Whats == {"100", "crlf", "status", "length", "length 0", "chunked", "size", "last", "error"}
         \cup {BodyPieces[i] : i \in DOMAIN BodyPieces}

IsGiven(g) ==
    /\ DOMAIN g = {"interim", "headers", "http10", "pieces", "ended"}
    /\ g.interim \in BOOLEAN /\ g.ended \in BOOLEAN
    /\ g.headers \in {"none", "only", "length", "plain"} /\ g.pieces \in Seq(Whats)
    /\ g.headers \in {"none", "only"} => g.pieces = <<>>
    /\ g.headers = "none" => ~g.ended
    /\ g.headers = "only" => g.ended

\* The parts of ResponseItems.
IsChunked(g) == g.headers = "plain" /\ ~g.http10
FrameOf(g, p) == IF IsChunked(g) THEN <<"size", p, "crlf">> ELSE <<p>>
Interim(g) == IF g.interim THEN <<"100", "crlf">> ELSE <<>>
HeadOf(g) ==
    CASE g.headers = "none" -> <<>>
      [] g.headers = "only" -> <<"status", "length 0", "crlf">>
      [] g.headers = "length" -> <<"status", "length", "crlf">>
      [] g.headers = "plain" -> <<"status">> \o (IF IsChunked(g) THEN <<"chunked">> ELSE <<>>) \o <<"crlf">>
FramesOf(g) == [i \in DOMAIN g.pieces |-> FrameOf(g, g.pieces[i])]
BodyOf(g) == FlattenSeq(FramesOf(g))
EndOf(g) == IF g.ended /\ IsChunked(g) THEN <<"last">> ELSE <<>>

LEMMA ItemsInParts ==
    ASSUME NEW g
    PROVE  ResponseItems(g) = Interim(g) \o HeadOf(g) \o BodyOf(g) \o EndOf(g)
BY DEF ResponseItems, Interim, HeadOf, BodyOf, EndOf, FramesOf, FrameOf, IsChunked

LEMMA FramedOne ==
    ASSUME NEW g, NEW p \in Whats
    PROVE  FrameOf(g, p) \in Seq(Whats)
<1>1. PICK x \in Whats, y \in Whats : x = "size" /\ y = "crlf"
  BY DEF Whats
<1>2. <<x, p, y>> \in Seq(Whats) /\ <<p>> \in Seq(Whats)
  OBVIOUS
<1>3. <<"size", p, "crlf">> \in Seq(Whats)
  BY <1>1, <1>2
<1> QED
  BY <1>2, <1>3 DEF FrameOf

LEMMA InterimType == ASSUME NEW g PROVE Interim(g) \in Seq(Whats)
<1>1. PICK x \in Whats, y \in Whats : x = "100" /\ y = "crlf"
  BY DEF Whats
<1>2. <<x, y>> \in Seq(Whats) /\ <<>> \in Seq(Whats)
  OBVIOUS
<1> QED
  BY <1>1, <1>2 DEF Interim

LEMMA HeadType ==
    ASSUME NEW g, g.headers \in {"none", "only", "length", "plain"}
    PROVE  HeadOf(g) \in Seq(Whats)
<1>1. PICK x \in Whats, y \in Whats, z \in Whats, u \in Whats, v \in Whats :
         x = "status" /\ y = "crlf" /\ z = "length" /\ u = "length 0" /\ v = "chunked"
  BY DEF Whats
<1>2. <<x, z, y>> \in Seq(Whats) /\ <<x, u, y>> \in Seq(Whats) /\ <<>> \in Seq(Whats)
  OBVIOUS
<1>3. <<x>> \o <<v>> \o <<y>> \in Seq(Whats) /\ <<x>> \o <<>> \o <<y>> \in Seq(Whats)
  OBVIOUS
<1>4. <<"status">> \o (IF IsChunked(g) THEN <<"chunked">> ELSE <<>>) \o <<"crlf">> \in Seq(Whats)
  BY <1>1, <1>3
<1> QED
  BY <1>1, <1>2, <1>4 DEF HeadOf

LEMMA EndType == ASSUME NEW g PROVE EndOf(g) \in Seq(Whats)
<1>1. PICK x \in Whats : x = "last"
  BY DEF Whats
<1>2. <<x>> \in Seq(Whats) /\ <<>> \in Seq(Whats)
  OBVIOUS
<1> QED
  BY <1>1, <1>2 DEF EndOf

LEMMA FramedType ==
    ASSUME NEW g, g.pieces \in Seq(Whats)
    PROVE  FramesOf(g) \in Seq(Seq(Whats)) /\ BodyOf(g) \in Seq(Whats)
<1>1. PICK L \in Nat : L = Len(g.pieces) /\ DOMAIN g.pieces = 1..L
  BY LenProperties
<1>2. \A i \in 1..L : FrameOf(g, g.pieces[i]) \in Seq(Whats)
  <2>1. \A i \in 1..L : g.pieces[i] \in Whats
    BY <1>1
  <2> QED
    BY <2>1, FramedOne
<1>3. FramesOf(g) = [i \in 1..L |-> FrameOf(g, g.pieces[i])]
  BY <1>1 DEF FramesOf
<1>4. FramesOf(g) \in Seq(Seq(Whats))
  BY <1>2, <1>3
<1>5. FlattenSeq(FramesOf(g)) \in Seq(Whats)
  BY <1>4, JoinedType
<1> QED
  BY <1>4, <1>5 DEF BodyOf

LEMMA NoBody ==
    ASSUME NEW g, g.pieces = <<>>
    PROVE  BodyOf(g) = <<>>
<1>1. DOMAIN g.pieces = {}
  OBVIOUS
<1>2. PICK f : f = FramesOf(g)
  OBVIOUS
<1>3. f \in Seq(Whats) /\ Len(f) = 0
  <2>1. f = [i \in 1..0 |-> FrameOf(g, g.pieces[i])]
    BY <1>1, <1>2 DEF FramesOf
  <2>2. \A i \in 1..0 : FrameOf(g, g.pieces[i]) \in Whats
    OBVIOUS
  <2> QED
    BY <2>1, <2>2
<1>4. f = <<>>
  BY <1>3, EmptySeq
<1>5. FlattenSeq(f) = f
  BY <1>3 DEF FlattenSeq
<1> QED
  BY <1>2, <1>4, <1>5 DEF BodyOf

LEMMA BodyMore ==
    ASSUME NEW g, NEW h, NEW p \in Whats, g.pieces \in Seq(Whats),
           h.headers = g.headers, h.http10 = g.http10, h.pieces = g.pieces \o <<p>>
    PROVE  BodyOf(h) = BodyOf(g) \o FrameOf(g, p)
<1>1. PICK L \in Nat : L = Len(g.pieces) /\ DOMAIN g.pieces = 1..L
  BY LenProperties
<1>2. PICK a \in Seq(Whats), b \in Seq(Whats) : a = g.pieces /\ b = h.pieces /\ b = a \o <<p>>
  <2>1. PICK a \in Seq(Whats) : a = g.pieces
    OBVIOUS
  <2>2. a \o <<p>> \in Seq(Whats)
    OBVIOUS
  <2> QED
    BY <2>1, <2>2
<1>3. /\ DOMAIN b = 1..(L + 1) /\ \A i \in 1..L : b[i] = a[i]
      /\ b[L + 1] = p
  BY <1>1, <1>2
<1>4. IsChunked(h) = IsChunked(g)
  BY DEF IsChunked
<1>5. \A q : FrameOf(h, q) = FrameOf(g, q)
  BY <1>4 DEF FrameOf
<1>6. FramesOf(h) = [i \in 1..(L + 1) |-> FrameOf(g, b[i])]
  BY <1>2, <1>3, <1>5 DEF FramesOf
<1>7. FramesOf(g) = [i \in 1..L |-> FrameOf(g, a[i])]
  BY <1>1, <1>2 DEF FramesOf
<1>8. PICK f \in Seq(Seq(Whats)), s \in Seq(Whats) : f = FramesOf(g) /\ s = FrameOf(g, p)
  <2>1. FramesOf(g) \in Seq(Seq(Whats))
    BY FramedType
  <2>2. FrameOf(g, p) \in Seq(Whats)
    BY FramedOne
  <2> QED
    BY <2>1, <2>2
<1>9. FramesOf(h) = Append(f, s)
  <2>1. Len(f) = L /\ \A i \in 1..L : f[i] = FrameOf(g, a[i])
    BY <1>7, <1>8
  <2>2. PICK u : u = Append(f, s)
    OBVIOUS
  <2>3. /\ u \in Seq(Seq(Whats)) /\ DOMAIN u = 1..(L + 1)
        /\ \A i \in 1..L : u[i] = f[i]
        /\ u[L + 1] = s
    BY <2>1, <2>2
  <2>4. \A i \in 1..(L + 1) : u[i] = FrameOf(g, b[i])
    <3>1. ASSUME NEW i \in 1..(L + 1) PROVE u[i] = FrameOf(g, b[i])
      <4>1. CASE i \in 1..L
        <5>1. u[i] = f[i] /\ b[i] = a[i]
          BY <1>3, <2>3, <4>1
        <5>2. f[i] = FrameOf(g, a[i])
          BY <2>1, <4>1
        <5> QED
          BY <5>1, <5>2
      <4>2. CASE i = L + 1
        BY <1>3, <1>8, <2>3, <4>2
      <4> QED
        BY <4>1, <4>2
    <3> QED
      BY <3>1
  <2>5. u = [i \in 1..(L + 1) |-> u[i]]
    BY <2>3
  <2> QED
    BY <1>6, <2>2, <2>4, <2>5
<1>10. FlattenSeq(Append(f, s)) = FlattenSeq(f) \o s
  BY JoinedAppend
<1> QED
  BY <1>8, <1>9, <1>10 DEF BodyOf

\* The headers of a response, or the interim ones, add what the encoder writes for them.
LEMMA HeadersAdded ==
    ASSUME NEW g, NEW h, IsGiven(g), g.headers = "none", IsGiven(h), h.interim = g.interim,
           h.headers # "none", h.pieces = <<>>, ~(h.ended /\ IsChunked(h))
    PROVE  ResponseItems(h) = ResponseItems(g) \o HeadOf(h)
<1>1. PICK i \in Seq(Whats) : i = Interim(g) /\ i = Interim(h)
  <2>1. Interim(h) = Interim(g)
    BY DEF Interim
  <2> QED
    BY <2>1, InterimType
<1>2. PICK d \in Seq(Whats) : d = HeadOf(h)
  BY HeadType DEF IsGiven
<1>3. BodyOf(g) = <<>> /\ BodyOf(h) = <<>>
  BY NoBody DEF IsGiven
<1>4. EndOf(g) = <<>> /\ EndOf(h) = <<>>
  BY DEF EndOf, IsGiven
<1>5. HeadOf(g) = <<>>
  BY DEF HeadOf
<1>6. i \o d \o <<>> \o <<>> = (i \o <<>> \o <<>> \o <<>>) \o d
  OBVIOUS
<1> QED
  BY <1>1, <1>2, <1>3, <1>4, <1>5, <1>6, ItemsInParts

LEMMA InterimAdded ==
    ASSUME NEW g, NEW h, IsGiven(g), g.headers = "none", ~g.interim, IsGiven(h), h.interim,
           h.headers = "none"
    PROVE  ResponseItems(h) = ResponseItems(g) \o <<"100", "crlf">>
<1>1. BodyOf(g) = <<>> /\ BodyOf(h) = <<>>
  BY NoBody DEF IsGiven
<1>2. EndOf(g) = <<>> /\ EndOf(h) = <<>>
  BY DEF EndOf, IsGiven
<1>3. HeadOf(g) = <<>> /\ HeadOf(h) = <<>>
  BY DEF HeadOf
<1>4. Interim(g) = <<>> /\ Interim(h) = <<"100", "crlf">>
  BY DEF Interim
<1>5. PICK d \in Seq(Whats) : d = <<"100", "crlf">>
  BY <1>4, InterimType
<1>6. d \o <<>> \o <<>> \o <<>> = (<<>> \o <<>> \o <<>> \o <<>>) \o d
  OBVIOUS
<1> QED
  BY <1>1, <1>2, <1>3, <1>4, <1>5, <1>6, ItemsInParts

\* Data, and the end of a response, add what the encoder writes for them.
\* The response h is g with no more pieces or with p, which is a chunk on the wire.
AddsData(g, h, p, chunk) ==
    /\ IsGiven(g) /\ g.headers # "none" /\ ~g.ended /\ IsGiven(h)
    /\ h.interim = g.interim /\ h.headers = g.headers /\ h.http10 = g.http10
    /\ p \in Whats
    /\ \/ h.pieces = g.pieces /\ chunk = <<>>
       \/ h.pieces = g.pieces \o <<p>> /\ chunk = FrameOf(g, p)

LEMMA DataAdded ==
    ASSUME NEW g, NEW h, NEW p, NEW chunk, AddsData(g, h, p, chunk)
    PROVE  ResponseItems(h) = ResponseItems(g) \o (chunk \o EndOf(h))
<1> USE DEF AddsData
<1>1. PICK i \in Seq(Whats) : i = Interim(g) /\ i = Interim(h)
  <2>1. Interim(h) = Interim(g)
    BY DEF Interim
  <2> QED
    BY <2>1, InterimType
<1>2. PICK d \in Seq(Whats) : d = HeadOf(g) /\ d = HeadOf(h)
  <2>1. IsChunked(h) = IsChunked(g)
    BY DEF IsChunked
  <2>2. HeadOf(h) = HeadOf(g)
    BY <2>1 DEF HeadOf
  <2> QED
    BY <2>2, HeadType DEF IsGiven
<1>3. PICK b \in Seq(Whats) : b = BodyOf(g)
  <2>1. g.pieces \in Seq(Whats)
    BY DEF IsGiven
  <2>2. BodyOf(g) \in Seq(Whats)
    BY <2>1, FramedType
  <2> QED
    BY <2>2
<1>4. PICK e \in Seq(Whats) : e = EndOf(h)
  BY EndType
<1>5. EndOf(g) = <<>>
  BY DEF EndOf
<1>6. PICK k \in Seq(Whats) : k = chunk /\ BodyOf(h) = b \o k
  <2>1. CASE h.pieces = g.pieces /\ chunk = <<>>
    <3>1. IsChunked(h) = IsChunked(g)
      BY DEF IsChunked
    <3>2. FramesOf(h) = FramesOf(g)
      BY <2>1, <3>1 DEF FramesOf, FrameOf
    <3>3. BodyOf(h) = BodyOf(g)
      BY <3>2 DEF BodyOf
    <3>4. <<>> \in Seq(Whats) /\ b \o <<>> = b
      OBVIOUS
    <3> QED
      BY <1>3, <2>1, <3>3, <3>4
  <2>2. CASE h.pieces = g.pieces \o <<p>> /\ chunk = FrameOf(g, p)
    <3>1. BodyOf(h) = BodyOf(g) \o FrameOf(g, p)
      BY <2>2, BodyMore DEF IsGiven
    <3>2. PICK k \in Seq(Whats) : k = FrameOf(g, p)
      BY FramedOne
    <3>3. k = chunk
      BY <2>2, <3>2
    <3> QED
      BY <1>3, <3>1, <3>2, <3>3
  <2> QED
    BY <2>1, <2>2
<1>7. i \o d \o (b \o k) \o e = (i \o d \o b \o <<>>) \o (k \o e)
  <2>1. PICK x \in Seq(Whats) : x = i \o d
    <3>1. i \o d \in Seq(Whats)
      OBVIOUS
    <3> QED
      BY <3>1
  <2>2. x \o (b \o k) = (x \o b) \o k
    <3>1. Cat(Cat(x, b), k) = Cat(x, Cat(b, k))
      BY CatAssociates
    <3> QED
      BY <3>1 DEF Cat
  <2>3. PICK y \in Seq(Whats) : y = x \o b
    <3>1. x \o b \in Seq(Whats)
      OBVIOUS
    <3> QED
      BY <3>1
  <2>4. (y \o k) \o e = y \o (k \o e)
    <3>1. Cat(Cat(y, k), e) = Cat(y, Cat(k, e))
      BY CatAssociates
    <3> QED
      BY <3>1 DEF Cat
  <2>5. y \o <<>> = y
    OBVIOUS
  <2> QED
    BY <2>1, <2>2, <2>3, <2>4, <2>5
<1> QED
  BY <1>1, <1>2, <1>3, <1>4, <1>5, <1>6, <1>7, ItemsInParts

-----------------------------------------------------------------------------
(* Writing *)

LEMMA ItemsType ==
    ASSUME NEW m \in Nat, NEW whats \in Seq(Whats)
    PROVE  /\ Items(m, whats) \in Seq(OnWire(Whats))
           /\ Len(Items(m, whats)) = Len(whats)
           /\ \A i \in 1..Len(whats) : Items(m, whats)[i].n = m
<1>1. PICK M \in Nat : M = Len(whats) /\ DOMAIN whats = 1..M
  BY LenProperties
<1>2. PICK t : t = Items(m, whats)
  OBVIOUS
<1>3. t = [i \in 1..M |-> [n |-> m, what |-> whats[i]]]
  BY <1>1, <1>2 DEF Items, Item
<1>4. \A i \in 1..M : [n |-> m, what |-> whats[i]] \in OnWire(Whats)
  <2>1. \A i \in 1..M : whats[i] \in Whats
    BY <1>1, ElementOfSeq
  <2> QED
    BY <2>1 DEF OnWire
<1>5. t \in Seq(OnWire(Whats)) /\ Len(t) = M
  BY <1>3, <1>4
<1>6. \A i \in 1..M : t[i].n = m
  BY <1>3
<1> QED
  BY <1>1, <1>2, <1>5, <1>6

\* Nothing gets between the items of a response.
Contiguous(w) ==
    \A i, k \in 1..Len(w) : i < k /\ w[i].n = w[k].n => \A j \in i..k : w[j].n = w[i].n

\* What stream c has written, if anything, is at the end.
EndsWith(w, c) == \A k \in 1..Len(w) : w[k].n = c => w[Len(w)].n = c

LEMMA ItemsAdded ==
    ASSUME NEW w \in Seq(OnWire(Whats)), NEW c \in Nat, NEW whats \in Seq(Whats),
           Contiguous(w), EndsWith(w, c)
    PROVE  LET v == w \o Items(c, whats)
           IN  /\ v \in Seq(OnWire(Whats)) /\ Contiguous(v) /\ EndsWith(v, c)
               /\ \A k \in 1..Len(v) : v[k].n = c \/ \E j \in 1..Len(w) : v[k].n = w[j].n
<1>0. PICK v : v = w \o Items(c, whats)
  OBVIOUS
<1>1. PICK t : t = Items(c, whats) /\ v = w \o t
  BY <1>0
<1>2. PICK M \in Nat, L \in Nat : M = Len(w) /\ L = Len(whats)
  BY LenProperties
<1>3. t \in Seq(OnWire(Whats)) /\ Len(t) = L /\ \A i \in 1..L : t[i].n = c
  BY <1>1, <1>2, ItemsType
<1>4. PICK T : T = OnWire(Whats)
  OBVIOUS
<1>5. v \in Seq(T) /\ Len(v) = M + L /\ \A k \in 1..(M + L) : v[k] = IF k <= M THEN w[k] ELSE t[k - M]
  <2>1. w \in Seq(T) /\ t \in Seq(T)
    BY <1>3, <1>4
  <2>2. /\ w \o t \in Seq(T)
        /\ Len(w \o t) = Len(w) + Len(t)
        /\ \A k \in 1..(Len(w) + Len(t)) : (w \o t)[k] = IF k <= Len(w) THEN w[k] ELSE t[k - Len(w)]
    BY <2>1, ConcatProperties
  <2>3. v = w \o t
    BY <1>1
  <2> QED
    BY <1>2, <1>3, <2>2, <2>3
<1>6. \A k \in 1..(M + L) : k <= M => (k \in 1..M /\ v[k] = w[k])
  BY <1>5
<1>7. ASSUME NEW k \in 1..(M + L), ~(k <= M) PROVE v[k].n = c
  <2>1. k - M \in 1..L /\ v[k] = t[k - M]
    BY <1>5, <1>7
  <2> QED
    BY <1>3, <2>1
<1>8. ASSUME NEW i \in 1..(M + L), NEW k \in 1..(M + L), i < k, v[i].n = v[k].n, NEW j \in i..k
      PROVE  v[j].n = v[i].n
  <2>1. j \in 1..(M + L)
    OBVIOUS
  <2>2. CASE k <= M
    <3>1. i <= M /\ j <= M
      BY <1>8, <2>2
    <3>2. i \in 1..M /\ k \in 1..M /\ v[i] = w[i] /\ v[k] = w[k] /\ v[j] = w[j]
      BY <1>6, <2>1, <2>2, <3>1
    <3> QED
      BY <1>2, <1>8, <3>2 DEF Contiguous
  <2>3. CASE ~(k <= M)
    <3>1. v[k].n = c /\ v[i].n = c
      BY <1>7, <1>8, <2>3
    <3>2. CASE j <= M
      <4>1. i <= M
        BY <3>2
      <4>2. i \in 1..M /\ j \in 1..M /\ v[i] = w[i] /\ v[j] = w[j] /\ M \in 1..M
        <5>1. i \in 1..M /\ v[i] = w[i]
          BY <1>6, <4>1
        <5>2. j \in 1..M /\ v[j] = w[j]
          BY <1>6, <2>1, <3>2
        <5> QED
          BY <5>1, <5>2
      <4>3. w[M].n = c /\ w[i].n = c
        BY <1>2, <3>1, <4>2 DEF EndsWith
      <4>4. CASE i = M
        <5>1. j = M
          BY <3>2, <4>4
        <5> QED
          BY <3>1, <4>2, <4>3, <5>1
      <4>5. CASE i # M
        <5>1. i < M /\ j \in i..M
          BY <3>2, <4>1, <4>5
        <5>2. w[j].n = w[i].n
          BY <1>2, <4>2, <4>3, <5>1 DEF Contiguous
        <5> QED
          BY <4>2, <5>2
      <4> QED
        BY <4>4, <4>5
    <3>3. CASE ~(j <= M)
      BY <1>7, <2>1, <3>1, <3>3
    <3> QED
      BY <3>2, <3>3
  <2> QED
    BY <2>2, <2>3
<1>9. Contiguous(v)
  <2>1. \A i, k \in 1..(M + L) : i < k /\ v[i].n = v[k].n => \A j \in i..k : v[j].n = v[i].n
    BY <1>8
  <2>2. Len(v) = M + L
    BY <1>5
  <2>3. ASSUME NEW i \in 1..Len(v), NEW k \in 1..Len(v), i < k /\ v[i].n = v[k].n, NEW j \in i..k
        PROVE  v[j].n = v[i].n
    <3>1. i \in 1..(M + L) /\ k \in 1..(M + L)
      BY <2>2
    <3> QED
      BY <1>8, <2>3, <3>1, Zenon
  <2> QED
    BY <2>3, Zenon DEF Contiguous
<1>10. ASSUME NEW k \in 1..(M + L), v[k].n = c PROVE v[M + L].n = c
  <2>1. CASE L = 0
    <3>1. k \in 1..M /\ v[k] = w[k] /\ M + L = M /\ v[M] = w[M]
      <4>1. M + L = M /\ M <= M /\ k <= M /\ M \in 1..(M + L)
        BY <2>1
      <4>2. k \in 1..M /\ v[k] = w[k]
        BY <1>6, <4>1
      <4>3. v[M] = w[M]
        BY <1>6, <4>1
      <4> QED
        BY <4>1, <4>2, <4>3
    <3>2. w[M].n = c
      BY <1>2, <1>10, <3>1 DEF EndsWith
    <3> QED
      BY <3>1, <3>2
  <2>2. CASE L # 0
    <3>1. M + L \in 1..(M + L) /\ ~(M + L <= M)
      BY <2>2
    <3> QED
      BY <1>7, <3>1
  <2> QED
    BY <2>1, <2>2
<1>11. EndsWith(v, c)
  BY <1>5, <1>10 DEF EndsWith
<1>12. ASSUME NEW k \in 1..(M + L) PROVE v[k].n = c \/ \E j \in 1..M : v[k].n = w[j].n
  BY <1>6, <1>7
<1>13. /\ v \in Seq(OnWire(Whats)) /\ Contiguous(v) /\ EndsWith(v, c)
       /\ \A k \in 1..Len(v) : v[k].n = c \/ \E j \in 1..Len(w) : v[k].n = w[j].n
  BY <1>2, <1>4, <1>5, <1>9, <1>11, <1>12
<1> QED
  BY <1>0, <1>13

IsBuffer(b) ==
    /\ DOMAIN b = {"content", "pos", "limit"}
    /\ b.content \in Seq(OnWire(Whats)) /\ b.pos = 0
    /\ b.limit \in Nat /\ b.limit <= Len(b.content)

\* What is put into a buffer that was rewound is what is read when it is flipped.
LEMMA HeadFlushed ==
    ASSUME NEW b, IsBuffer(b), NEW items \in Seq(OnWire(Whats))
    PROVE  /\ Unread(Flipped(PutItems(b, items))) = items
           /\ IsBuffer(Flipped(PutItems(b, items)))
<1>1. PICK T : T = OnWire(Whats)
  OBVIOUS
<1>2. PICK L \in Nat, K \in Nat : L = Len(items) /\ K = Len(b.content)
  BY LenProperties DEF IsBuffer
<1>3. PICK old \in Seq(T), s \in Seq(T) : old = b.content /\ s = items
  BY <1>1 DEF IsBuffer
<1>4. SubSeq(old, 1, 0) = <<>>
  OBVIOUS
<1>5. PICK rest \in Seq(T) : rest = SubSeq(old, L + 1, Len(old))
  <2>1. CASE L < K
    <3>1. PICK p \in Int : p = L + 1
      OBVIOUS
    <3>2. PICK q \in Int : q = Len(old)
      BY <1>2, <1>3
    <3>3. 1 <= p /\ q <= Len(old) /\ p <= q + 1
      BY <1>2, <1>3, <2>1, <3>1, <3>2
    <3>4. \A i \in p..q : old[i] \in T
      BY <1>3, <3>1, <3>2
    <3>5. SubSeq(old, p, q) \in Seq(T)
      BY <3>3, <3>4
    <3> QED
      BY <3>1, <3>2, <3>5
  <2>2. CASE ~(L < K)
    <3>1. SubSeq(old, L + 1, Len(old)) = <<>>
      BY <1>2, <1>3, <2>2
    <3>2. <<>> \in Seq(T)
      OBVIOUS
    <3> QED
      BY <3>1, <3>2
  <2> QED
    BY <2>1, <2>2
<1>6. PICK new \in Seq(T) : new = s \o rest
  <2>1. s \o rest \in Seq(T)
    OBVIOUS
  <2> QED
    BY <2>1
<1>7. PutItems(b, items) = [content |-> new, pos |-> L, limit |-> IF L > b.limit THEN L ELSE b.limit]
  <2>1. b.pos + Len(items) = L
    BY <1>2 DEF IsBuffer
  <2>2. SubSeq(b.content, 1, b.pos) \o items \o SubSeq(b.content, L + 1, Len(b.content)) = new
    <3>1. SubSeq(b.content, 1, b.pos) = <<>>
      BY <1>3, <1>4 DEF IsBuffer
    <3>2. <<>> \o s = s
      OBVIOUS
    <3> QED
      BY <1>3, <1>5, <1>6, <3>1, <3>2
  <2> QED
    BY <2>1, <2>2 DEF PutItems
<1>8. PICK f : f = Flipped(PutItems(b, items))
  OBVIOUS
<1>9. f.content = new /\ f.pos = 0 /\ f.limit = L /\ DOMAIN f = {"content", "pos", "limit"}
  BY <1>7, <1>8 DEF Flipped
<1>10. Unread(f) = SubSeq(new, 1, L)
  BY <1>9 DEF Unread
<1>11. SubSeq(new, 1, L) = s
  <2>1. Len(new) = L + Len(rest) /\ \A i \in 1..L : new[i] = s[i]
    BY <1>2, <1>3, <1>6
  <2>2. PICK t : t = SubSeq(new, 1, L)
    OBVIOUS
  <2>3. Len(t) = L /\ t = [i \in 1..L |-> new[i]]
    BY <2>1, <2>2
  <2>4. s = [i \in 1..L |-> s[i]]
    BY <1>2, <1>3
  <2>5. [i \in 1..L |-> new[i]] = [i \in 1..L |-> s[i]]
    BY <2>1
  <2> QED
    BY <2>2, <2>3, <2>4, <2>5
<1>12. L <= Len(new)
  <2>1. Len(new) = L + Len(rest) /\ Len(rest) \in Nat
    BY <1>2, <1>3, <1>6, ConcatProperties, LenProperties
  <2> QED
    BY <2>1
<1>13. IsBuffer(f)
  BY <1>1, <1>9, <1>12 DEF IsBuffer
<1> QED
  BY <1>3, <1>8, <1>10, <1>11, <1>13

LEMMA NothingFlushed ==
    ASSUME NEW b, IsBuffer(b)
    PROVE  Unread(Flipped(b)) = <<>> /\ IsBuffer(Flipped(b))
<1>1. PICK f : f = Flipped(b)
  OBVIOUS
<1>2. f.content = b.content /\ f.pos = 0 /\ f.limit = 0 /\ DOMAIN f = DOMAIN b
  BY <1>1 DEF Flipped, IsBuffer
<1>3. SubSeq(b.content, 1, 0) = <<>>
  BY DEF IsBuffer
<1>4. Unread(f) = <<>>
  BY <1>2, <1>3 DEF Unread
<1>5. 0 <= Len(f.content)
  <2>1. Len(b.content) \in Nat
    BY LenProperties DEF IsBuffer
  <2> QED
    BY <1>2, <2>1
<1> QED
  BY <1>1, <1>2, <1>4, <1>5 DEF IsBuffer

-----------------------------------------------------------------------------
(* Names and values *)

\* The tokens of headers: a piece of a name is not empty, and a value follows a name.
Tidy(s) ==
    \A k \in 1..Len(s) :
        /\ s[k].kind = "field" => \E x : s[k].arg = <<x>>
        /\ s[k].kind = "value" => s[k].arg = <<>> \/ \E x : s[k].arg = <<x>>
        /\ k > 1 /\ s[k].kind = "value" => s[k - 1].kind \in {"field", "value"}

\* What may come after anything.
Starts(s) == s # <<>> => s[1].kind # "value"

LEMMA TidyMore ==
    ASSUME NEW T, NEW s \in Seq(T), NEW u \in Seq(T), Tidy(s), Tidy(u),
           u # <<>> => u[1].kind # "value" \/ (s # <<>> /\ s[Len(s)].kind \in {"field", "value"})
    PROVE  Tidy(s \o u)
<1>1. PICK M \in Nat, L \in Nat : M = Len(s) /\ L = Len(u)
  BY LenProperties
<1>2. PICK w \in Seq(T) : w = s \o u
  <2>1. s \o u \in Seq(T)
    OBVIOUS
  <2> QED
    BY <2>1
<1>3. Len(w) = M + L /\ \A k \in 1..(M + L) : w[k] = IF k <= M THEN s[k] ELSE u[k - M]
  BY <1>1, <1>2
<1>4. ASSUME NEW k \in 1..(M + L)
      PROVE  /\ w[k].kind = "field" => \E x : w[k].arg = <<x>>
             /\ w[k].kind = "value" => w[k].arg = <<>> \/ \E x : w[k].arg = <<x>>
             /\ k > 1 /\ w[k].kind = "value" => w[k - 1].kind \in {"field", "value"}
  <2>1. CASE k <= M
    <3>1. k \in 1..M /\ w[k] = s[k]
      BY <1>3, <2>1
    <3>2. k > 1 => w[k - 1] = s[k - 1]
      <4>1. k > 1 => (k - 1 \in 1..(M + L) /\ k - 1 <= M)
        BY <2>1
      <4> QED
        BY <1>3, <4>1
    <3> QED
      BY <1>1, <3>1, <3>2 DEF Tidy
  <2>2. CASE ~(k <= M)
    <3>1. PICK j \in 1..L : j = k - M
      BY <2>2
    <3>2. w[k] = u[j]
      BY <1>3, <2>2, <3>1
    <3>3. ASSUME k > 1, w[k].kind = "value" PROVE w[k - 1].kind \in {"field", "value"}
      <4>1. CASE j = 1
        <5>1. u # <<>> /\ u[1].kind = "value"
          BY <1>1, <3>1, <3>2, <3>3, <4>1
        <5>2. s # <<>> /\ s[Len(s)].kind \in {"field", "value"}
          BY <5>1
        <5>3. k - 1 = M /\ M \in 1..(M + L)
          BY <3>1, <3>3, <4>1
        <5>4. w[k - 1] = s[M]
          BY <1>3, <5>3
        <5> QED
          BY <1>1, <5>2, <5>4
      <4>2. CASE j # 1
        <5>1. k - 1 \in 1..(M + L) /\ ~(k - 1 <= M) /\ (k - 1) - M = j - 1
          BY <3>1, <4>2
        <5>2. w[k - 1] = u[j - 1]
          BY <1>3, <5>1
        <5>3. j > 1 /\ u[j].kind = "value"
          BY <3>1, <3>2, <3>3, <4>2
        <5> QED
          BY <1>1, <3>1, <5>2, <5>3 DEF Tidy
      <4> QED
        BY <4>1, <4>2
    <3> QED
      BY <1>1, <3>1, <3>2, <3>3 DEF Tidy
  <2> QED
    BY <2>1, <2>2
<1>5. Tidy(w)
  BY <1>3, <1>4 DEF Tidy
<1> QED
  BY <1>2, <1>5

LEMMA TidyLeft ==
    ASSUME NEW T, NEW s \in Seq(T), NEW u \in Seq(T), Tidy(s \o u)
    PROVE  /\ Tidy(s) /\ Tidy(u)
           /\ s # <<>> /\ u # <<>> /\ u[1].kind = "value" => s[Len(s)].kind \in {"field", "value"}
<1>1. PICK M \in Nat, L \in Nat : M = Len(s) /\ L = Len(u)
  BY LenProperties
<1>2. PICK w \in Seq(T) : w = s \o u
  <2>1. s \o u \in Seq(T)
    OBVIOUS
  <2> QED
    BY <2>1
<1>3. Len(w) = M + L /\ \A k \in 1..(M + L) : w[k] = IF k <= M THEN s[k] ELSE u[k - M]
  BY <1>1, <1>2
<1>4. \A k \in 1..M : k \in 1..(M + L) /\ w[k] = s[k]
  BY <1>3
<1>5. \A k \in 1..L : M + k \in 1..(M + L) /\ w[M + k] = u[k]
  <2>1. \A k \in 1..L : M + k \in 1..(M + L) /\ ~(M + k <= M) /\ (M + k) - M = k
    OBVIOUS
  <2> QED
    BY <1>3, <2>1
<1>6. \A k \in 1..(M + L) :
        /\ w[k].kind = "field" => \E x : w[k].arg = <<x>>
        /\ w[k].kind = "value" => w[k].arg = <<>> \/ \E x : w[k].arg = <<x>>
        /\ k > 1 /\ w[k].kind = "value" => w[k - 1].kind \in {"field", "value"}
  BY <1>2, <1>3 DEF Tidy
<1>7. Tidy(s)
  <2>1. ASSUME NEW k \in 1..M
        PROVE  /\ s[k].kind = "field" => \E x : s[k].arg = <<x>>
               /\ s[k].kind = "value" => s[k].arg = <<>> \/ \E x : s[k].arg = <<x>>
               /\ k > 1 /\ s[k].kind = "value" => s[k - 1].kind \in {"field", "value"}
    <3>1. k > 1 => w[k - 1] = s[k - 1]
      <4>1. k > 1 => k - 1 \in 1..M
        OBVIOUS
      <4> QED
        BY <1>4, <4>1
    <3> QED
      BY <1>4, <1>6, <3>1
  <2> QED
    BY <1>1, <2>1 DEF Tidy
<1>8. Tidy(u)
  <2>1. ASSUME NEW k \in 1..L
        PROVE  /\ u[k].kind = "field" => \E x : u[k].arg = <<x>>
               /\ u[k].kind = "value" => u[k].arg = <<>> \/ \E x : u[k].arg = <<x>>
               /\ k > 1 /\ u[k].kind = "value" => u[k - 1].kind \in {"field", "value"}
    <3>1. PICK i \in 1..(M + L) : i = M + k /\ w[i] = u[k]
      BY <1>5
    <3>2. k > 1 => i > 1 /\ w[i - 1] = u[k - 1]
      <4>1. k > 1 => k - 1 \in 1..L /\ M + (k - 1) = i - 1 /\ i > 1
        BY <3>1
      <4> QED
        BY <1>5, <4>1
    <3> QED
      BY <1>6, <3>1, <3>2
  <2> QED
    BY <1>1, <2>1 DEF Tidy
<1>9. ASSUME s # <<>>, u # <<>>, u[1].kind = "value" PROVE s[Len(s)].kind \in {"field", "value"}
  <2>1. M # 0 /\ L # 0
    BY <1>1, <1>9, EmptySeq
  <2>2. M + 1 \in 1..(M + L) /\ M + 1 > 1 /\ (M + 1) - 1 = M /\ M \in 1..M /\ 1 \in 1..L
    BY <2>1
  <2>3. w[M + 1] = u[1] /\ w[M] = s[M]
    BY <1>4, <1>5, <2>2
  <2>4. w[(M + 1) - 1].kind \in {"field", "value"}
    BY <1>6, <1>9, <2>2, <2>3
  <2> QED
    BY <1>1, <2>2, <2>3, <2>4
<1> QED
  BY <1>7, <1>8, <1>9

LEMMA StartsMore ==
    ASSUME NEW T, NEW s \in Seq(T), NEW u \in Seq(T), Starts(s), Starts(u)
    PROVE  Starts(s \o u)
<1>1. PICK M \in Nat, L \in Nat : M = Len(s) /\ L = Len(u)
  BY LenProperties
<1>2. PICK w \in Seq(T) : w = s \o u
  <2>1. s \o u \in Seq(T)
    OBVIOUS
  <2> QED
    BY <2>1
<1>3. Len(w) = M + L /\ \A k \in 1..(M + L) : w[k] = IF k <= M THEN s[k] ELSE u[k - M]
  BY <1>1, <1>2
<1>4. ASSUME w # <<>> PROVE w[1].kind # "value"
  <2>1. M + L # 0 /\ 1 \in 1..(M + L)
    BY <1>2, <1>3, <1>4, EmptySeq
  <2>2. CASE M = 0
    <3>1. ~(1 <= M) /\ 1 - M = 1 /\ L # 0
      BY <2>1, <2>2
    <3>2. w[1] = u[1] /\ u # <<>>
      BY <1>1, <1>3, <2>1, <3>1
    <3> QED
      BY <3>2 DEF Starts
  <2>3. CASE M # 0
    <3>1. 1 <= M
      BY <2>3
    <3>2. w[1] = s[1] /\ s # <<>>
      BY <1>1, <1>3, <2>1, <2>3, <3>1
    <3> QED
      BY <3>2 DEF Starts
  <2> QED
    BY <2>2, <2>3
<1> QED
  BY <1>2, <1>4 DEF Starts

LEMMA TidyJoined ==
    ASSUME NEW T, NEW q \in Seq(Seq(T)), \A i \in 1..Len(q) : Tidy(q[i]) /\ Starts(q[i])
    PROVE  Tidy(FlattenSeq(q)) /\ Starts(FlattenSeq(q))
<1>1. PICK f : Joins(f, q, Len(q)) /\ \A i \in 1..Len(q) : f[i] \in Seq(T)
  BY JoinsExist
<1>2. PICK L \in Nat : L = Len(q)
  BY LenProperties
<1>3. CASE L = 0
  <2>1. FlattenSeq(q) = <<>>
    BY <1>2, <1>3, EmptySeq DEF FlattenSeq
  <2>2. PICK e : e = <<>> /\ Len(e) = 0
    OBVIOUS
  <2>3. Tidy(e) /\ Starts(e)
    BY <2>2 DEF Tidy, Starts
  <2> QED
    BY <2>1, <2>2, <2>3
<1>4. CASE L # 0
  <2> DEFINE Bad == {i \in 1..L : ~(Tidy(f[i]) /\ Starts(f[i]))}
  <2>1. f = [i \in 1..L |-> IF i = 1 THEN q[i] ELSE f[i - 1] \o q[i]]
    BY <1>1, <1>2 DEF Joins
  <2>2. CASE Bad # {}
    <3>1. PICK i \in Bad : \A j \in Bad : i <= j
      <4>1. Bad \in SUBSET Nat
        OBVIOUS
      <4> HIDE DEF Bad
      <4> QED
        BY <2>2, <4>1, LeastNatural
    <3>2. i \in 1..L /\ ~(Tidy(f[i]) /\ Starts(f[i]))
      OBVIOUS
    <3>3. CASE i = 1
      <4>1. f[i] = q[i]
        BY <2>1, <3>2, <3>3
      <4> QED
        BY <1>2, <3>2, <4>1
    <3>4. CASE i # 1
      <4>1. i - 1 \in 1..L /\ ~(i <= i - 1)
        BY <3>2, <3>4
      <4>2. Tidy(f[i - 1]) /\ Starts(f[i - 1])
        BY <3>1, <4>1
      <4>3. PICK a \in Seq(T) : a = f[i - 1] /\ Tidy(a) /\ Starts(a)
        BY <1>1, <1>2, <4>1, <4>2
      <4>4. PICK b \in Seq(T) : b = q[i] /\ Tidy(b) /\ Starts(b)
        BY <1>2, <3>2, ElementOfSeq
      <4>5. b # <<>> => b[1].kind # "value"
        BY <4>4 DEF Starts
      <4>6. Tidy(a \o b) /\ Starts(a \o b)
        BY <4>3, <4>4, <4>5, TidyMore, StartsMore
      <4>7. f[i] = a \o b
        BY <2>1, <3>2, <3>4, <4>3, <4>4
      <4> QED
        BY <3>2, <4>6, <4>7
    <3> QED
      BY <3>3, <3>4
  <2>3. CASE Bad = {}
    <3>1. L \in 1..L
      BY <1>4
    <3>2. Tidy(f[L]) /\ Starts(f[L])
      BY <2>3, <3>1
    <3>3. FlattenSeq(q) = f[L]
      BY <1>1, <1>2, <1>4, JoinedIs
    <3> QED
      BY <3>2, <3>3
  <2> QED
    BY <2>2, <2>3
<1> QED
  BY <1>3, <1>4

LEMMA CutTidy ==
    ASSUME NEW i, NEW kind, NEW text, IsText(text)
    PROVE  LET s == Cut(i, kind, text)
           IN  /\ Len(s) = Len(text) /\ \A k \in 1..Len(text) : s[k].kind = kind
               /\ Tidy(s) /\ (kind # "value" => Starts(s))
<1>1. PICK L \in Nat : L = Len(text) /\ DOMAIN text = 1..L
  BY DEF IsText
<1>2. PICK s : s = Cut(i, kind, text)
  OBVIOUS
<1>3. s = [j \in 1..L |-> Token(i, kind, <<text[j]>>)]
  BY <1>1, <1>2 DEF Cut
<1>4. Len(s) = L
  BY <1>3
<1>5. \A k \in 1..L : s[k].kind = kind /\ s[k].arg = <<text[k]>>
  BY <1>3 DEF Token
<1>6. Tidy(s)
  <2>1. ASSUME NEW k \in 1..L
        PROVE  /\ s[k].kind = "field" => \E x : s[k].arg = <<x>>
               /\ s[k].kind = "value" => s[k].arg = <<>> \/ \E x : s[k].arg = <<x>>
               /\ k > 1 /\ s[k].kind = "value" => s[k - 1].kind \in {"field", "value"}
    <3>1. k > 1 => k - 1 \in 1..L
      OBVIOUS
    <3>2. k > 1 => s[k - 1].kind = kind
      BY <1>5, <3>1
    <3> QED
      BY <1>5, <3>2
  <2> QED
    BY <1>4, <2>1 DEF Tidy
<1>7. kind # "value" => Starts(s)
  <2> SUFFICES ASSUME kind # "value", s # <<>> PROVE s[1].kind # "value"
    BY DEF Starts
  <2>1. L # 0
    BY <1>3
  <2> QED
    BY <1>5, <2>1
<1> QED
  BY <1>1, <1>2, <1>4, <1>5, <1>6, <1>7

\* A single token.
LEMMA OneTidy ==
    ASSUME NEW t, t.kind = "value" => t.arg = <<>>, t.kind # "field"
    PROVE  Tidy(<<t>>) /\ (t.kind # "value" => Starts(<<t>>))
<1>0. Len(<<t>>) = 1 /\ <<t>>[1] = t
  OBVIOUS
<1>1. PICK s : s = <<t>> /\ Len(s) = 1 /\ s[1] = t
  BY <1>0
<1>2. ASSUME NEW k \in 1..Len(s) PROVE k = 1 /\ ~(k > 1)
  BY <1>1
<1>3. Tidy(s)
  BY <1>1, <1>2 DEF Tidy
<1>4. t.kind # "value" => Starts(s)
  BY <1>1 DEF Starts
<1> QED
  BY <1>1, <1>3, <1>4

LEMMA HeaderTidy ==
    ASSUME NEW i, NEW h, IsText(h.name), Len(h.name) > 0, IsText(h.value)
    PROVE  Tidy(HeaderTokens(i, h)) /\ Starts(HeaderTokens(i, h))
<1>1. PICK A : A = {<<>>} \cup PiecesOf(h.name) \cup PiecesOf(h.value)
  OBVIOUS
<1>2. PICK T : T = Plain(i, A)
  OBVIOUS
<1>3. PICK a \in Seq(T) : a = Cut(i, "field", h.name)
  <2>1. "field" \in Kinds /\ PiecesOf(h.name) \subseteq A
    BY <1>1 DEF Kinds
  <2> QED
    BY <1>2, <2>1, CutType
<1>4. PICK b \in Seq(T) : b = Cut(i, "value", h.value)
  <2>1. "value" \in Kinds /\ PiecesOf(h.value) \subseteq A
    BY <1>1 DEF Kinds
  <2> QED
    BY <1>2, <2>1, CutType
<1>5. PICK e \in T : e = Token(i, "value", <<>>)
  <2>1. Token(i, "value", <<>>) \in Plain(i, A)
    BY <1>1 DEF Token, Plain, Kinds
  <2> QED
    BY <1>2, <2>1
<1>6. PICK L \in Nat : L = Len(a) /\ L = Len(h.name) /\ L # 0
  <2>1. DOMAIN h.name = 1..Len(h.name) /\ Len(h.name) \in Nat
    BY DEF IsText
  <2>2. Len(a) = Len(h.name)
    BY <1>3, CutTidy
  <2> QED
    BY <2>1, <2>2
<1>7. Tidy(a) /\ Starts(a) /\ a[L].kind = "field" /\ a # <<>>
  <2>1. \A k \in 1..L : a[k].kind = "field"
    BY <1>3, <1>6, CutTidy
  <2>2. L \in 1..L
    BY <1>6
  <2>3. a # <<>>
    BY <1>6, EmptySeq
  <2> QED
    BY <1>3, <2>1, <2>2, <2>3, CutTidy
<1>8. ASSUME NEW c \in Seq(T), Tidy(c), HeaderTokens(i, h) = a \o c
      PROVE  Tidy(HeaderTokens(i, h)) /\ Starts(HeaderTokens(i, h))
  <2>1. Tidy(a \o c)
    BY <1>6, <1>7, <1>8, TidyMore
  <2>2. Starts(a \o c)
    <3>2. PICK w \in Seq(T) : w = a \o c
      <4>1. a \o c \in Seq(T)
        OBVIOUS
      <4> QED
        BY <4>1
    <3>3. w[1] = a[1]
      <4>1. PICK N \in Nat : N = Len(c)
        BY LenProperties
      <4>2. \A k \in 1..(L + N) : w[k] = IF k <= L THEN a[k] ELSE c[k - L]
        <5>1. Len(a) = L
          BY <1>6
        <5> QED
          BY <3>2, <4>1, <5>1, ConcatProperties
      <4>3. 1 \in 1..(L + N) /\ 1 <= L
        BY <1>6
      <4> QED
        BY <4>2, <4>3
    <3>4. 1 \in 1..L /\ a[1].kind = "field"
      BY <1>3, <1>6, CutTidy
    <3> QED
      BY <3>2, <3>3, <3>4 DEF Starts
  <2> QED
    BY <1>8, <2>1, <2>2
<1>9. CASE h.value = <<>>
  <2>1. HeaderTokens(i, h) = a \o <<e>>
    BY <1>3, <1>5, <1>9 DEF HeaderTokens
  <2>2. <<e>> \in Seq(T)
    OBVIOUS
  <2>3. e.kind = "value" /\ e.arg = <<>>
    BY <1>5 DEF Token
  <2>4. Tidy(<<e>>)
    BY <2>3, OneTidy
  <2> QED
    BY <1>8, <2>1, <2>2, <2>4
<1>10. CASE h.value # <<>>
  <2>1. HeaderTokens(i, h) = a \o b
    BY <1>3, <1>4, <1>10 DEF HeaderTokens
  <2>2. Tidy(b)
    BY <1>4, CutTidy
  <2> QED
    BY <1>8, <2>1, <2>2
<1> QED
  BY <1>9, <1>10

LEMMA AllTidy ==
    ASSUME NEW i, NEW hs, AreHeaders(hs)
    PROVE  Tidy(AllHeaders(i, hs)) /\ Starts(AllHeaders(i, hs))
<1>1. PICK L \in Nat : L = Len(hs) /\ DOMAIN hs = 1..L
  BY DEF AreHeaders, IsText
<1>2. PICK T : T = Plain(i, {<<>>} \cup HeaderArgs(hs))
  OBVIOUS
<1>3. ASSUME NEW j \in 1..L
      PROVE  HeaderTokens(i, hs[j]) \in Seq(T) /\ Tidy(HeaderTokens(i, hs[j])) /\ Starts(HeaderTokens(i, hs[j]))
  <2>1. PICK h : h = hs[j]
    OBVIOUS
  <2>2. IsText(h.name) /\ Len(h.name) > 0 /\ IsText(h.value)
    BY <1>1, <2>1 DEF AreHeaders
  <2>3. PICK A : A = {<<>>} \cup HeaderArgs(hs)
    OBVIOUS
  <2>4. <<>> \in A /\ PiecesOf(h.name) \subseteq A /\ PiecesOf(h.value) \subseteq A
    BY <1>1, <2>1, <2>3 DEF HeaderArgs
  <2>5. HeaderTokens(i, h) \in Seq(Plain(i, A))
    BY <2>2, <2>4, HeaderTokensType
  <2>6. Tidy(HeaderTokens(i, h)) /\ Starts(HeaderTokens(i, h))
    BY <2>2, HeaderTidy
  <2> QED
    BY <1>2, <2>1, <2>3, <2>5, <2>6
<1>4. PICK q : q = [j \in 1..L |-> HeaderTokens(i, hs[j])]
  OBVIOUS
<1>5. q \in Seq(Seq(T)) /\ Len(q) = L
  BY <1>3, <1>4
<1>6. \A j \in 1..Len(q) : Tidy(q[j]) /\ Starts(q[j])
  BY <1>3, <1>4, <1>5
<1>7. Tidy(FlattenSeq(q)) /\ Starts(FlattenSeq(q))
  BY <1>5, <1>6, TidyJoined
<1> QED
  BY <1>1, <1>4, <1>7 DEF AllHeaders

\* What a client sends of a request is tidy.
LEMMA TokensTidy ==
    ASSUME NEW i, NEW r, IsRequest(r)
    PROVE  Tidy(Tokens(i, r)) /\ Starts(Tokens(i, r))
<1>1. PICK A : A = Args(r)
  OBVIOUS
<1>2. /\ <<>> \in A /\ r \in A
      /\ PiecesOf(r.url) \subseteq A /\ PiecesOf(r.body) \subseteq A
      /\ HeaderArgs(r.headers) \subseteq A /\ HeaderArgs(r.trailers) \subseteq A
  BY <1>1 DEF Args
<1>3. PICK T : T = AllOf(i, A)
  OBVIOUS
<1>4. ASSUME NEW x \in Seq(Plain(i, A)) PROVE x \in Seq(T)
  <2>1. Plain(i, A) \subseteq T
    BY <1>3 DEF Plain, AllOf
  <2> QED
    BY <1>4, <2>1, Wider
<1>5. ASSUME NEW t \in T, t.kind # "value", t.kind # "field"
      PROVE  <<t>> \in Seq(T) /\ Tidy(<<t>>) /\ Starts(<<t>>)
  BY <1>5, OneTidy
<1>6. PICK t1 \in Seq(T) : t1 = <<Token(i, "begin", <<>>)>> /\ Tidy(t1) /\ Starts(t1)
  <2>1. Token(i, "begin", <<>>) \in T /\ Token(i, "begin", <<>>).kind = "begin"
    BY <1>2, <1>3 DEF Token, AllOf
  <2>2. PICK t \in T : t = Token(i, "begin", <<>>) /\ t.kind = "begin"
    BY <2>1
  <2> QED
    BY <1>5, <2>2
<1>7. PICK p2 \in Seq(T) : p2 = Cut(i, "url", r.url) /\ Tidy(p2) /\ Starts(p2)
  <2>1. "url" \in Kinds /\ IsText(r.url)
    BY DEF Kinds, IsRequest
  <2> QED
    BY <1>2, <1>4, <2>1, CutType, CutTidy
<1>8. PICK p3 \in Seq(T) : p3 = AllHeaders(i, r.headers) /\ Tidy(p3) /\ Starts(p3)
  <2>1. AreHeaders(r.headers)
    BY DEF IsRequest
  <2> QED
    BY <1>2, <1>4, <2>1, AllHeadersType, AllTidy
<1>9. PICK p4 \in Seq(T) : p4 = <<Token(i, "headersEnd", r)>> /\ Tidy(p4) /\ Starts(p4)
  <2>1. Token(i, "headersEnd", r) \in T /\ Token(i, "headersEnd", r).kind = "headersEnd"
    BY <1>2, <1>3 DEF Token, AllOf, Kinds
  <2>2. PICK t \in T : t = Token(i, "headersEnd", r) /\ t.kind = "headersEnd"
    BY <2>1
  <2> QED
    BY <1>5, <2>2
<1>10. PICK p5 \in Seq(T) : p5 = Cut(i, "body", r.body) /\ Tidy(p5) /\ Starts(p5)
  <2>1. "body" \in Kinds /\ IsText(r.body)
    BY DEF Kinds, IsRequest
  <2> QED
    BY <1>2, <1>4, <2>1, CutType, CutTidy
<1>11. PICK p6 \in Seq(T) : p6 = AllHeaders(i, r.trailers) /\ Tidy(p6) /\ Starts(p6)
  <2>1. AreHeaders(r.trailers)
    BY DEF IsRequest
  <2> QED
    BY <1>2, <1>4, <2>1, AllHeadersType, AllTidy
<1>12. PICK p7 \in Seq(T) : p7 = <<Token(i, "end", <<>>)>> /\ Tidy(p7) /\ Starts(p7)
  <2>1. Token(i, "end", <<>>) \in T /\ Token(i, "end", <<>>).kind = "end"
    BY <1>2, <1>3 DEF Token, AllOf, Kinds
  <2>2. PICK t \in T : t = Token(i, "end", <<>>) /\ t.kind = "end"
    BY <2>1
  <2> QED
    BY <1>5, <2>2
<1>13. ASSUME NEW s \in Seq(T), NEW u \in Seq(T), Tidy(s), Starts(s), Tidy(u), Starts(u)
       PROVE  s \o u \in Seq(T) /\ Tidy(s \o u) /\ Starts(s \o u)
  <2>1. u # <<>> => u[1].kind # "value"
    BY <1>13 DEF Starts
  <2>2. s \o u \in Seq(T)
    OBVIOUS
  <2> QED
    BY <1>13, <2>1, <2>2, TidyMore, StartsMore
<1>14. PICK t2 \in Seq(T) : t2 = t1 \o p2 /\ Tidy(t2) /\ Starts(t2)
  BY <1>6, <1>7, <1>13
<1>15. PICK t3 \in Seq(T) : t3 = t2 \o p3 /\ Tidy(t3) /\ Starts(t3)
  BY <1>8, <1>13, <1>14
<1>16. PICK t4 \in Seq(T) : t4 = t3 \o p4 /\ Tidy(t4) /\ Starts(t4)
  BY <1>9, <1>13, <1>15
<1>17. PICK t5 \in Seq(T) : t5 = t4 \o p5 /\ Tidy(t5) /\ Starts(t5)
  BY <1>10, <1>13, <1>16
<1>18. PICK t6 \in Seq(T) : t6 = t5 \o p6 /\ Tidy(t6) /\ Starts(t6)
  BY <1>11, <1>13, <1>17
<1>19. PICK t7 \in Seq(T) : t7 = t6 \o p7 /\ Tidy(t7) /\ Starts(t7)
  BY <1>12, <1>13, <1>18
<1>20. Tokens(i, r) = t7
  BY <1>6, <1>7, <1>8, <1>9, <1>10, <1>11, <1>12, <1>14, <1>15, <1>16, <1>17, <1>18, <1>19 DEF Tokens
<1> QED
  BY <1>19, <1>20

-----------------------------------------------------------------------------
(* The header that is being parsed *)

\* A string with its own storage, and one of which the text is a sequence.
IsOwn(s) == DOMAIN s = {"type", "text", "capacity"} /\ s.type # "Reference"
IsString(s) == IsOwn(s) /\ \E T : s.text \in Seq(T)

LEMMA Emptied ==
    ASSUME NEW s, IsOwn(s)
    PROVE  /\ IsString(Cleared(s)) /\ IsEmpty(Cleared(s))
           /\ IsString(MovedFrom(s)) /\ IsEmpty(MovedFrom(s))
           /\ IsString(EmptyString) /\ IsEmpty(EmptyString)
<1>1. <<>> \in Seq({0})
  OBVIOUS
<1>2. IsString(EmptyString) /\ IsEmpty(EmptyString)
  BY <1>1 DEF EmptyString, Str, IsString, IsOwn, IsEmpty
<1>3. MovedFrom(s) = EmptyString
  BY DEF MovedFrom, IsOwn
<1>4. PICK e : e = [s EXCEPT !.text = <<>>]
  OBVIOUS
<1>5. Cleared(s) = e
  BY <1>4 DEF Cleared, IsOwn
<1>6. DOMAIN e = {"type", "text", "capacity"} /\ e.type = s.type /\ e.text = <<>>
  BY <1>4 DEF IsOwn
<1>7. IsString(e) /\ IsEmpty(e)
  BY <1>1, <1>6 DEF IsString, IsOwn, IsEmpty
<1> QED
  BY <1>2, <1>3, <1>5, <1>7

LEMMA Appended ==
    ASSUME NEW s, IsString(s), NEW text, NEW x, text = <<>> \/ text = <<x>>
    PROVE  /\ IsString(AppendTo(s, text))
           /\ text = <<x>> => ~IsEmpty(AppendTo(s, text))
<1>1. PICK T : s.text \in Seq(T)
  BY DEF IsString
<1>2. PICK U : U = T \cup {x}
  OBVIOUS
<1>3. PICK a \in Seq(U) : a = s.text
  BY <1>1, <1>2, Wider
<1>4. PICK b \in Seq(U) : b = text
  <2>1. <<>> \in Seq(U)
    OBVIOUS
  <2>2. x \in U
    BY <1>2
  <2>3. <<x>> \in Seq(U)
    BY <2>2
  <2> QED
    BY <2>1, <2>3
<1>5. PICK w \in Seq(U) : w = a \o b
  <2>1. a \o b \in Seq(U)
    OBVIOUS
  <2> QED
    BY <2>1
<1>6. text = <<x>> => w # <<>>
  <2> SUFFICES ASSUME text = <<x>> PROVE w # <<>>
    OBVIOUS
  <2>1. x \in U
    BY <1>2
  <2>2. Len(<<x>>) = 1
    OBVIOUS
  <2>3. Len(b) = 1
    BY <1>4, <2>2
  <2>4. Len(w) = Len(a) + Len(b)
    BY <1>5, ConcatProperties
  <2>5. Len(a) \in Nat
    BY LenProperties
  <2>6. Len(w) # 0
    BY <2>3, <2>4, <2>5
  <2> QED
    BY <2>6, EmptySeq
<1>7. Owned(s) = s
  BY DEF Owned, IsString, IsOwn
<1>8. AppendTo(s, text) = Stored(s, w)
  BY <1>3, <1>4, <1>5, <1>7 DEF AppendTo
<1>9. PICK r : r = Stored(s, w)
  OBVIOUS
<1>10. IsOwn(r) /\ r.text = w
  <2>1. CASE Len(w) + 1 <= s.capacity
    <3>1. r = [s EXCEPT !.text = w]
      BY <1>9, <2>1 DEF Stored
    <3>2. DOMAIN r = {"type", "text", "capacity"} /\ r.type = s.type /\ r.text = w
      BY <3>1 DEF IsString, IsOwn
    <3> QED
      BY <3>2 DEF IsString, IsOwn
  <2>2. CASE ~(Len(w) + 1 <= s.capacity)
    <3>1. r = [type |-> "Dynamic", text |-> w, capacity |-> 2 * Len(w)]
      BY <1>9, <2>2 DEF Stored, Str
    <3> QED
      BY <3>1 DEF IsOwn
  <2> QED
    BY <2>1, <2>2
<1>11. IsString(r) /\ (text = <<x>> => ~IsEmpty(r))
  BY <1>6, <1>10 DEF IsString, IsEmpty
<1> QED
  BY <1>8, <1>9, <1>11

LEMMA LoweredOwn ==
    ASSUME NEW s, IsOwn(s)
    PROVE  IsOwn(LowerCase(s))
<1>1. PICK v : v = Lowered(s.text)
  OBVIOUS
<1>2. PICK r : r = [s EXCEPT !.text = v]
  OBVIOUS
<1>3. LowerCase(s) = r
  BY <1>1, <1>2 DEF LowerCase
<1>4. DOMAIN r = {"type", "text", "capacity"} /\ r.type = s.type
  BY <1>2 DEF IsOwn
<1> QED
  BY <1>3, <1>4 DEF IsOwn

\* A map of which every assertion held.
MapHolds(m) == DOMAIN m = {"list", "inline", "asserts"} /\ m.asserts = TRUE

LEMMA InsertHolds ==
    ASSUME NEW m, MapHolds(m), NEW key, IsOwn(key), NEW value, IsOwn(value)
    PROVE  LET r == InsertByKey(m, key, value)
           IN  /\ MapHolds(r.map)
               /\ IsString(r.key) /\ IsEmpty(r.key) /\ IsString(r.value) /\ IsEmpty(r.value)
<1>1. PICK r : r = InsertByKey(m, key, value)
  OBVIOUS
<1>2. \A v : MapHolds([m EXCEPT !.list = v])
  BY DEF MapHolds
<1>3. CASE key.text \in DOMAIN Canonical
  <2>1. PICK n : n = Canonical[key.text]
    OBVIOUS
  <2>2. PICK q : q = MaybeCreateInline(m, n, value)
    OBVIOUS
  <2>3. r = [map |-> q, key |-> Cleared(key), value |-> IF m.inline[n] # 0 THEN Cleared(value) ELSE MovedFrom(value)]
    BY <1>1, <1>3, <2>1, <2>2 DEF InsertByKey, Inserted
  <2>4. MapHolds(q)
    <3>1. CASE m.inline[n] # 0
      BY <2>2, <3>1 DEF MaybeCreateInline
    <3>2. CASE ~(m.inline[n] # 0)
      <4>1. PICK u, v : q = [m EXCEPT !.inline = u, !.list = v]
        <5>1. q = [m EXCEPT !.inline[n] = Address(m), !.list = Append(@, Entry(Address(m), RefTo(n), value))]
          BY <2>2, <3>2 DEF MaybeCreateInline
        <5>2. PICK u : u = [m.inline EXCEPT ![n] = Address(m)]
          OBVIOUS
        <5>3. PICK v : v = Append(m.list, Entry(Address(m), RefTo(n), value))
          OBVIOUS
        <5>4. q = [m EXCEPT !.inline = u, !.list = v]
          BY <5>1, <5>2, <5>3 DEF MapHolds
        <5> QED
          BY <5>4
      <4> QED
        BY <4>1 DEF MapHolds
    <3> QED
      BY <3>1, <3>2
  <2>5. r.map = q /\ r.key = Cleared(key) /\ (r.value = Cleared(value) \/ r.value = MovedFrom(value))
    BY <2>3
  <2> QED
    BY <1>1, <2>4, <2>5, Emptied
<1>4. CASE key.text \notin DOMAIN Canonical
  <2>1. PICK v : v = Append(m.list, Entry(Address(m), key, value))
    OBVIOUS
  <2>2. r = [map |-> [m EXCEPT !.list = v], key |-> MovedFrom(key), value |-> MovedFrom(value)]
    BY <1>1, <1>4, <2>1 DEF InsertByKey, Inserted
  <2>3. r.map = [m EXCEPT !.list = v] /\ r.key = MovedFrom(key) /\ r.value = MovedFrom(value)
    BY <2>2
  <2> QED
    BY <1>1, <1>2, <2>3, Emptied
<1> QED
  BY <1>3, <1>4

FieldNames == {"map", "state", "field", "value", "deferred", "sound"}

\* The strings and the map between headers, where the parser takes what e says next: no
\* value without a name, and both are empty when a header has been completed.
FieldsHold(f, e) ==
    /\ DOMAIN f = FieldNames /\ f.sound = TRUE
    /\ IsString(f.field) /\ IsString(f.value)
    /\ e = "head" => /\ f.state \in {"Field", "Value"} /\ MapHolds(f.map)
                     /\ f.state = "Field" => IsEmpty(f.value)
                     /\ f.state = "Value" => ~IsEmpty(f.field)
    /\ e # "head" => f.map = NoMap /\ IsEmpty(f.field) /\ IsEmpty(f.value)
    /\ e = "body" => f.state = "Done"
    /\ e = "begin" => f.state \in {"Field", "Done"}

Completed(g) ==
    /\ DOMAIN g = FieldNames /\ g.sound = TRUE /\ g.state = "Field" /\ MapHolds(g.map)
    /\ IsString(g.field) /\ IsEmpty(g.field) /\ IsString(g.value) /\ IsEmpty(g.value)

\* completeLastHeader() finds both strings moved from.
LEMMA CompletedHolds ==
    ASSUME NEW f, FieldsHold(f, "head")
    PROVE  Completed(CompleteLastHeader(f))
<1>1. PICK g : g = CompleteLastHeader(f)
  OBVIOUS
<1>2. CASE IsEmpty(f.field)
  <2>1. IsEmpty(f.value)
    BY <1>2 DEF FieldsHold
  <2>2. PICK b : b = (f.sound /\ IsEmpty(f.field) /\ IsEmpty(f.value))
    OBVIOUS
  <2>3. b = TRUE
    BY <1>2, <2>1, <2>2 DEF FieldsHold
  <2>4. g = [f EXCEPT !.state = "Field", !.sound = b]
    BY <1>1, <1>2, <2>2 DEF CompleteLastHeader
  <2>5. /\ DOMAIN g = DOMAIN f /\ g.sound = b /\ g.state = "Field" /\ g.map = f.map
        /\ g.field = f.field /\ g.value = f.value
    BY <2>4 DEF FieldsHold, FieldNames
  <2> QED
    BY <1>1, <1>2, <2>1, <2>3, <2>5 DEF FieldsHold, Completed
<1>3. CASE ~IsEmpty(f.field)
  <2>1. PICK r : r = InsertByKey(f.map, LowerCase(f.field), f.value)
    OBVIOUS
  <2>2. /\ MapHolds(r.map)
        /\ IsString(r.key) /\ IsEmpty(r.key) /\ IsString(r.value) /\ IsEmpty(r.value)
    BY <2>1, InsertHolds, LoweredOwn DEF FieldsHold, IsString
  <2>3. PICK h : h = [f EXCEPT !.map = r.map, !.field = r.key, !.value = r.value]
    OBVIOUS
  <2>4. /\ DOMAIN h = FieldNames /\ h.map = r.map /\ h.field = r.key /\ h.value = r.value
        /\ h.sound = f.sound
    BY <2>3 DEF FieldsHold, FieldNames
  <2>5. PICK b : b = (h.sound /\ IsEmpty(h.field) /\ IsEmpty(h.value))
    OBVIOUS
  <2>6. b = TRUE
    BY <2>2, <2>4, <2>5 DEF FieldsHold
  <2>7. g = [h EXCEPT !.state = "Field", !.sound = b]
    BY <1>1, <1>3, <2>1, <2>3, <2>5 DEF CompleteLastHeader
  <2>8. /\ DOMAIN g = DOMAIN h /\ g.sound = b /\ g.state = "Field" /\ g.map = h.map
        /\ g.field = h.field /\ g.value = h.value
    BY <2>4, <2>7 DEF FieldNames
  <2> QED
    BY <1>1, <2>2, <2>4, <2>6, <2>8 DEF Completed
<1> QED
  BY <1>2, <1>3

\* A piece of a name.
LEMMA FieldHolds ==
    ASSUME NEW f, NEW e \in {"head", "body"}, FieldsHold(f, e), NEW x
    PROVE  LET g == OnHeaderField(f, <<x>>)
           IN  FieldsHold(g, e) /\ (e = "head" => ~IsEmpty(g.field))
<1>1. PICK g : g = OnHeaderField(f, <<x>>)
  OBVIOUS
<1>2. CASE e = "body"
  <2>1. f.state = "Done"
    BY <1>2 DEF FieldsHold
  <2>2. g = f
    BY <1>1, <2>1 DEF OnHeaderField
  <2> QED
    BY <1>1, <1>2, <2>2
<1>3. CASE e = "head"
  <2>1. PICK h : h = IF f.state = "Value" THEN CompleteLastHeader(f) ELSE f
    OBVIOUS
  <2>2. /\ DOMAIN h = FieldNames /\ h.sound = TRUE /\ h.state = "Field" /\ MapHolds(h.map)
        /\ IsString(h.field) /\ IsString(h.value) /\ IsEmpty(h.value)
    <3>1. CASE f.state = "Value"
      <4>1. Completed(h)
        BY <1>3, <2>1, <3>1, CompletedHolds
      <4> QED
        BY <4>1 DEF Completed
    <3>2. CASE f.state # "Value"
      <4>1. h = f /\ f.state = "Field"
        BY <1>3, <2>1, <3>2 DEF FieldsHold
      <4> QED
        BY <1>3, <4>1 DEF FieldsHold
    <3> QED
      BY <3>1, <3>2
  <2>3. PICK s : s = AppendTo(h.field, <<x>>)
    OBVIOUS
  <2>4. IsString(s) /\ ~IsEmpty(s)
    BY <2>2, <2>3, Appended
  <2>5. f.state # "Done"
    BY <1>3 DEF FieldsHold
  <2>6. g = [h EXCEPT !.field = s]
    BY <1>1, <2>1, <2>3, <2>5 DEF OnHeaderField
  <2>7. /\ DOMAIN g = FieldNames /\ g.sound = h.sound /\ g.state = h.state /\ g.map = h.map
        /\ g.field = s /\ g.value = h.value
    BY <2>2, <2>6 DEF FieldNames
  <2>8. FieldsHold(g, e) /\ ~IsEmpty(g.field)
    BY <1>3, <2>2, <2>4, <2>7 DEF FieldsHold
  <2> QED
    BY <1>1, <2>8
<1> QED
  BY <1>2, <1>3

\* A piece of a value, which follows a name.
LEMMA ValueHolds ==
    ASSUME NEW f, NEW e \in {"head", "body"}, FieldsHold(f, e), NEW text, NEW x, text = <<>> \/ text = <<x>>,
           e = "head" => ~IsEmpty(f.field)
    PROVE  LET g == OnHeaderValue(f, text)
           IN  FieldsHold(g, e) /\ (e = "head" => ~IsEmpty(g.field))
<1>1. PICK g : g = OnHeaderValue(f, text)
  OBVIOUS
<1>2. CASE e = "body"
  <2>1. f.state = "Done"
    BY <1>2 DEF FieldsHold
  <2>2. g = f
    BY <1>1, <2>1 DEF OnHeaderValue
  <2> QED
    BY <1>1, <1>2, <2>2
<1>3. CASE e = "head"
  <2>1. PICK s : s = AppendTo(f.value, text)
    OBVIOUS
  <2>2. IsString(s)
    BY <2>1, Appended DEF FieldsHold
  <2>3. f.state # "Done"
    BY <1>3 DEF FieldsHold
  <2>4. g = [f EXCEPT !.state = "Value", !.value = s]
    BY <1>1, <2>1, <2>3 DEF OnHeaderValue
  <2>5. /\ DOMAIN g = FieldNames /\ g.sound = f.sound /\ g.state = "Value" /\ g.map = f.map
        /\ g.field = f.field /\ g.value = s
    BY <2>4 DEF FieldsHold, FieldNames
  <2>6. FieldsHold(g, e) /\ ~IsEmpty(g.field)
    BY <1>3, <2>2, <2>5 DEF FieldsHold
  <2> QED
    BY <1>1, <2>6
<1> QED
  BY <1>2, <1>3

-----------------------------------------------------------------------------
(* The first of a sequence, and joined sequences one after the other *)

UpTo(t, k) == [a \in 1..k |-> t[a]]

LEMMA UpToMore ==
    ASSUME NEW t, NEW k \in Nat, NEW x, x = t[k + 1]
    PROVE  /\ UpTo(t, 0) = <<>> /\ Len(UpTo(t, k)) = k /\ DOMAIN UpTo(t, k) = 1..k
           /\ UpTo(t, k) \o <<x>> = UpTo(t, k + 1)
           /\ Append(UpTo(t, k), x) = UpTo(t, k + 1)
<1>1. PICK S : S = {t[a] : a \in 1..k} \cup {x}
  OBVIOUS
<1>2. PICK u : u = UpTo(t, k)
  OBVIOUS
<1>3. u = [a \in 1..k |-> t[a]]
  BY <1>2 DEF UpTo
<1>4. u \in Seq(S) /\ Len(u) = k /\ \A a \in 1..k : u[a] = t[a]
  BY <1>1, <1>3
<1>5. x \in S
  BY <1>1
<1>6. PICK v \in Seq(S) : v = Append(u, x)
  <2>1. Append(u, x) \in Seq(S)
    BY <1>4, <1>5
  <2> QED
    BY <2>1
<1>7. Len(v) = k + 1 /\ v[k + 1] = x /\ \A a \in 1..k : v[a] = u[a]
  BY <1>4, <1>5, <1>6
<1>8. v = [a \in 1..(k + 1) |-> v[a]]
  BY <1>7
<1>9. \A a \in 1..(k + 1) : v[a] = t[a]
  <2>1. \A a \in 1..(k + 1) : a \in 1..k \/ a = k + 1
    OBVIOUS
  <2> QED
    BY <1>4, <1>7, <2>1
<1>10. v = UpTo(t, k + 1)
  BY <1>8, <1>9 DEF UpTo
<1>11. u \o <<x>> = v
  BY <1>4, <1>5, <1>6
<1>12. UpTo(t, 0) = <<>>
  BY DEF UpTo
<1>13. DOMAIN u = 1..k
  BY <1>3
<1> QED
  BY <1>2, <1>4, <1>6, <1>10, <1>11, <1>12, <1>13

\* The first k sequences of q, joined, and where the j-th of them begins.
Joint(q, k) == FlattenSeq(UpTo(q, k))
Start(q, j) == Len(Joint(q, j - 1))

LEMMA JointNext ==
    ASSUME NEW S, NEW q \in Seq(Seq(S))
    PROVE  /\ Joint(q, 0) = <<>> /\ Joint(q, Len(q)) = FlattenSeq(q)
           /\ \A k \in 0..Len(q) : Joint(q, k) \in Seq(S) /\ Len(Joint(q, k)) \in Nat
           /\ \A k \in 0..Len(q) : k < Len(q) => Joint(q, k + 1) = Joint(q, k) \o q[k + 1]
<1>1. PICK L \in Nat : L = Len(q) /\ q = [a \in 1..L |-> q[a]]
  <2>1. \A x \in Seq(Seq(S)) : Len(x) \in Nat /\ x = [a \in 1..Len(x) |-> x[a]]
    OBVIOUS
  <2> QED
    BY <2>1
<1>2. \A a \in 1..L : q[a] \in Seq(S)
  BY <1>1, ElementOfSeq
<1>3. ASSUME NEW k \in 0..L PROVE UpTo(q, k) \in Seq(Seq(S))
  <2>1. PICK T : T = Seq(S)
    OBVIOUS
  <2>2. \A a \in 1..k : q[a] \in T
    BY <1>2, <2>1
  <2>3. UpTo(q, k) \in [1..k -> T]
    BY <2>2 DEF UpTo
  <2>4. UpTo(q, k) \in Seq(T)
    BY <2>3
  <2> QED
    BY <2>1, <2>4
<1>4. ASSUME NEW k \in 0..L PROVE Joint(q, k) \in Seq(S) /\ Len(Joint(q, k)) \in Nat
  <2>1. Joint(q, k) \in Seq(S)
    BY <1>3, JoinedType DEF Joint
  <2> QED
    BY <2>1, LenProperties
<1>5. ASSUME NEW k \in 0..L, k < L PROVE Joint(q, k + 1) = Joint(q, k) \o q[k + 1]
  <2>1. k \in Nat /\ k + 1 \in 1..L
    BY <1>5
  <2>2. PICK x \in Seq(S) : x = q[k + 1]
    BY <1>2, <2>1
  <2>3. Append(UpTo(q, k), x) = UpTo(q, k + 1)
    BY <2>1, <2>2, UpToMore
  <2>4. FlattenSeq(Append(UpTo(q, k), x)) = FlattenSeq(UpTo(q, k)) \o x
    BY <1>3, JoinedAppend
  <2> QED
    BY <2>2, <2>3, <2>4 DEF Joint
<1>6. Joint(q, 0) = <<>>
  <2>1. UpTo(q, 0) = <<>>
    BY DEF UpTo
  <2>2. FlattenSeq(<<>>) = <<>>
    <3>1. Len(<<>>) = 0
      OBVIOUS
    <3> QED
      BY <3>1 DEF FlattenSeq
  <2> QED
    BY <2>1, <2>2 DEF Joint
<1>7. Joint(q, L) = FlattenSeq(q)
  BY <1>1 DEF Joint, UpTo
<1> QED
  BY <1>1, <1>4, <1>5, <1>6, <1>7

\* The k-th state of a joint is the one before with the k-th sequence.
Grown(q, k) ==
    /\ Start(q, k) \in Nat /\ Len(q[k]) \in Nat
    /\ Len(Joint(q, k)) = Start(q, k) + Len(q[k])
    /\ \A x \in 1..Start(q, k) : Joint(q, k)[x] = Joint(q, k - 1)[x]
    /\ \A m \in 1..Len(q[k]) : Joint(q, k)[Start(q, k) + m] = q[k][m]

LEMMA JointGrows == ASSUME NEW S, NEW q \in Seq(Seq(S)), NEW k \in 1..Len(q) PROVE Grown(q, k)
<1>1. PICK L \in Nat : L = Len(q)
  BY LenProperties
<1>2. PICK h \in 0..L : h = k - 1 /\ h + 1 = k /\ h < L
  BY <1>1
<1>3. PICK a \in Seq(S) : a = Joint(q, h)
  BY <1>1, <1>2, JointNext
<1>4. PICK b \in Seq(S) : b = q[k]
  BY ElementOfSeq
<1>5. Joint(q, k) = a \o b
  BY <1>1, <1>2, <1>3, <1>4, JointNext
<1>6. PICK M \in Nat, N \in Nat : M = Len(a) /\ N = Len(b)
  BY LenProperties
<1>7. PICK w : w = a \o b
  OBVIOUS
<1>8. Len(w) = M + N /\ \A x \in 1..(M + N) : w[x] = IF x <= M THEN a[x] ELSE b[x - M]
  BY <1>6, <1>7, ConcatProperties
<1>9. Start(q, k) = M
  BY <1>2, <1>3, <1>6 DEF Start
<1>10. \A x \in 1..M : w[x] = a[x]
  <2>1. \A x \in 1..M : x \in 1..(M + N) /\ x <= M
    OBVIOUS
  <2> QED
    BY <1>8, <2>1
<1>11. \A m \in 1..N : w[M + m] = b[m]
  <2>1. \A m \in 1..N : M + m \in 1..(M + N) /\ ~(M + m <= M) /\ (M + m) - M = m
    OBVIOUS
  <2> QED
    BY <1>8, <2>1
<1> QED
  BY <1>2, <1>3, <1>4, <1>5, <1>6, <1>7, <1>8, <1>9, <1>10, <1>11 DEF Grown

LEMMA JointAt ==
    ASSUME NEW S, NEW q \in Seq(Seq(S)), NEW k \in 0..Len(q), NEW i \in 1..k
    PROVE  /\ Len(Joint(q, i)) <= Len(Joint(q, k))
           /\ \A m \in 1..Len(q[i]) : Joint(q, k)[Start(q, i) + m] = q[i][m]
<1>1. PICK L \in Nat : L = Len(q)
  BY LenProperties
<1> DEFINE Ok(n) == /\ Len(Joint(q, i)) <= Len(Joint(q, n))
                    /\ \A m \in 1..Len(q[i]) : Joint(q, n)[Start(q, i) + m] = q[i][m]
           Bad == {n \in i..L : ~Ok(n)}
<1>2. i \in 1..L /\ i \in Nat /\ k \in i..L
  BY <1>1
<1>0. Grown(q, i)
  <2>1. i \in 1..Len(q)
    BY <1>1, <1>2
  <2> QED
    BY <2>1, JointGrows
<1>3. Start(q, i) \in Nat /\ Len(q[i]) \in Nat /\ Len(Joint(q, i)) = Start(q, i) + Len(q[i])
  BY <1>0 DEF Grown
<1>4. CASE Bad # {}
  <2>1. PICK n \in Bad : \A j \in Bad : n <= j
    <3>1. Bad \in SUBSET Nat
      BY <1>2
    <3> HIDE DEF Bad
    <3> QED
      BY <1>4, <3>1, LeastNatural
  <2>2. n \in i..L /\ ~Ok(n)
    BY <2>1
  <2>3. CASE n = i
    <3>1. \A m \in 1..Len(q[i]) : Joint(q, i)[Start(q, i) + m] = q[i][m]
      BY <1>0 DEF Grown
    <3>2. Len(Joint(q, i)) <= Len(Joint(q, i))
      BY <1>3
    <3> QED
      BY <2>2, <2>3, <3>1, <3>2
  <2>4. CASE n # i
    <3>1. n - 1 \in i..L /\ ~(n <= n - 1) /\ n \in 1..L
      BY <1>2, <2>2, <2>4
    <3>2. Ok(n - 1)
      BY <2>1, <3>1
    <3>3. PICK h : h = n - 1
      OBVIOUS
    <3>4. /\ Len(Joint(q, i)) <= Start(q, n)
          /\ \A m \in 1..Len(q[i]) : Joint(q, h)[Start(q, i) + m] = q[i][m]
      BY <3>2, <3>3 DEF Start
    <3>5. /\ Start(q, n) \in Nat /\ Len(q[n]) \in Nat /\ Len(Joint(q, n)) = Start(q, n) + Len(q[n])
          /\ \A x \in 1..Start(q, n) : Joint(q, n)[x] = Joint(q, n - 1)[x]
      <4>1. n \in 1..Len(q)
        BY <1>1, <3>1
      <4>2. Grown(q, n)
        BY <4>1, JointGrows
      <4> QED
        BY <4>2 DEF Grown
    <3>6. PICK s \in Nat, l \in Nat, b \in Nat, e \in Nat :
             /\ s = Start(q, i) /\ l = Len(q[i]) /\ b = Start(q, n) /\ e = Len(q[n])
      BY <1>3, <3>5
    <3>7. Len(Joint(q, i)) = s + l /\ s + l <= b /\ Len(Joint(q, n)) = b + e
      BY <1>3, <3>4, <3>5, <3>6
    <3>8. Len(Joint(q, i)) <= Len(Joint(q, n))
      BY <3>7
    <3>9. ASSUME NEW m \in 1..l PROVE Joint(q, n)[s + m] = q[i][m]
      <4>1. s + m \in 1..b
        BY <3>7
      <4>2. Joint(q, n)[s + m] = Joint(q, h)[s + m]
        BY <3>3, <3>5, <3>6, <4>1
      <4> QED
        BY <3>4, <3>6, <4>2
    <3> QED
      BY <2>2, <3>6, <3>8, <3>9
  <2> QED
    BY <2>3, <2>4
<1>5. CASE Bad = {}
  <2>1. Ok(k)
    BY <1>2, <1>5
  <2> QED
    BY <2>1
<1> QED
  BY <1>4, <1>5

LEMMA JointOf ==
    ASSUME NEW S, NEW q \in Seq(Seq(S)), NEW k \in 0..Len(q), NEW x \in 1..Len(Joint(q, k))
    PROVE  \E i \in 1..k : \E m \in 1..Len(q[i]) : x = Start(q, i) + m
<1>1. PICK L \in Nat : L = Len(q)
  BY LenProperties
<1>2. k \in 0..L /\ Len(Joint(q, k)) \in Nat /\ x \in Nat /\ x <= Len(Joint(q, k)) /\ 1 <= x
  BY <1>1, JointNext
<1> DEFINE Reach == {n \in 0..L : x <= Len(Joint(q, n))}
<1>3. k \in Reach
  BY <1>1, <1>2
<1>4. PICK n \in Reach : \A j \in Reach : n <= j
  <2>1. Reach \in SUBSET Nat
    OBVIOUS
  <2>2. Reach # {}
    BY <1>3
  <2> HIDE DEF Reach
  <2> QED
    BY <2>1, <2>2, LeastNatural
<1>5. n \in 0..L /\ x <= Len(Joint(q, n)) /\ n <= k
  BY <1>3, <1>4
<1>6. n # 0
  <2>1. Len(<<>>) = 0 /\ Joint(q, 0) = <<>>
    BY JointNext
  <2> QED
    BY <1>2, <1>5, <2>1
<1>7. n \in 1..L /\ n - 1 \in 0..L /\ ~(n <= n - 1) /\ n \in 1..k
  BY <1>2, <1>5, <1>6
<1>8. ~(x <= Len(Joint(q, n - 1)))
  BY <1>4, <1>7
<1>9. Start(q, n) = Len(Joint(q, n - 1))
  BY DEF Start
<1>10. Start(q, n) \in Nat /\ Len(q[n]) \in Nat /\ Len(Joint(q, n)) = Start(q, n) + Len(q[n])
  <2>1. Grown(q, n)
    BY <1>1, <1>7, JointGrows
  <2> QED
    BY <2>1 DEF Grown
<1>11. PICK b \in Nat, l \in Nat, y \in Nat : b = Start(q, n) /\ l = Len(q[n]) /\ y = x
  BY <1>2, <1>10
<1>12. y <= b + l /\ ~(y <= b)
  BY <1>5, <1>8, <1>9, <1>10, <1>11
<1>13. y - b \in 1..l /\ y = b + (y - b)
  BY <1>12
<1> QED
  BY <1>7, <1>11, <1>13

-----------------------------------------------------------------------------
(* The header map of a request, and what it reads as *)

StringNames == {"type", "text", "capacity"}

IsEntry(e) ==
    DOMAIN e = {"address", "key", "value"} /\ e.address \in Nat \ {0} /\ DOMAIN e.value = StringNames

\* Addresses tell the entries apart, and the pointer of a name with direct access leads to
\* the one entry of that name.
Linked(m) ==
    /\ MapHolds(m) /\ DOMAIN m.inline = Inlines /\ \E T : m.list \in Seq(T)
    /\ \A i \in 1..Len(m.list) : IsEntry(m.list[i])
    /\ \A i, j \in 1..Len(m.list) : m.list[i].address = m.list[j].address => i = j
    /\ \A i \in 1..Len(m.list) :
          m.list[i].key.text \in Inlines => m.inline[m.list[i].key.text] = m.list[i].address
    /\ \A n \in Inlines : m.inline[n] # 0 =>
          \E i \in 1..Len(m.list) : m.list[i].address = m.inline[n] /\ m.list[i].key.text = n

LEMMA LinkedList ==
    ASSUME NEW m, Linked(m)
    PROVE  /\ Len(m.list) \in Nat /\ DOMAIN m.list = 1..Len(m.list)
           /\ Content(m) = [i \in 1..Len(m.list) |-> <<m.list[i].key.text, m.list[i].value.text>>]
           /\ DOMAIN Content(m) = 1..Len(m.list) /\ Len(Content(m)) = Len(m.list)
           /\ \A i \in 1..Len(m.list) : Content(m)[i][1] = m.list[i].key.text
           /\ \E S : Content(m) \in Seq(S)
<1>1. PICK T : m.list \in Seq(T)
  BY DEF Linked
<1>2. PICK n \in Nat : n = Len(m.list) /\ DOMAIN m.list = 1..n
  BY <1>1, LenProperties
<1>3. PICK p : p = Content(m)
  OBVIOUS
<1>4. p = [i \in 1..n |-> <<m.list[i].key.text, m.list[i].value.text>>]
  BY <1>2, <1>3 DEF Content
<1>5. PICK S : S = {<<m.list[i].key.text, m.list[i].value.text>> : i \in 1..n}
  OBVIOUS
<1>6. p \in [1..n -> S]
  BY <1>4, <1>5
<1>7. p \in Seq(S) /\ Len(p) = n
  <2>1. \A f \in [1..n -> S] : f \in Seq(S) /\ Len(f) = n
    OBVIOUS
  <2> QED
    BY <1>6, <2>1
<1>8. \A i \in 1..n : p[i][1] = m.list[i].key.text
  <2>1. ASSUME NEW i \in 1..n PROVE p[i][1] = m.list[i].key.text
    <3>1. p[i] = <<m.list[i].key.text, m.list[i].value.text>>
      BY <1>4
    <3> QED
      BY <3>1
  <2> QED
    BY <2>1
<1> QED
  BY <1>2, <1>3, <1>4, <1>7, <1>8

\* The content and the entries of a map with the list s of L entries.
TextsOf(s, L) == [i \in 1..L |-> <<s[i].key.text, s[i].value.text>>]
AreEntries(s, L) == \A i \in 1..L : IsEntry(s[i])

LEMMA LinkedContent ==
    ASSUME NEW m, Linked(m), NEW s, s = m.list, NEW L, L = Len(s)
    PROVE  Content(m) = TextsOf(s, L)
BY LinkedList DEF TextsOf

LEMMA LinkedEntries ==
    ASSUME NEW m, Linked(m), NEW s, s = m.list, NEW L, L = Len(s)
    PROVE  AreEntries(s, L)
BY DEF Linked, AreEntries

LEMMA InlineNames == /\ Inlines \subseteq DOMAIN Canonical
                     /\ \A k \in DOMAIN Canonical : Canonical[k] \in Inlines
                     /\ \A n \in Inlines : Canonical[n] = n /\ KnownAs(n) = n
BY CanonicalAssumption DEF Inlines, KnownAs

\* The pointer of a name is set when the name is in the map, and the entry is the only one.
LEMMA PointerNames ==
    ASSUME NEW m, Linked(m), NEW n \in Inlines
    PROVE  /\ m.inline[n] # 0 <=> n \in Names1(Content(m))
           /\ m.inline[n] # 0 => \E i \in 1..Len(m.list) :
                 /\ m.list[i].key.text = n /\ At(m, m.inline[n]) = i
                 /\ \A j \in 1..Len(m.list) : m.list[j].key.text = n => j = i
<1>1. PICK L \in Nat : L = Len(m.list) /\ DOMAIN m.list = 1..L
  BY LinkedList
<1>2. PICK p : p = Content(m) /\ DOMAIN p = 1..L /\ \A i \in 1..L : p[i][1] = m.list[i].key.text
  BY <1>1, LinkedList
<1>3. ASSUME NEW i \in 1..L, m.list[i].key.text = n PROVE m.inline[n] = m.list[i].address /\ m.inline[n] # 0
  BY <1>1, <1>3 DEF Linked, IsEntry
<1>4. n \in Names1(p) <=> \E i \in 1..L : m.list[i].key.text = n
  BY <1>2 DEF Names1
<1>5. m.inline[n] # 0 <=> n \in Names1(p)
  BY <1>1, <1>3, <1>4 DEF Linked
<1>6. ASSUME m.inline[n] # 0
      PROVE  \E i \in 1..L : /\ m.list[i].key.text = n /\ At(m, m.inline[n]) = i
                             /\ \A j \in 1..L : m.list[j].key.text = n => j = i
  <2>1. PICK i \in 1..L : m.list[i].address = m.inline[n] /\ m.list[i].key.text = n
    BY <1>1, <1>6 DEF Linked
  <2>2. \A j \in 1..L : m.list[j].address = m.inline[n] => j = i
    BY <1>1, <2>1 DEF Linked
  <2>3. At(m, m.inline[n]) = CHOOSE j \in 1..L : m.list[j].address = m.inline[n]
    BY <1>1 DEF At
  <2>4. At(m, m.inline[n]) = i
    BY <2>1, <2>2, <2>3
  <2>5. \A j \in 1..L : m.list[j].key.text = n => j = i
    BY <1>3, <2>2
  <2> QED
    BY <2>1, <2>4, <2>5
<1> QED
  BY <1>1, <1>2, <1>5, <1>6

\* There is an address that no entry has.
LEMMA FreeAddress ==
    ASSUME NEW m, Linked(m)
    PROVE  /\ Address(m) \in Nat \ {0}
           /\ \A i \in 1..Len(m.list) : m.list[i].address # Address(m)
<1>1. PICK n \in Nat : n = Len(m.list) /\ DOMAIN m.list = 1..n
  BY LinkedList
<1>2. PICK f : f = [i \in 1..n |-> m.list[i].address]
  OBVIOUS
<1>3. PICK R : R = {f[i] : i \in 1..n}
  OBVIOUS
<1>4. IsFiniteSet(1..n) /\ Cardinality(1..n) = n /\ IsFiniteSet(1..(n + 1)) /\ Cardinality(1..(n + 1)) = n + 1
  <2>1. PICK a \in Int, b \in Int, d \in Int : a = 1 /\ b = n /\ d = n + 1
    OBVIOUS
  <2>2. IsFiniteSet(a..b) /\ Cardinality(a..b) = IF a > b THEN 0 ELSE b-a+1
    BY FS_Interval
  <2>3. IsFiniteSet(a..d) /\ Cardinality(a..d) = IF a > d THEN 0 ELSE d-a+1
    BY FS_Interval
  <2> QED
    BY <2>1, <2>2, <2>3
<1>5. IsFiniteSet(R) /\ Cardinality(R) <= n
  <2>1. f \in [1..n -> R]
    BY <1>2, <1>3
  <2>2. f \in Surjection(1..n, R)
    BY <1>3, <2>1 DEF Surjection
  <2> QED
    BY <1>4, <2>2, FS_Surjection
<1>6. \E a \in 1..(n + 1) : a \notin R
  <2> SUFFICES ASSUME \A a \in 1..(n + 1) : a \in R PROVE FALSE
    OBVIOUS
  <2>1. 1..(n + 1) \in SUBSET R
    OBVIOUS
  <2>2. Cardinality(1..(n + 1)) <= Cardinality(R) /\ Cardinality(R) \in Nat
    BY <1>5, <2>1, FS_Subset, FS_CardinalityType
  <2> QED
    BY <1>4, <1>5, <2>2
<1>7. PICK b \in 1..(n + 1) : \A i \in 1..n : m.list[i].address # b
  BY <1>2, <1>3, <1>6
<1>8. PICK a : a = Address(m)
  OBVIOUS
<1>9. a = CHOOSE x \in 1..(n + 1) : \A i \in 1..n : m.list[i].address # x
  BY <1>1, <1>8 DEF Address
<1>10. a \in 1..(n + 1) /\ \A i \in 1..n : m.list[i].address # a
  BY <1>7, <1>9
<1> QED
  BY <1>1, <1>8, <1>10

LEMMA AppendedAt ==
    ASSUME NEW S, NEW s \in Seq(S), NEW e \in S
    PROVE  /\ Append(s, e) \in Seq(S) /\ Len(s) \in Nat /\ Len(Append(s, e)) = Len(s) + 1
           /\ Append(s, e)[Len(s) + 1] = e /\ \A i \in 1..Len(s) : Append(s, e)[i] = s[i]
           /\ \A i \in 1..(Len(s) + 1) : i \in 1..Len(s) \/ i = Len(s) + 1
OBVIOUS

\* The sequence q is p and d after it.
Longer(q, p, d, n) ==
    /\ n \in Nat /\ Len(p) = n /\ \E S : p \in Seq(S)
    /\ q = [i \in 1..(n + 1) |-> q[i]]
    /\ q[n + 1] = d /\ \A i \in 1..n : q[i] = p[i]

LEMMA AppendIs ==
    ASSUME NEW q, NEW p, NEW d, NEW n, Longer(q, p, d, n)
    PROVE  q = Append(p, d)
<1>1. PICK S : p \in Seq(S)
  BY DEF Longer
<1>2. PICK U : U = S \cup {d}
  OBVIOUS
<1>3. p \in Seq(U) /\ d \in U /\ n \in Nat /\ Len(p) = n
  BY <1>1, <1>2, Wider DEF Longer
<1>4. PICK r \in Seq(U) : r = Append(p, d)
  BY <1>3, AppendedAt
<1>5. Len(r) = n + 1 /\ r[n + 1] = d /\ \A i \in 1..n : r[i] = p[i]
  BY <1>3, <1>4, AppendedAt
<1>6. \A i \in 1..(n + 1) : q[i] = r[i]
  <2>1. \A i \in 1..(n + 1) : i \in 1..n \/ i = n + 1
    BY <1>3
  <2> QED
    BY <1>5, <2>1 DEF Longer
<1>7. r = [i \in 1..(n + 1) |-> r[i]]
  <2>1. r = [i \in 1..Len(r) |-> r[i]]
    OBVIOUS
  <2> QED
    BY <1>5, <2>1
<1>8. q = [i \in 1..(n + 1) |-> q[i]]
  BY DEF Longer
<1> QED
  BY <1>4, <1>6, <1>7, <1>8

\* A list of headers with one more at its end.
Plus(l, name, v) == Append(l, <<name, v>>)

\* A new entry at the end, with the pointer of its name if it has one.
Extended(r, m, a, key, value) ==
    /\ MapHolds(r) /\ a \in Nat \ {0} /\ \A i \in 1..Len(m.list) : m.list[i].address # a
    /\ r.list = Append(m.list, Entry(a, key, value))
    /\ key.text \in Inlines => m.inline[key.text] = 0
    /\ DOMAIN r.inline = Inlines
    /\ \A n \in Inlines : r.inline[n] = IF n = key.text THEN a ELSE m.inline[n]

LEMMA ExtendedLinked ==
    ASSUME NEW m, Linked(m), NEW key, NEW value, DOMAIN value = StringNames,
           NEW a, NEW r, Extended(r, m, a, key, value)
    PROVE  /\ Linked(r) /\ r.list[Len(r.list)].value = value
           /\ Content(r) = Plus(Content(m), key.text, value.text)
<1>0. /\ a \in Nat \ {0} /\ (\A i \in 1..Len(m.list) : m.list[i].address # a)
      /\ (key.text \in Inlines => m.inline[key.text] = 0)
      /\ (\A n \in Inlines : r.inline[n] = IF n = key.text THEN a ELSE m.inline[n])
  BY DEF Extended
<1>1. PICK L \in Nat : L = Len(m.list)
  BY LinkedList
<1>2. PICK e : e = Entry(a, key, value) /\ e.address = a /\ e.key = key /\ e.value = value /\ IsEntry(e)
  <2>1. Entry(a, key, value) = [address |-> a, key |-> key, value |-> value]
    BY DEF Entry
  <2> QED
    BY <1>0, <2>1 DEF IsEntry
<1>3. PICK S : m.list \in Seq(S)
  BY DEF Linked
<1>4. PICK U : U = S \cup {e}
  OBVIOUS
<1>5. PICK s \in Seq(U) : s = m.list
  BY <1>3, <1>4, Wider
<1>6. PICK t \in Seq(U) : t = Append(s, e)
  <2>1. e \in U
    BY <1>4
  <2> QED
    BY <2>1, AppendedAt
<1>7. Len(t) = L + 1 /\ t[L + 1] = e /\ (\A i \in 1..L : t[i] = s[i]) /\ \A i \in 1..(L + 1) : i \in 1..L \/ i = L + 1
  <2>1. e \in U /\ Len(s) = L
    BY <1>1, <1>4, <1>5
  <2> QED
    BY <1>6, <2>1, AppendedAt
<1>8. r.list = t
  BY <1>2, <1>5, <1>6 DEF Extended
<1>9. \A i \in 1..L : IsEntry(s[i]) /\ s[i].address # a /\ s[i].address # 0
  BY <1>0, <1>1, <1>5 DEF Linked, IsEntry
<1>10. \A i \in 1..(L + 1) : IsEntry(t[i])
  BY <1>2, <1>7, <1>9
<1>11. \A i, j \in 1..(L + 1) : t[i].address = t[j].address => i = j
  <2>1. \A i, j \in 1..L : s[i].address = s[j].address => i = j
    BY <1>1, <1>5 DEF Linked
  <2> QED
    BY <1>2, <1>7, <1>9, <2>1
<1>12. ASSUME NEW i \in 1..(L + 1), t[i].key.text \in Inlines PROVE r.inline[t[i].key.text] = t[i].address
  <2>1. CASE i \in 1..L
    <3>1. t[i] = s[i] /\ m.inline[s[i].key.text] = s[i].address
      BY <1>1, <1>5, <1>7, <1>12, <2>1 DEF Linked
    <3>2. s[i].key.text # key.text
      BY <1>0, <1>9, <1>12, <2>1, <3>1
    <3> QED
      BY <1>0, <1>12, <3>1, <3>2
  <2>2. CASE i = L + 1
    BY <1>0, <1>2, <1>7, <1>12, <2>2
  <2> QED
    BY <1>7, <2>1, <2>2
<1>13. ASSUME NEW n \in Inlines, r.inline[n] # 0
       PROVE  \E i \in 1..(L + 1) : t[i].address = r.inline[n] /\ t[i].key.text = n
  <2>1. CASE n = key.text
    <3>1. L + 1 \in 1..(L + 1) /\ t[L + 1].address = r.inline[n] /\ t[L + 1].key.text = n
      BY <1>0, <1>2, <1>7, <2>1
    <3> QED
      BY <3>1
  <2>2. CASE n # key.text
    <3>1. PICK i \in 1..L : s[i].address = m.inline[n] /\ s[i].key.text = n
      BY <1>0, <1>1, <1>5, <1>13, <2>2 DEF Linked
    <3>2. i \in 1..(L + 1) /\ t[i] = s[i]
      BY <1>7, <3>1
    <3> QED
      BY <1>0, <2>2, <3>1, <3>2
  <2> QED
    BY <2>1, <2>2
<1>14. Linked(r)
  <2>1. r.list = t /\ Len(r.list) = L + 1
    BY <1>7, <1>8
  <2>2. MapHolds(r) /\ DOMAIN r.inline = Inlines
    BY DEF Extended
  <2>3. \E T : r.list \in Seq(T)
    BY <1>6, <1>8
  <2> QED
    BY <1>10, <1>11, <1>12, <1>13, <2>1, <2>2, <2>3 DEF Linked
<1>15. PICK p : p = Content(m) /\ Len(p) = L /\ \A i \in 1..L : p[i] = <<s[i].key.text, s[i].value.text>>
  <2>1. Content(m) = [i \in 1..L |-> <<s[i].key.text, s[i].value.text>>] /\ Len(Content(m)) = L
    BY <1>1, <1>5, LinkedList
  <2> QED
    BY <2>1
<1>16. \E T : p \in Seq(T)
  BY <1>15, LinkedList
<1>17. PICK q : q = Content(r)
  OBVIOUS
<1>18. q = [i \in 1..(L + 1) |-> <<t[i].key.text, t[i].value.text>>]
  <2>1. Len(r.list) = L + 1
    BY <1>7, <1>8
  <2>2. Content(r) = [i \in 1..Len(r.list) |-> <<r.list[i].key.text, r.list[i].value.text>>]
    BY <1>14, LinkedList
  <2> QED
    BY <1>8, <1>17, <2>1, <2>2
<1>19. q = [i \in 1..(L + 1) |-> q[i]]
  BY <1>18
<1>20. ASSUME NEW i \in 1..L PROVE q[i] = p[i]
  <2>1. i \in 1..(L + 1) /\ t[i] = s[i]
    BY <1>7
  <2>2. q[i] = <<t[i].key.text, t[i].value.text>>
    BY <1>18, <2>1
  <2>3. p[i] = <<s[i].key.text, s[i].value.text>>
    BY <1>15
  <2> QED
    BY <2>1, <2>2, <2>3
<1>21. PICK d : d = <<key.text, value.text>>
  OBVIOUS
<1>22. q[L + 1] = d
  BY <1>2, <1>7, <1>18, <1>21
<1>23. q = Append(p, d)
  <2>1. Longer(q, p, d, L)
    BY <1>15, <1>16, <1>19, <1>20, <1>22 DEF Longer
  <2> QED
    BY <2>1, AppendIs
<1>24. r.list[Len(r.list)].value = value
  BY <1>2, <1>7, <1>8
<1>25. Content(r) = Plus(Content(m), key.text, value.text)
  BY <1>15, <1>17, <1>21, <1>23 DEF Plus
<1> QED
  BY <1>14, <1>24, <1>25

\* maybeCreateInline() leaves an entry of the name, which keeps its value if it was there.
LEMMA CreateLinked ==
    ASSUME NEW m, Linked(m), NEW n \in Inlines, NEW value, DOMAIN value = StringNames,
           NEW r, r = MaybeCreateInline(m, n, value)
    PROVE  /\ Linked(r) /\ r.inline[n] # 0
           /\ m.inline[n] # 0 => r = m
           /\ m.inline[n] = 0 => Content(r) = Plus(Content(m), n, value.text)
<1>1. r = MaybeCreateInline(m, n, value)
  OBVIOUS
<1>2. CASE m.inline[n] # 0
  BY <1>1, <1>2 DEF MaybeCreateInline
<1>3. CASE m.inline[n] = 0
  <2>1. PICK a : a = Address(m) /\ a \in Nat \ {0} /\ \A i \in 1..Len(m.list) : m.list[i].address # a
    BY FreeAddress
  <2>2. PICK key : key = RefTo(n) /\ key.text = n
    <3>1. RefTo(n) = [type |-> "Reference", text |-> n, capacity |-> Len(n) + 1]
      BY DEF RefTo, Str
    <3>2. RefTo(n).text = n
      BY <3>1
    <3> QED
      BY <3>2
  <2>3. PICK l : l = Append(m.list, Entry(a, key, value))
    OBVIOUS
  <2>4. PICK inl : inl = [m.inline EXCEPT ![n] = a]
    OBVIOUS
  <2>5. r = [m EXCEPT !.inline[n] = a, !.list = l]
    BY <1>1, <1>3, <2>1, <2>2, <2>3 DEF MaybeCreateInline
  <2>6. DOMAIN m = {"list", "inline", "asserts"} /\ m.asserts = TRUE /\ DOMAIN m.inline = Inlines
    BY DEF Linked, MapHolds
  <2>7. r = [m EXCEPT !.inline = inl, !.list = l]
    BY <2>4, <2>5, <2>6
  <2>8. DOMAIN r = {"list", "inline", "asserts"} /\ r.list = l /\ r.inline = inl /\ r.asserts = TRUE
    BY <2>6, <2>7
  <2>9. DOMAIN inl = Inlines /\ \A k \in Inlines : inl[k] = IF k = n THEN a ELSE m.inline[k]
    BY <2>4, <2>6
  <2>10. Extended(r, m, a, key, value)
    <3>1. \A k \in Inlines : r.inline[k] = IF k = key.text THEN a ELSE m.inline[k]
      BY <2>2, <2>8, <2>9
    <3>2. key.text \in Inlines => m.inline[key.text] = 0
      BY <1>3, <2>2
    <3>3. MapHolds(r) /\ DOMAIN r.inline = Inlines /\ r.list = Append(m.list, Entry(a, key, value))
      BY <2>3, <2>8, <2>9 DEF MapHolds
    <3>4. a \in Nat \ {0} /\ \A i \in 1..Len(m.list) : m.list[i].address # a
      BY <2>1
    <3> QED
      BY <3>1, <3>2, <3>3, <3>4, Zenon DEF Extended
  <2>11. Linked(r) /\ Content(r) = Plus(Content(m), key.text, value.text)
    BY <2>10, ExtendedLinked
  <2>12. r.inline[n] # 0
    BY <2>1, <2>8, <2>9
  <2> QED
    BY <1>3, <2>2, <2>11, <2>12
<1> QED
  BY <1>2, <1>3

\* insertByKey() does what a list does that keeps the first of the headers it knows.
ListedAs(list, key, v) ==
    IF key \in DOMAIN Canonical /\ KnownAs(key) \in Names1(list)
    THEN list ELSE Plus(list, KnownAs(key), v)

LEMMA InsertLinked ==
    ASSUME NEW m, Linked(m), NEW key, NEW value, DOMAIN value = StringNames,
           NEW r, r = InsertByKey(m, key, value).map
    PROVE  Linked(r) /\ Content(r) = ListedAs(Content(m), key.text, value.text)
<1>1. CASE key.text \in DOMAIN Canonical
  <2>1. PICK n \in Inlines : n = Canonical[key.text] /\ n = KnownAs(key.text)
    BY <1>1, InlineNames DEF KnownAs
  <2>2. r = MaybeCreateInline(m, n, value)
    <3>1. \A q, k, v : Inserted(q, k, v).map = q
      BY DEF Inserted
    <3>2. PICK k, v : InsertByKey(m, key, value) = Inserted(MaybeCreateInline(m, n, value), k, v)
      BY <1>1, <2>1 DEF InsertByKey
    <3> QED
      BY <3>1, <3>2
  <2>3. /\ Linked(r) /\ (m.inline[n] # 0 => r = m)
        /\ (m.inline[n] = 0 => Content(r) = Plus(Content(m), n, value.text))
    BY <2>2, CreateLinked
  <2>4. m.inline[n] # 0 <=> n \in Names1(Content(m))
    BY PointerNames
  <2> QED
    BY <1>1, <2>1, <2>3, <2>4 DEF ListedAs
<1>2. CASE key.text \notin DOMAIN Canonical
  <2>1. PICK a : a = Address(m) /\ a \in Nat \ {0} /\ \A i \in 1..Len(m.list) : m.list[i].address # a
    BY FreeAddress
  <2>2. PICK l : l = Append(m.list, Entry(a, key, value))
    OBVIOUS
  <2>3. r = [m EXCEPT !.list = l]
    <3>1. \A q, k, v : Inserted(q, k, v).map = q
      BY DEF Inserted
    <3>2. PICK k, v : InsertByKey(m, key, value) = Inserted([m EXCEPT !.list = l], k, v)
      BY <1>2, <2>1, <2>2 DEF InsertByKey
    <3> QED
      BY <3>1, <3>2
  <2>4. DOMAIN m = {"list", "inline", "asserts"} /\ m.asserts = TRUE /\ DOMAIN m.inline = Inlines
    BY DEF Linked, MapHolds
  <2>5. DOMAIN r = {"list", "inline", "asserts"} /\ r.list = l /\ r.inline = m.inline /\ r.asserts = TRUE
    BY <2>3, <2>4
  <2>6. key.text \notin Inlines
    BY <1>2, InlineNames
  <2>7. Extended(r, m, a, key, value)
    <3>1. \A n \in Inlines : r.inline[n] = IF n = key.text THEN a ELSE m.inline[n]
      BY <2>5, <2>6
    <3> QED
      BY <2>1, <2>2, <2>4, <2>5, <2>6, <3>1 DEF Extended, MapHolds
  <2>8. Linked(r) /\ Content(r) = Plus(Content(m), key.text, value.text)
    BY <2>7, ExtendedLinked
  <2>9. KnownAs(key.text) = key.text
    BY <1>2 DEF KnownAs
  <2> QED
    BY <1>2, <2>8, <2>9 DEF ListedAs
<1> QED
  BY <1>1, <1>2

LEMMA CopiedText ==
    ASSUME NEW s, DOMAIN s = StringNames, NEW text
    PROVE  DOMAIN SetCopy(s, text) = StringNames /\ SetCopy(s, text).text = text
<1>1. PICK o : o = Owned(s)
  OBVIOUS
<1>2. DOMAIN o = StringNames
  BY <1>1 DEF Owned, EmptyString, Str, StringNames
<1>3. PICK r : r = Stored(o, text)
  OBVIOUS
<1>4. CASE Len(text) + 1 <= o.capacity
  <2>1. r = [o EXCEPT !.text = text]
    BY <1>3, <1>4 DEF Stored
  <2>2. DOMAIN r = StringNames /\ r.text = text
    BY <1>2, <2>1 DEF StringNames
  <2> QED
    BY <1>1, <1>3, <2>2 DEF SetCopy
<1>5. CASE ~(Len(text) + 1 <= o.capacity)
  <2>1. r = [type |-> "Dynamic", text |-> text, capacity |-> 2 * Len(text)]
    BY <1>3, <1>5 DEF Stored, Str
  <2>2. DOMAIN r = StringNames /\ r.text = text
    BY <2>1 DEF StringNames
  <2> QED
    BY <1>1, <1>3, <2>2 DEF SetCopy
<1> QED
  BY <1>4, <1>5

\* The map with another value in the i-th of its entries, and the list.
NewValue(m, i, w) == [m EXCEPT !.list[i].value = w]
NewText(l, n, v) == [j \in DOMAIN l |-> IF l[j][1] = n THEN <<n, v>> ELSE l[j]]

LEMMA ValueLinked ==
    ASSUME NEW m, Linked(m), NEW n \in Inlines, m.inline[n] # 0,
           NEW i, i = At(m, m.inline[n]), NEW w, DOMAIN w = StringNames,
           NEW r, r = NewValue(m, i, w)
    PROVE  Linked(r) /\ Content(r) = NewText(Content(m), n, w.text)
<1>1. PICK L \in Nat : L = Len(m.list) /\ DOMAIN m.list = 1..L
  BY LinkedList
<1>2. PICK S : m.list \in Seq(S)
  BY DEF Linked
<1>3. i \in 1..L /\ m.list[i].key.text = n /\ \A j \in 1..L : m.list[j].key.text = n => j = i
  BY <1>1, PointerNames
<1>4. PICK e : e = [m.list[i] EXCEPT !.value = w]
  OBVIOUS
<1>5. IsEntry(e) /\ e.address = m.list[i].address /\ e.key = m.list[i].key /\ e.value = w
  <2>1. IsEntry(m.list[i])
    BY <1>1, <1>3 DEF Linked
  <2> QED
    BY <1>4, <2>1 DEF IsEntry
<1>6. PICK U : U = S \cup {e}
  OBVIOUS
<1>7. PICK s \in Seq(U) : s = m.list
  BY <1>2, <1>6, Wider
<1>8. PICK t : t = [s EXCEPT ![i] = e]
  OBVIOUS
<1>9. t \in Seq(U) /\ Len(t) = L /\ DOMAIN t = 1..L /\ \A j \in 1..L : t[j] = IF j = i THEN e ELSE s[j]
  <2>1. DOMAIN s = 1..L /\ Len(s) = L
    BY <1>1, <1>7
  <2>2. \A j \in 1..L : s[j] \in U
    BY <2>1, ElementOfSeq
  <2>3. e \in U
    BY <1>6
  <2>4. t = [j \in 1..L |-> IF j = i THEN e ELSE s[j]]
    BY <1>8, <2>1
  <2>5. t \in [1..L -> U]
    BY <2>2, <2>3, <2>4
  <2> QED
    BY <2>4, <2>5
<1>10. DOMAIN m = {"list", "inline", "asserts"} /\ m.asserts = TRUE
  BY DEF Linked, MapHolds
<1>11. r = [m EXCEPT !.list = t]
  BY <1>4, <1>7, <1>8, <1>10 DEF NewValue
<1>12. DOMAIN r = {"list", "inline", "asserts"} /\ r.list = t /\ r.inline = m.inline /\ r.asserts = TRUE
  BY <1>10, <1>11
<1>13. \A j \in 1..L : t[j].address = s[j].address /\ t[j].key = s[j].key
  BY <1>5, <1>7, <1>9
<1>14. \A j \in 1..L : IsEntry(t[j])
  <2>1. \A j \in 1..L : IsEntry(s[j])
    <3>1. s = m.list /\ L = Len(s)
      BY <1>1, <1>7
    <3>2. AreEntries(s, L)
      BY <3>1, LinkedEntries, ZenonT(30)
    <3> QED
      BY <3>2 DEF AreEntries
  <2> QED
    BY <1>5, <1>9, <2>1
<1>15. Linked(r)
  <2>1. r.list = t /\ Len(r.list) = L
    BY <1>9, <1>12
  <2>2. \A j \in 1..Len(r.list) : IsEntry(r.list[j])
    BY <1>14, <2>1
  <2>3. \A a, b \in 1..Len(r.list) : r.list[a].address = r.list[b].address => a = b
    <3>1. \A a, b \in 1..L : s[a].address = s[b].address => a = b
      BY <1>1, <1>7 DEF Linked
    <3> QED
      BY <1>13, <2>1, <3>1
  <2>4. \A j \in 1..Len(r.list) :
           r.list[j].key.text \in Inlines => r.inline[r.list[j].key.text] = r.list[j].address
    <3>1. \A j \in 1..L : s[j].key.text \in Inlines => m.inline[s[j].key.text] = s[j].address
      BY <1>1, <1>7 DEF Linked
    <3> QED
      BY <1>12, <1>13, <2>1, <3>1
  <2>5. \A q \in Inlines : r.inline[q] # 0 =>
            \E j \in 1..Len(r.list) : r.list[j].address = r.inline[q] /\ r.list[j].key.text = q
    <3>1. \A q \in Inlines : m.inline[q] # 0 => \E j \in 1..L : s[j].address = m.inline[q] /\ s[j].key.text = q
      BY <1>1, <1>7 DEF Linked
    <3> QED
      BY <1>12, <1>13, <2>1, <3>1
  <2>6. MapHolds(r) /\ DOMAIN r.inline = Inlines /\ \E T : r.list \in Seq(T)
    BY <1>9, <1>12 DEF Linked, MapHolds
  <2> QED
    BY <2>2, <2>3, <2>4, <2>5, <2>6 DEF Linked
<1>16. PICK p : p = Content(m) /\ DOMAIN p = 1..L /\ \A j \in 1..L : p[j] = <<s[j].key.text, s[j].value.text>>
  <2>0. s = m.list /\ L = Len(s)
    BY <1>1, <1>7
  <2>1. Content(m) = [j \in 1..L |-> <<s[j].key.text, s[j].value.text>>]
    <3>1. Content(m) = TextsOf(s, L)
      BY <2>0, LinkedContent, Zenon
    <3> QED
      BY <3>1 DEF TextsOf
  <2> QED
    BY <2>1
<1>17. Content(r) = [j \in 1..L |-> <<t[j].key.text, t[j].value.text>>]
  <2>1. t = r.list /\ L = Len(t)
    BY <1>9, <1>12
  <2> QED
    <3>1. Content(r) = TextsOf(t, L)
      BY <1>15, <2>1, LinkedContent, Zenon
    <3> QED
      BY <3>1 DEF TextsOf
<1>18. ASSUME NEW j \in 1..L
       PROVE  <<t[j].key.text, t[j].value.text>> = IF p[j][1] = n THEN <<n, w.text>> ELSE p[j]
  <2>1. p[j] = <<s[j].key.text, s[j].value.text>>
    BY <1>16
  <2>2. p[j][1] = s[j].key.text
    BY <2>1
  <2>3. CASE j = i
    <3>1. t[j].key.text = n /\ t[j].value.text = w.text /\ p[j][1] = n
      BY <1>3, <1>5, <1>7, <1>9, <2>2, <2>3
    <3> QED
      BY <3>1
  <2>4. CASE j # i
    <3>1. t[j] = s[j] /\ p[j][1] # n
      BY <1>3, <1>7, <1>9, <2>2, <2>4
    <3> QED
      BY <2>1, <3>1
  <2> QED
    BY <2>3, <2>4
<1>19. Content(r) = [j \in 1..L |-> IF p[j][1] = n THEN <<n, w.text>> ELSE p[j]]
  BY <1>17, <1>18
<1>20. Content(r) = NewText(p, n, w.text)
  BY <1>16, <1>19 DEF NewText
<1> QED
  BY <1>15, <1>16, <1>20

\* insert<Name>().value(v) gives the header of the name its value, and makes it if need be.
LEMMA WithValueLinked ==
    ASSUME NEW m, Linked(m), NEW n \in Inlines, NEW v, NEW r, r = WithValue(m, n, v)
    PROVE  /\ Linked(r) /\ Content(r) = Replaced1(Content(m), n, v)
           /\ n \notin Names1(Content(m)) => Content(r) = Plus(Content(m), n, v)
<1>1. PICK c : c = MaybeCreateInline(m, n, EmptyString)
  OBVIOUS
<1>2. DOMAIN EmptyString = StringNames /\ EmptyString.text = <<>>
  BY DEF EmptyString, Str, StringNames
<1>3. /\ Linked(c) /\ c.inline[n] # 0 /\ (m.inline[n] # 0 => c = m)
      /\ (m.inline[n] = 0 => Content(c) = Plus(Content(m), n, <<>>))
  <2>1. PICK x : x = EmptyString /\ DOMAIN x = StringNames /\ x.text = <<>>
    BY <1>2
  <2>2. c = MaybeCreateInline(m, n, x)
    BY <1>1, <2>1
  <2>3. /\ Linked(c) /\ c.inline[n] # 0 /\ (m.inline[n] # 0 => c = m)
        /\ (m.inline[n] = 0 => Content(c) = Plus(Content(m), n, x.text))
    BY <2>1, <2>2, CreateLinked
  <2> QED
    BY <2>1, <2>3
<1>4. PICK i : i = At(c, c.inline[n])
  OBVIOUS
<1>5. i \in 1..Len(c.list)
  BY <1>3, <1>4, PointerNames
<1>6. PICK w : w = SetCopy(c.list[i].value, v) /\ DOMAIN w = StringNames /\ w.text = v
  <2>1. DOMAIN c.list[i].value = StringNames
    BY <1>3, <1>5 DEF Linked, IsEntry
  <2> QED
    BY <2>1, CopiedText
<1>7. r = NewValue(c, i, w)
  BY <1>1, <1>4, <1>6 DEF WithValue, NewValue
<1>8. Linked(r) /\ Content(r) = NewText(Content(c), n, v)
  <2>1. Linked(r) /\ Content(r) = NewText(Content(c), n, w.text)
    BY <1>3, <1>4, <1>6, <1>7, ValueLinked
  <2> QED
    BY <1>6, <2>1
<1>9. m.inline[n] # 0 <=> n \in Names1(Content(m))
  BY PointerNames
<1>10. CASE n \in Names1(Content(m))
  <2>1. c = m
    BY <1>3, <1>9, <1>10
  <2>2. Replaced1(Content(m), n, v) = NewText(Content(m), n, v)
    BY <1>10 DEF Replaced1, NewText
  <2> QED
    BY <1>8, <1>10, <2>1, <2>2
<1>11. CASE n \notin Names1(Content(m))
  <2>1. PICK p : p = Content(m) /\ \E S : p \in Seq(S)
    BY LinkedList
  <2>2. PICK L \in Nat : L = Len(p) /\ DOMAIN p = 1..L
    <3>1. PICK K \in Nat : K = Len(m.list) /\ Len(Content(m)) = K /\ DOMAIN Content(m) = 1..K
      BY LinkedList
    <3> QED
      BY <2>1, <3>1
  <2>0. PICK e : e = <<>>
    OBVIOUS
  <2>a. PICK d : d = <<n, e>>
    OBVIOUS
  <2>b. d[1] = n
    BY <2>a
  <2>3. d = <<n, <<>>>> /\ d[1] = n
    BY <2>0, <2>a, <2>b, Zenon
  <2>4. PICK a : a = Content(c) /\ a = Append(p, d)
    BY <1>3, <1>9, <1>11, <2>1, <2>3 DEF Plus
  <2>5. Len(a) = L + 1 /\ DOMAIN a = 1..(L + 1) /\ a[L + 1] = d /\ \A j \in 1..L : a[j] = p[j]
    <3>1. PICK S : p \in Seq(S)
      BY <2>1
    <3>2. PICK U : U = S \cup {d}
      OBVIOUS
    <3>3. p \in Seq(U) /\ d \in U
      BY <3>1, <3>2, Wider
    <3>4. /\ Append(p, d) \in Seq(U) /\ Len(Append(p, d)) = Len(p) + 1
          /\ Append(p, d)[Len(p) + 1] = d /\ \A j \in 1..Len(p) : Append(p, d)[j] = p[j]
      BY <3>3, AppendedAt
    <3>5. a \in Seq(U) /\ Len(a) = L + 1 /\ a[L + 1] = d /\ \A j \in 1..L : a[j] = p[j]
      BY <2>2, <2>4, <3>4
    <3> QED
      BY <3>5, LenProperties
  <2>6. PICK q : q = NewText(a, n, v) /\ q = [j \in 1..(L + 1) |-> IF a[j][1] = n THEN <<n, v>> ELSE a[j]]
    BY <2>5 DEF NewText
  <2>7. PICK g : g = <<n, v>>
    OBVIOUS
  <2>8. q[L + 1] = g
    <3>1. L + 1 \in 1..(L + 1)
      OBVIOUS
    <3> QED
      BY <2>3, <2>5, <2>6, <2>7, <3>1
  <2>9. ASSUME NEW j \in 1..L PROVE q[j] = p[j]
    <3>1. j \in 1..(L + 1) /\ a[j] = p[j]
      BY <2>5
    <3>2. p[j][1] # n
      BY <1>11, <2>1, <2>2 DEF Names1
    <3> QED
      BY <2>6, <3>1, <3>2
  <2>10. q = [j \in 1..(L + 1) |-> q[j]]
    BY <2>6
  <2>11. Longer(q, p, g, L)
    BY <2>1, <2>2, <2>8, <2>9, <2>10 DEF Longer
  <2>12. q = Append(p, g)
    BY <2>11, AppendIs
  <2>13. Content(r) = q
    BY <1>8, <2>4, <2>6
  <2>14. Replaced1(p, n, v) = Append(p, <<n, v>>)
    BY <1>11, <2>1 DEF Replaced1
  <2> QED
    BY <1>8, <2>1, <2>7, <2>12, <2>13, <2>14 DEF Plus
<1> QED
  BY <1>10, <1>11

LEMMA PlusNames ==
    ASSUME NEW l, NEW S, l \in Seq(S), NEW n, NEW v
    PROVE  /\ Names1(Plus(l, n, v)) = Names1(l) \cup {n}
           /\ \E U : Plus(l, n, v) \in Seq(U)
<1>0. PICK d : d = <<n, v>>
  OBVIOUS
<1>1. d = <<n, v>> /\ d[1] = n
  BY <1>0
<1>2. PICK U : U = S \cup {d}
  OBVIOUS
<1>3. l \in Seq(U) /\ d \in U
  BY <1>2, Wider
<1>4. PICK L \in Nat : L = Len(l) /\ DOMAIN l = 1..L
  BY LenProperties
<1>5. PICK t \in Seq(U) : t = Append(l, d)
  BY <1>3, AppendedAt
<1>6. Len(t) = L + 1 /\ t[L + 1] = d /\ (\A i \in 1..L : t[i] = l[i]) /\ \A i \in 1..(L + 1) : i \in 1..L \/ i = L + 1
  BY <1>3, <1>4, <1>5, AppendedAt
<1>7. DOMAIN t = 1..(L + 1)
  BY <1>6, LenProperties
<1>8. ASSUME NEW x PROVE x \in {t[i][1] : i \in 1..(L + 1)} <=> x \in {l[i][1] : i \in 1..L} \cup {n}
  <2>1. ASSUME NEW i \in 1..(L + 1), x = t[i][1] PROVE x \in {l[j][1] : j \in 1..L} \cup {n}
    <3>1. CASE i \in 1..L
      BY <1>6, <2>1, <3>1
    <3>2. CASE i = L + 1
      BY <1>1, <1>6, <2>1, <3>2
    <3> QED
      BY <1>6, <3>1, <3>2
  <2>2. ASSUME NEW i \in 1..L, x = l[i][1] PROVE x \in {t[j][1] : j \in 1..(L + 1)}
    <3>1. i \in 1..(L + 1) /\ t[i] = l[i]
      BY <1>6
    <3> QED
      BY <2>2, <3>1
  <2>3. n \in {t[j][1] : j \in 1..(L + 1)}
    <3>1. L + 1 \in 1..(L + 1) /\ t[L + 1][1] = n
      BY <1>1, <1>6
    <3> QED
      BY <3>1
  <2> QED
    BY <2>1, <2>2, <2>3
<1>9. Names1(t) = {t[i][1] : i \in 1..(L + 1)} /\ Names1(l) = {l[i][1] : i \in 1..L}
  BY <1>4, <1>7 DEF Names1
<1>10. Names1(t) = Names1(l) \cup {n}
  BY <1>8, <1>9
<1>11. Plus(l, n, v) = t
  BY <1>1, <1>5 DEF Plus
<1> QED
  BY <1>10, <1>11

LEMMA TwoMore ==
    ASSUME NEW l, NEW S, l \in Seq(S), NEW a, NEW b, NEW c, NEW d
    PROVE  Plus(Plus(l, a, b), c, d) = l \o <<<<a, b>>, <<c, d>>>>
<1>1. PICK x : x = <<a, b>>
  OBVIOUS
<1>2. PICK y : y = <<c, d>>
  OBVIOUS
<1>3. PICK U : U = S \cup {x, y}
  OBVIOUS
<1>4. l \in Seq(U) /\ x \in U /\ y \in U
  BY <1>3, Wider
<1>5. PICK e \in Seq(U) : e = l
  BY <1>4
<1>6. Append(Append(e, x), y) = e \o <<x, y>>
  BY <1>4
<1> QED
  BY <1>1, <1>2, <1>5, <1>6 DEF Plus

\* What the decoder is told of the headers l of a request for u.
WithHost(l, u, method) == IF Absolute(u, method) THEN Replaced1(l, HostName, <<u[2]>>) ELSE l
PathOf(u, method) == IF Absolute(u, method) THEN UrlPath(u) ELSE u
FullList(l, u, method) == Plus(Plus(WithHost(l, u, method), PathName, PathOf(u, method)), MethodName, method)

-----------------------------------------------------------------------------
(* Where the tokens of a request are *)

\* The sequence s is in w, behind m others.
Embeds(w, s, m) == \A k \in 1..Len(s) : m + k \in 1..Len(w) /\ w[m + k] = s[k]

\* The sequence w is a and b after it.
Concats(w, S, a, b) == a \in Seq(S) /\ b \in Seq(S) /\ w = a \o b

LEMMA EmbedsNew ==
    ASSUME NEW S, NEW a, NEW b, NEW w, Concats(w, S, a, b)
    PROVE  w \in Seq(S) /\ Len(w) = Len(a) + Len(b) /\ Embeds(w, b, Len(a))
<1>0. a \in Seq(S) /\ b \in Seq(S) /\ w = a \o b
  BY DEF Concats
<1>1. PICK M \in Nat, N \in Nat : M = Len(a) /\ N = Len(b)
  BY <1>0, LenProperties
<1>2. w \in Seq(S)
  BY <1>0
<1>3. Len(w) = M + N /\ \A k \in 1..(M + N) : w[k] = IF k <= M THEN a[k] ELSE b[k - M]
  BY <1>0, <1>1, ConcatProperties
<1>4. ASSUME NEW k \in 1..N PROVE M + k \in 1..Len(w) /\ w[M + k] = b[k]
  <2>1. M + k \in 1..(M + N) /\ ~(M + k <= M) /\ (M + k) - M = k
    OBVIOUS
  <2> QED
    BY <1>3, <2>1
<1>5. Embeds(w, b, M)
  BY <1>1, <1>4 DEF Embeds
<1> QED
  BY <1>1, <1>2, <1>3, <1>5

LEMMA EmbedsStays ==
    ASSUME NEW S, NEW a, NEW b, NEW w, Concats(w, S, a, b), NEW s, NEW m, Embeds(a, s, m)
    PROVE  Embeds(w, s, m)
<1>0. a \in Seq(S) /\ b \in Seq(S) /\ w = a \o b
  BY DEF Concats
<1>1. PICK M \in Nat, N \in Nat : M = Len(a) /\ N = Len(b)
  BY <1>0, LenProperties
<1>3. Len(w) = M + N /\ \A k \in 1..(M + N) : w[k] = IF k <= M THEN a[k] ELSE b[k - M]
  BY <1>0, <1>1, ConcatProperties
<1>4. \A k \in 1..M : k \in 1..Len(w) /\ w[k] = a[k]
  BY <1>1, <1>3
<1>5. ASSUME NEW k \in 1..Len(s) PROVE m + k \in 1..Len(w) /\ w[m + k] = s[k]
  <2>1. m + k \in 1..M /\ a[m + k] = s[k]
    BY <1>1 DEF Embeds
  <2> QED
    BY <1>4, <2>1
<1> QED
  BY <1>5 DEF Embeds

LEMMA EmbedsOne ==
    ASSUME NEW w, NEW x, NEW m \in Nat, Embeds(w, <<x>>, m)
    PROVE  w[m + 1] = x
<1>1. PICK s : s = <<x>>
  OBVIOUS
<1>2. Len(s) = 1 /\ s[1] = x
  BY <1>1
<1>3. 1 \in 1..Len(s)
  BY <1>2
<1> QED
  BY <1>1, <1>2, <1>3 DEF Embeds

\* The parts of a request have something in common.
LEMMA PartsType ==
    ASSUME NEW i, NEW r, IsRequest(r)
    PROVE  \E V : /\ <<Token(i, "begin", <<>>)>> \in Seq(V)
                  /\ Cut(i, "url", r.url) \in Seq(V)
                  /\ AllHeaders(i, r.headers) \in Seq(V)
                  /\ <<Token(i, "headersEnd", r)>> \in Seq(V)
                  /\ Cut(i, "body", r.body) \in Seq(V)
                  /\ AllHeaders(i, r.trailers) \in Seq(V)
                  /\ <<Token(i, "end", <<>>)>> \in Seq(V)
<1>1. PICK A : A = Args(r)
  OBVIOUS
<1>2. /\ <<>> \in A /\ r \in A
      /\ PiecesOf(r.url) \subseteq A /\ PiecesOf(r.body) \subseteq A
      /\ HeaderArgs(r.headers) \subseteq A /\ HeaderArgs(r.trailers) \subseteq A
  BY <1>1 DEF Args
<1>3. PICK b, e, f : b = Token(i, "begin", <<>>) /\ e = Token(i, "headersEnd", r) /\ f = Token(i, "end", <<>>)
  OBVIOUS
<1>4. PICK V : V = Plain(i, A) \cup {b, e, f}
  OBVIOUS
<1>5. <<b>> \in Seq(V) /\ <<e>> \in Seq(V) /\ <<f>> \in Seq(V)
  <2>1. b \in V /\ e \in V /\ f \in V
    BY <1>4
  <2>2. \A y \in V : <<y>> \in Seq(V)
    OBVIOUS
  <2> QED
    BY <2>1, <2>2
<1>6. Plain(i, A) \subseteq V
  BY <1>4
<1>7. Cut(i, "url", r.url) \in Seq(V)
  <2>1. "url" \in Kinds /\ IsText(r.url)
    BY DEF Kinds, IsRequest
  <2>2. Cut(i, "url", r.url) \in Seq(Plain(i, A))
    BY <1>2, <2>1, CutType
  <2> QED
    BY <1>6, <2>2, Wider
<1>8. Cut(i, "body", r.body) \in Seq(V)
  <2>1. "body" \in Kinds /\ IsText(r.body)
    BY DEF Kinds, IsRequest
  <2>2. Cut(i, "body", r.body) \in Seq(Plain(i, A))
    BY <1>2, <2>1, CutType
  <2> QED
    BY <1>6, <2>2, Wider
<1>9. AllHeaders(i, r.headers) \in Seq(V)
  <2>1. AreHeaders(r.headers)
    BY DEF IsRequest
  <2>2. AllHeaders(i, r.headers) \in Seq(Plain(i, A))
    BY <1>2, <2>1, AllHeadersType
  <2> QED
    BY <1>6, <2>2, Wider
<1>10. AllHeaders(i, r.trailers) \in Seq(V)
  <2>1. AreHeaders(r.trailers)
    BY DEF IsRequest
  <2>2. AllHeaders(i, r.trailers) \in Seq(Plain(i, A))
    BY <1>2, <2>1, AllHeadersType
  <2> QED
    BY <1>6, <2>2, Wider
<1> QED
  BY <1>3, <1>5, <1>7, <1>8, <1>9, <1>10

\* How many tokens come before the end of the headers, and after it.
HeadLen(i, r) == 1 + Len(r.url) + Len(AllHeaders(i, r.headers))
BodyLen(i, r) == Len(r.body) + Len(AllHeaders(i, r.trailers))

LEMMA TokensAt ==
    ASSUME NEW i, NEW r, IsRequest(r), NEW t, t = Tokens(i, r)
    PROVE  /\ Len(r.url) \in Nat /\ Len(AllHeaders(i, r.headers)) \in Nat
           /\ Len(r.body) \in Nat /\ Len(AllHeaders(i, r.trailers)) \in Nat
           /\ Len(t) = HeadLen(i, r) + 1 + BodyLen(i, r) + 1
           /\ t[1] = Token(i, "begin", <<>>)
           /\ Embeds(t, Cut(i, "url", r.url), 1)
           /\ Embeds(t, AllHeaders(i, r.headers), 1 + Len(r.url))
           /\ t[HeadLen(i, r) + 1] = Token(i, "headersEnd", r)
           /\ Embeds(t, Cut(i, "body", r.body), HeadLen(i, r) + 1)
           /\ Embeds(t, AllHeaders(i, r.trailers), HeadLen(i, r) + 1 + Len(r.body))
           /\ t[Len(t)] = Token(i, "end", <<>>)
<1>0. PICK b, e, f : b = Token(i, "begin", <<>>) /\ e = Token(i, "headersEnd", r) /\ f = Token(i, "end", <<>>)
  OBVIOUS
<1>1. PICK V : /\ <<b>> \in Seq(V)
               /\ Cut(i, "url", r.url) \in Seq(V)
               /\ AllHeaders(i, r.headers) \in Seq(V)
               /\ <<e>> \in Seq(V)
               /\ Cut(i, "body", r.body) \in Seq(V)
               /\ AllHeaders(i, r.trailers) \in Seq(V)
               /\ <<f>> \in Seq(V)
  BY <1>0, PartsType
<1>2. PICK p1 \in Seq(V), p2 \in Seq(V), p3 \in Seq(V), p4 \in Seq(V), p5 \in Seq(V), p6 \in Seq(V), p7 \in Seq(V) :
         /\ p1 = <<b>> /\ p2 = Cut(i, "url", r.url) /\ p3 = AllHeaders(i, r.headers) /\ p4 = <<e>>
         /\ p5 = Cut(i, "body", r.body) /\ p6 = AllHeaders(i, r.trailers) /\ p7 = <<f>>
  BY <1>1
<1>3. Len(p1) = 1 /\ Len(p4) = 1 /\ Len(p7) = 1
  <2>1. \A x : Len(<<x>>) = 1
    OBVIOUS
  <2> QED
    BY <1>2, <2>1
<1>4. PICK U \in Nat, H \in Nat, B \in Nat, R \in Nat :
         U = Len(p2) /\ H = Len(p3) /\ B = Len(p5) /\ R = Len(p6)
  BY LenProperties
<1>5. U = Len(r.url) /\ B = Len(r.body)
  <2>1. PICK u, v : u = r.url /\ v = r.body
    OBVIOUS
  <2>2. PICK L \in Nat, M \in Nat : L = Len(u) /\ M = Len(v) /\ DOMAIN u = 1..L /\ DOMAIN v = 1..M
    BY <2>1 DEF IsRequest, IsText
  <2>3. DOMAIN p2 = 1..L /\ DOMAIN p5 = 1..M
    BY <1>2, <2>1, <2>2 DEF Cut
  <2>4. Len(p2) = L /\ Len(p5) = M
    BY <2>3, LenProperties
  <2> QED
    BY <1>4, <2>1, <2>2, <2>4
<1>6. PICK h \in Nat, d \in Nat : h = HeadLen(i, r) /\ h = 1 + U + H /\ d = BodyLen(i, r) /\ d = B + R
  <2>1. PICK h \in Nat, d \in Nat : h = 1 + U + H /\ d = B + R
    OBVIOUS
  <2>2. HeadLen(i, r) = 1 + U + H /\ BodyLen(i, r) = B + R
    BY <1>2, <1>4, <1>5 DEF HeadLen, BodyLen
  <2> QED
    BY <2>1, <2>2
<1>7. PICK t2 \in Seq(V) : t2 = p1 \o p2 /\ Concats(t2, V, p1, p2) /\ Len(t2) = 1 + U /\ Embeds(t2, p2, 1)
  <2>1. PICK w : w = p1 \o p2 /\ Concats(w, V, p1, p2)
    BY DEF Concats
  <2>2. w \in Seq(V) /\ Len(w) = Len(p1) + Len(p2) /\ Embeds(w, p2, Len(p1))
    BY <2>1, EmbedsNew
  <2>3. Len(p1) = 1 /\ Len(w) = 1 + U
    BY <1>3, <1>4, <2>2
  <2> QED
    BY <2>1, <2>2, <2>3
<1>8. PICK n2 \in Nat : n2 = 1 + U
  OBVIOUS
<1>9. PICK t3 \in Seq(V) : t3 = t2 \o p3 /\ Concats(t3, V, t2, p3) /\ Len(t3) = n2 + H /\ Embeds(t3, p3, n2)
  <2>1. PICK w : w = t2 \o p3 /\ Concats(w, V, t2, p3)
    BY DEF Concats
  <2>2. w \in Seq(V) /\ Len(w) = Len(t2) + Len(p3) /\ Embeds(w, p3, Len(t2))
    BY <2>1, EmbedsNew
  <2>3. Len(t2) = n2 /\ Len(w) = n2 + H
    BY <1>4, <1>7, <1>8, <2>2
  <2> QED
    BY <2>1, <2>2, <2>3
<1>10. Len(t3) = h
  BY <1>6, <1>8, <1>9
<1>11. PICK t4 \in Seq(V) : t4 = t3 \o p4 /\ Concats(t4, V, t3, p4) /\ Len(t4) = h + 1 /\ Embeds(t4, p4, h)
  <2>1. PICK w : w = t3 \o p4 /\ Concats(w, V, t3, p4)
    BY DEF Concats
  <2>2. w \in Seq(V) /\ Len(w) = Len(t3) + Len(p4) /\ Embeds(w, p4, Len(t3))
    BY <2>1, EmbedsNew
  <2>3. Len(t3) = h /\ Len(w) = h + 1
    BY <1>3, <1>10, <2>2
  <2> QED
    BY <2>1, <2>2, <2>3
<1>12. PICK n4 \in Nat : n4 = h + 1
  OBVIOUS
<1>13. PICK t5 \in Seq(V) : t5 = t4 \o p5 /\ Concats(t5, V, t4, p5) /\ Len(t5) = n4 + B /\ Embeds(t5, p5, n4)
  <2>1. PICK w : w = t4 \o p5 /\ Concats(w, V, t4, p5)
    BY DEF Concats
  <2>2. w \in Seq(V) /\ Len(w) = Len(t4) + Len(p5) /\ Embeds(w, p5, Len(t4))
    BY <2>1, EmbedsNew
  <2>3. Len(t4) = n4 /\ Len(w) = n4 + B
    BY <1>4, <1>11, <1>12, <2>2
  <2> QED
    BY <2>1, <2>2, <2>3
<1>14. PICK n5 \in Nat : n5 = n4 + B
  OBVIOUS
<1>15. PICK t6 \in Seq(V) : t6 = t5 \o p6 /\ Concats(t6, V, t5, p6) /\ Len(t6) = n5 + R /\ Embeds(t6, p6, n5)
  <2>1. PICK w : w = t5 \o p6 /\ Concats(w, V, t5, p6)
    BY DEF Concats
  <2>2. w \in Seq(V) /\ Len(w) = Len(t5) + Len(p6) /\ Embeds(w, p6, Len(t5))
    BY <2>1, EmbedsNew
  <2>3. Len(t5) = n5 /\ Len(w) = n5 + R
    BY <1>4, <1>13, <1>14, <2>2
  <2> QED
    BY <2>1, <2>2, <2>3
<1>16. PICK n6 \in Nat : n6 = n5 + R
  OBVIOUS
<1>17. PICK t7 \in Seq(V) : t7 = t6 \o p7 /\ Concats(t7, V, t6, p7) /\ Len(t7) = n6 + 1 /\ Embeds(t7, p7, n6)
  <2>1. PICK w : w = t6 \o p7 /\ Concats(w, V, t6, p7)
    BY DEF Concats
  <2>2. w \in Seq(V) /\ Len(w) = Len(t6) + Len(p7) /\ Embeds(w, p7, Len(t6))
    <3>1. Concats(w, V, t6, p7)
      BY <2>1
    <3> QED
      BY <3>1, EmbedsNew
  <2>3. Len(t6) = n6 /\ Len(w) = n6 + 1
    BY <1>3, <1>15, <1>16, <2>2
  <2> QED
    BY <2>1, <2>2, <2>3
<1>18. t = t7
  BY <1>0, <1>2, <1>7, <1>9, <1>11, <1>13, <1>15, <1>17, Zenon DEF Tokens
<1>19. ASSUME NEW s, NEW m, Embeds(t2, s, m) PROVE Embeds(t7, s, m)
  <2>1. Embeds(t3, s, m)
    BY <1>9, <1>19, EmbedsStays
  <2>2. Embeds(t4, s, m)
    BY <1>11, <2>1, EmbedsStays
  <2>3. Embeds(t5, s, m)
    BY <1>13, <2>2, EmbedsStays
  <2>4. Embeds(t6, s, m)
    BY <1>15, <2>3, EmbedsStays
  <2> QED
    BY <1>17, <2>4, EmbedsStays
<1>20. Embeds(t7, p2, 1)
  BY <1>7, <1>19
<1>21. t7[1] = b
  <2>1. Len(<<b>>) = 1 /\ <<b>>[1] = b
    OBVIOUS
  <2>2. t2[1] = b
    <3>1. \A k \in 1..(Len(p1) + Len(p2)) : t2[k] = IF k <= Len(p1) THEN p1[k] ELSE p2[k - Len(p1)]
      BY <1>7, ConcatProperties
    <3>2. 1 \in 1..(Len(p1) + Len(p2)) /\ 1 <= Len(p1)
      BY <1>3, <1>4
    <3> QED
      BY <1>2, <2>1, <3>1, <3>2
  <2>3. Embeds(t2, <<b>>, 0)
    <3>1. PICK s : s = <<b>> /\ Len(s) = 1 /\ s[1] = b
      BY <2>1
    <3>2. ASSUME NEW k \in 1..Len(s) PROVE 0 + k \in 1..Len(t2) /\ t2[0 + k] = s[k]
      <4>1. k = 1 /\ 0 + k = 1 /\ 1 \in 1..Len(t2)
        BY <1>7, <3>1
      <4> QED
        BY <2>2, <3>1, <4>1
    <3> QED
      BY <3>1, <3>2 DEF Embeds
  <2>4. Embeds(t7, <<b>>, 0)
    BY <1>19, <2>3
  <2>5. t7[0 + 1] = b
    BY <2>4, EmbedsOne
  <2> QED
    BY <2>5
<1>22. Embeds(t7, p3, n2)
  <2>1. Embeds(t4, p3, n2)
    BY <1>9, <1>11, EmbedsStays
  <2>2. Embeds(t5, p3, n2)
    BY <1>13, <2>1, EmbedsStays
  <2>3. Embeds(t6, p3, n2)
    BY <1>15, <2>2, EmbedsStays
  <2> QED
    BY <1>17, <2>3, EmbedsStays
<1>23. Embeds(t7, p4, h)
  <2>2. Embeds(t5, p4, h)
    BY <1>11, <1>13, EmbedsStays
  <2>3. Embeds(t6, p4, h)
    BY <1>15, <2>2, EmbedsStays
  <2> QED
    BY <1>17, <2>3, EmbedsStays
<1>24. Embeds(t7, p5, n4)
  <2>3. Embeds(t6, p5, n4)
    BY <1>13, <1>15, EmbedsStays
  <2> QED
    BY <1>17, <2>3, EmbedsStays
<1>25. Embeds(t7, p6, n5)
  BY <1>15, <1>17, EmbedsStays
<1>26. t7[h + 1] = e /\ t7[n6 + 1] = f
  BY <1>2, <1>17, <1>23, EmbedsOne
<1>27. Len(t7) = h + 1 + d + 1 /\ n6 + 1 = Len(t7)
  BY <1>6, <1>12, <1>14, <1>16, <1>17
<1>28. /\ n2 = 1 + Len(r.url) /\ n4 = HeadLen(i, r) + 1 /\ n5 = HeadLen(i, r) + 1 + Len(r.body)
  BY <1>5, <1>6, <1>8, <1>12, <1>14
<1>29. /\ Embeds(t, Cut(i, "url", r.url), 1)
       /\ Embeds(t, AllHeaders(i, r.headers), 1 + Len(r.url))
       /\ Embeds(t, Cut(i, "body", r.body), HeadLen(i, r) + 1)
       /\ Embeds(t, AllHeaders(i, r.trailers), HeadLen(i, r) + 1 + Len(r.body))
  BY <1>2, <1>18, <1>20, <1>22, <1>24, <1>25, <1>28
<1>30. t[1] = Token(i, "begin", <<>>)
  BY <1>0, <1>18, <1>21
<1>31. t[HeadLen(i, r) + 1] = Token(i, "headersEnd", r) /\ t[Len(t)] = Token(i, "end", <<>>)
  BY <1>0, <1>6, <1>18, <1>26, <1>27
<1>32. Len(t) = HeadLen(i, r) + 1 + BodyLen(i, r) + 1
  BY <1>6, <1>18, <1>27
<1> QED
  BY <1>2, <1>4, <1>5, <1>29, <1>30, <1>31, <1>32

-----------------------------------------------------------------------------
(* The list of the first headers *)

Lists(f, hs, k) == f = [i \in 0..k |-> IF i = 0 THEN <<>> ELSE ListedHeader(f[i - 1], hs[i])]

\* The definition of Listed has one solution.
LEMMA ListsOnce ==
    ASSUME NEW hs, NEW k \in Nat, NEW f, NEW g, Lists(f, hs, k), Lists(g, hs, k)
    PROVE  f = g
<1> DEFINE Step(w, i) == IF i = 0 THEN <<>> ELSE ListedHeader(w[i - 1], hs[i])
           Differ == {i \in 0..k : f[i] # g[i]}
<1>1. f = [i \in 0..k |-> Step(f, i)] /\ g = [i \in 0..k |-> Step(g, i)]
  BY DEF Lists
<1>2. CASE Differ # {}
  <2>1. PICK i \in Differ : \A j \in Differ : i <= j
    <3>1. Differ \in SUBSET Nat
      OBVIOUS
    <3> HIDE DEF Differ
    <3> QED
      BY <1>2, <3>1, LeastNatural
  <2>2. i \in 0..k /\ f[i] # g[i]
    OBVIOUS
  <2>3. f[i] = Step(f, i) /\ g[i] = Step(g, i)
    <3> HIDE DEF Step
    <3> QED
      BY <1>1, <2>2
  <2>4. CASE i = 0
    BY <2>2, <2>3, <2>4
  <2>5. CASE i # 0
    <3>1. i - 1 \in 0..k /\ ~(i <= i - 1)
      BY <2>2, <2>5
    <3>2. f[i - 1] = g[i - 1]
      BY <2>1, <3>1
    <3> QED
      BY <2>2, <2>3, <2>5, <3>2
  <2> QED
    BY <2>4, <2>5
<1>3. CASE Differ = {}
  <2>1. \A i \in 0..k : f[i] = g[i]
    BY <1>3
  <2>2. f = [i \in 0..k |-> f[i]] /\ g = [i \in 0..k |-> g[i]]
    <3> HIDE DEF Step
    <3> QED
      BY <1>1
  <2> QED
    BY <2>1, <2>2
<1> QED
  BY <1>2, <1>3

LEMMA ListedIs ==
    ASSUME NEW hs, NEW k \in Nat, NEW f, Lists(f, hs, k)
    PROVE  Listed(hs, k) = f[k]
<1>1. PICK g : g = CHOOSE h : Lists(h, hs, k)
  OBVIOUS
<1>2. Lists(g, hs, k)
  BY <1>1
<1>3. g = f
  BY <1>2, ListsOnce
<1>4. Listed(hs, k) = g[k]
  <2>1. g = CHOOSE h : h = [i \in 0..k |-> IF i = 0 THEN <<>> ELSE ListedHeader(h[i - 1], hs[i])]
    BY <1>1 DEF Lists
  <2> QED
    BY <2>1 DEF Listed
<1> QED
  BY <1>3, <1>4

\* A solution for one header more.
LEMMA ListsMore ==
    ASSUME NEW hs, NEW k \in Nat, NEW g, Lists(g, hs, k), NEW last, last = ListedHeader(g[k], hs[k + 1]),
           NEW f, f = [i \in 0..(k + 1) |-> IF i <= k THEN g[i] ELSE last]
    PROVE  Lists(f, hs, k + 1) /\ f[k + 1] = last
<1> DEFINE Step(h, i) == IF i = 0 THEN <<>> ELSE ListedHeader(h[i - 1], hs[i])
<1>1. g = [i \in 0..k |-> Step(g, i)]
  BY DEF Lists
<1>2. ASSUME NEW i \in 0..(k + 1) PROVE f[i] = Step(f, i)
  <2>1. CASE i <= k
    <3>1. i \in 0..k /\ f[i] = g[i]
      BY <2>1
    <3>2. g[i] = Step(g, i)
      <4> HIDE DEF Step
      <4> QED
        BY <1>1, <3>1
    <3>3. i # 0 => f[i - 1] = g[i - 1]
      <4>1. i # 0 => (i - 1 \in 0..(k + 1) /\ i - 1 <= k)
        BY <2>1
      <4> QED
        BY <4>1
    <3> QED
      BY <3>1, <3>2, <3>3
  <2>2. CASE ~(i <= k)
    <3>1. f[i] = last /\ i # 0 /\ i = k + 1
      BY <2>2
    <3>2. f[i - 1] = g[k]
      <4>1. i - 1 \in 0..(k + 1) /\ i - 1 <= k /\ i - 1 = k
        BY <3>1
      <4> QED
        BY <4>1
    <3> QED
      BY <3>1, <3>2
  <2> QED
    BY <2>1, <2>2
<1> HIDE DEF Step
<1>3. f = [i \in 0..(k + 1) |-> f[i]]
  OBVIOUS
<1>4. f = [i \in 0..(k + 1) |-> Step(f, i)]
  BY <1>2, <1>3
<1>5. f[k + 1] = last
  <2>1. k + 1 \in 0..(k + 1) /\ ~(k + 1 <= k)
    OBVIOUS
  <2> QED
    BY <2>1
<1> QED
  BY <1>4, <1>5 DEF Lists, Step

LEMMA ListsNone ==
    ASSUME NEW hs
    PROVE  \E f : Lists(f, hs, 0) /\ f[0] = <<>>
<1>1. PICK f : f = [i \in 0..0 |-> <<>>]
  OBVIOUS
<1>2. f = [i \in 0..0 |-> IF i = 0 THEN <<>> ELSE ListedHeader(f[i - 1], hs[i])]
  BY <1>1
<1>3. f[0] = <<>>
  BY <1>1
<1> QED
  BY <1>2, <1>3 DEF Lists

LEMMA ListsExist ==
    ASSUME NEW hs, NEW L \in Nat
    PROVE  \E f : Lists(f, hs, L)
<1> DEFINE Ok(k) == \E f : Lists(f, hs, k)
           Bad == {k \in 0..L : ~Ok(k)}
<1>3. CASE Bad # {}
  <2>1. PICK k \in Bad : \A j \in Bad : k <= j
    <3>1. Bad \in SUBSET Nat
      OBVIOUS
    <3> HIDE DEF Bad
    <3> QED
      BY <1>3, <3>1, LeastNatural
  <2>2. k \in 0..L /\ ~Ok(k)
    OBVIOUS
  <2>3. CASE k = 0
    BY <2>2, <2>3, ListsNone
  <2>4. CASE k # 0
    <3>1. PICK h \in Nat : h = k - 1 /\ h \in 0..L /\ ~(k <= h) /\ h + 1 = k
      BY <2>2, <2>4
    <3>2. Ok(h)
      BY <2>1, <3>1
    <3>3. PICK g : Lists(g, hs, h)
      BY <3>2
    <3>4. PICK last : last = ListedHeader(g[h], hs[h + 1])
      OBVIOUS
    <3>5. PICK f : f = [i \in 0..(h + 1) |-> IF i <= h THEN g[i] ELSE last]
      OBVIOUS
    <3>6. Lists(f, hs, h + 1)
      BY <3>3, <3>4, <3>5, ListsMore
    <3> QED
      BY <2>2, <3>1, <3>6
  <2> QED
    BY <2>3, <2>4
<1>4. CASE Bad = {}
  <2>1. L \in 0..L
    OBVIOUS
  <2>2. Ok(L)
    BY <1>4, <2>1
  <2> QED
    BY <2>2
<1> QED
  BY <1>3, <1>4

LEMMA ListedNext ==
    ASSUME NEW hs, NEW k \in Nat
    PROVE  Listed(hs, 0) = <<>> /\ Listed(hs, k + 1) = ListedHeader(Listed(hs, k), hs[k + 1])
<1>1. Listed(hs, 0) = <<>>
  <2>1. PICK f : Lists(f, hs, 0) /\ f[0] = <<>>
    BY ListsNone
  <2>2. Listed(hs, 0) = f[0]
    BY <2>1, ListedIs
  <2> QED
    BY <2>1, <2>2
<1>2. PICK g : Lists(g, hs, k)
  BY ListsExist
<1>3. PICK last : last = ListedHeader(g[k], hs[k + 1])
  OBVIOUS
<1>4. PICK f : f = [i \in 0..(k + 1) |-> IF i <= k THEN g[i] ELSE last]
  OBVIOUS
<1>5. PICK n \in Nat : n = k + 1
  OBVIOUS
<1>6. Lists(f, hs, n) /\ f[n] = last
  BY <1>2, <1>3, <1>4, <1>5, ListsMore
<1>7. Listed(hs, n) = f[n] /\ Listed(hs, k) = g[k]
  BY <1>2, <1>6, ListedIs
<1> QED
  BY <1>1, <1>3, <1>5, <1>6, <1>7

-----------------------------------------------------------------------------
(* The tokens of a header *)

\* A value that is empty comes in one piece.
ValueCuts(v) == IF v = <<>> THEN 1 ELSE Len(v)
PieceAt(v, y) == IF v = <<>> THEN <<>> ELSE <<v[y]>>
Part(v, y) == IF v = <<>> THEN <<>> ELSE UpTo(v, y)

LEMMA PartNext ==
    ASSUME NEW v, IsText(v), NEW y \in Nat
    PROVE  /\ ValueCuts(v) \in Nat \ {0} /\ Part(v, 0) = <<>> /\ Part(v, ValueCuts(v)) = v
           /\ Part(v, y) \o PieceAt(v, y + 1) = Part(v, y + 1)
<1>1. CASE v = <<>>
  <2>1. ValueCuts(v) = 1 /\ \A n : Part(v, n) = <<>> /\ PieceAt(v, n) = <<>>
    BY <1>1 DEF ValueCuts, Part, PieceAt
  <2>2. PICK e \in Seq({0}) : e = <<>> /\ Len(e) = 0
    <3>1. <<>> \in Seq({0}) /\ Len(<<>>) = 0
      OBVIOUS
    <3> QED
      BY <3>1
  <2>3. PICK w \in Seq({0}) : w = e \o e
    <3>1. e \o e \in Seq({0})
      OBVIOUS
    <3> QED
      BY <3>1
  <2>4. <<>> \o <<>> = <<>>
    <3>1. Len(w) = Len(e) + Len(e)
      BY <2>3, ConcatProperties
    <3>2. Len(w) = 0
      BY <2>2, <3>1
    <3>3. w = <<>>
      BY <3>2, EmptySeq
    <3> QED
      BY <2>2, <2>3, <3>3
  <2>5. Part(v, y) = <<>> /\ PieceAt(v, y + 1) = <<>> /\ Part(v, y + 1) = <<>>
    BY <2>1
  <2>6. Part(v, 0) = <<>> /\ Part(v, ValueCuts(v)) = v
    BY <1>1, <2>1
  <2>7. Part(v, y) \o PieceAt(v, y + 1) = Part(v, y + 1)
    BY <2>4, <2>5
  <2> QED
    BY <2>1, <2>6, <2>7
<1>2. CASE v # <<>>
  <2>1. PICK L \in Nat : L = Len(v) /\ v = [i \in 1..L |-> v[i]]
    BY DEF IsText
  <2>2. L # 0
    <3> SUFFICES ASSUME L = 0 PROVE FALSE
      OBVIOUS
    <3>1. v \in Seq({0})
      <4>1. v \in [1..0 -> {0}]
        BY <2>1
      <4>2. \A f \in [1..0 -> {0}] : f \in Seq({0})
        OBVIOUS
      <4> QED
        BY <4>1, <4>2
    <3>2. Len(v) = 0
      BY <2>1
    <3>3. v = <<>>
      BY <3>1, <3>2, EmptySeq
    <3> QED
      BY <1>2, <3>3
  <2>3. ValueCuts(v) = L /\ \A n : Part(v, n) = UpTo(v, n) /\ PieceAt(v, n) = <<v[n]>>
    BY <1>2, <2>1 DEF ValueCuts, Part, PieceAt
  <2>4. UpTo(v, L) = v
    BY <2>1 DEF UpTo
  <2>5. PICK x : x = v[y + 1]
    OBVIOUS
  <2>6. UpTo(v, 0) = <<>> /\ UpTo(v, y) \o <<x>> = UpTo(v, y + 1)
    BY <2>5, UpToMore
  <2> QED
    BY <2>2, <2>3, <2>4, <2>5, <2>6
<1> QED
  BY <1>1, <1>2

LEMMA HeaderTokensAt ==
    ASSUME NEW i, NEW h, IsText(h.name), IsText(h.value), NEW q, q = HeaderTokens(i, h)
    PROVE  /\ Len(h.name) \in Nat /\ ValueCuts(h.value) \in Nat \ {0} /\ Len(q) = Len(h.name) + ValueCuts(h.value)
           /\ \A y \in 1..Len(h.name) : q[y] = Token(i, "field", <<h.name[y]>>)
           /\ \A y \in 1..ValueCuts(h.value) : q[Len(h.name) + y] = Token(i, "value", PieceAt(h.value, y))
<1>1. PICK N \in Nat : N = Len(h.name) /\ DOMAIN h.name = 1..N
  BY DEF IsText
<1>2. PICK M \in Nat \ {0} : M = ValueCuts(h.value)
  BY PartNext
<1>3. PICK a : a = Cut(i, "field", h.name)
  OBVIOUS
<1>4. PICK b : b = IF h.value = <<>> THEN <<Token(i, "value", <<>>)>> ELSE Cut(i, "value", h.value)
  OBVIOUS
<1>5. a = [y \in 1..N |-> Token(i, "field", <<h.name[y]>>)]
  BY <1>1, <1>3 DEF Cut
<1>6. b = [y \in 1..M |-> Token(i, "value", PieceAt(h.value, y))]
  <2>1. CASE h.value = <<>>
    <3>1. PICK x : x = Token(i, "value", <<>>)
      OBVIOUS
    <3>2. <<x>> = [y \in 1..1 |-> x]
      OBVIOUS
    <3>3. M = 1 /\ \A y : PieceAt(h.value, y) = <<>>
      BY <1>2, <2>1 DEF ValueCuts, PieceAt
    <3> QED
      BY <1>4, <2>1, <3>1, <3>2, <3>3
  <2>2. CASE h.value # <<>>
    <3>1. M = Len(h.value) /\ DOMAIN h.value = 1..M
      BY <1>2, <2>2 DEF ValueCuts, IsText
    <3>2. \A y : PieceAt(h.value, y) = <<h.value[y]>>
      BY <2>2 DEF PieceAt
    <3> QED
      BY <1>4, <2>2, <3>1, <3>2 DEF Cut
  <2> QED
    BY <2>1, <2>2
<1>7. PICK S : S = {Token(i, "field", <<h.name[y]>>) : y \in 1..N} \cup {Token(i, "value", PieceAt(h.value, y)) : y \in 1..M}
  OBVIOUS
<1>8. a \in Seq(S) /\ Len(a) = N
  <2>1. a \in [1..N -> S]
    BY <1>5, <1>7
  <2>2. \A f \in [1..N -> S] : f \in Seq(S) /\ Len(f) = N
    OBVIOUS
  <2> QED
    BY <2>1, <2>2
<1>9. b \in Seq(S) /\ Len(b) = M
  <2>1. b \in [1..M -> S]
    BY <1>6, <1>7
  <2>2. \A f \in [1..M -> S] : f \in Seq(S) /\ Len(f) = M
    OBVIOUS
  <2> QED
    BY <2>1, <2>2
<1>10. q = a \o b
  BY <1>3, <1>4 DEF HeaderTokens
<1>11. Len(q) = N + M /\ \A y \in 1..(N + M) : q[y] = IF y <= N THEN a[y] ELSE b[y - N]
  <2>1. PICK w \in Seq(S) : w = a \o b
    <3>1. a \o b \in Seq(S)
      BY <1>8, <1>9
    <3> QED
      BY <3>1
  <2>2. Len(w) = Len(a) + Len(b) /\ \A y \in 1..(Len(a) + Len(b)) : w[y] = IF y <= Len(a) THEN a[y] ELSE b[y - Len(a)]
    BY <1>8, <1>9, <2>1, ConcatProperties
  <2> QED
    BY <1>8, <1>9, <1>10, <2>1, <2>2
<1>12. ASSUME NEW y \in 1..N PROVE q[y] = Token(i, "field", <<h.name[y]>>)
  <2>1. y \in 1..(N + M) /\ y <= N
    OBVIOUS
  <2>2. q[y] = a[y]
    BY <1>11, <2>1
  <2> QED
    BY <1>5, <2>2
<1>13. ASSUME NEW y \in 1..M PROVE q[N + y] = Token(i, "value", PieceAt(h.value, y))
  <2>1. N + y \in 1..(N + M) /\ ~(N + y <= N) /\ (N + y) - N = y
    OBVIOUS
  <2>2. q[N + y] = b[y]
    BY <1>11, <2>1
  <2> QED
    BY <1>6, <2>2
<1> QED
  BY <1>1, <1>2, <1>11, <1>12, <1>13

-----------------------------------------------------------------------------
(* The fields while the headers of a request come in *)

Proper(l) == PathName \notin Names1(l) /\ MethodName \notin Names1(l) /\ \E S : l \in Seq(S)

\* The map has the headers l.
Collects(f, l) ==
    /\ DOMAIN f = FieldNames /\ IsOwn(f.field) /\ IsOwn(f.value)
    /\ Linked(f.map) /\ Content(f.map) = l /\ Proper(l)

Fresh(f, l) == Collects(f, l) /\ f.state = "Field" /\ f.field.text = <<>> /\ f.value.text = <<>>

\* The strings have the first y tokens of the header h.
HeaderAt(f, l, h, y) ==
    /\ Collects(f, l)
    /\ IF y <= Len(h.name)
       THEN f.state = "Field" /\ f.field.text = UpTo(h.name, y) /\ f.value.text = <<>>
       ELSE f.state = "Value" /\ f.field.text = h.name /\ f.value.text = Part(h.value, y - Len(h.name))

LEMMA AppendedText ==
    ASSUME NEW s, IsOwn(s), NEW text
    PROVE  IsOwn(AppendTo(s, text)) /\ AppendTo(s, text).text = s.text \o text
<1>1. Owned(s) = s
  BY DEF Owned, IsOwn
<1>2. PICK w : w = s.text \o text
  OBVIOUS
<1>3. PICK r : r = Stored(s, w)
  OBVIOUS
<1>4. AppendTo(s, text) = r
  BY <1>1, <1>2, <1>3 DEF AppendTo
<1>5. CASE Len(w) + 1 <= s.capacity
  <2>1. r = [s EXCEPT !.text = w]
    BY <1>3, <1>5 DEF Stored
  <2>2. DOMAIN r = {"type", "text", "capacity"} /\ r.type = s.type /\ r.text = w
    BY <2>1 DEF IsOwn
  <2> QED
    BY <1>2, <1>4, <2>2 DEF IsOwn
<1>6. CASE ~(Len(w) + 1 <= s.capacity)
  <2>1. r = [type |-> "Dynamic", text |-> w, capacity |-> 2 * Len(w)]
    BY <1>3, <1>6 DEF Stored, Str
  <2> QED
    BY <1>2, <1>4, <2>1 DEF IsOwn
<1> QED
  BY <1>5, <1>6

LEMMA NamePiece ==
    ASSUME NEW f, NEW l, Collects(f, l), f.state = "Field", NEW text, NEW g, g = OnHeaderField(f, text)
    PROVE  /\ Collects(g, l) /\ g.state = "Field" /\ g.field.text = f.field.text \o text
           /\ g.value = f.value
<1>1. PICK s : s = AppendTo(f.field, text)
  OBVIOUS
<1>2. IsOwn(s) /\ s.text = f.field.text \o text
  BY <1>1, AppendedText DEF Collects
<1>3. g = [f EXCEPT !.field = s]
  BY <1>1 DEF OnHeaderField
<1>4. /\ DOMAIN g = FieldNames /\ g.field = s /\ g.value = f.value /\ g.map = f.map /\ g.state = f.state
  BY <1>3 DEF Collects, FieldNames
<1> QED
  BY <1>2, <1>4 DEF Collects

LEMMA ValuePiece ==
    ASSUME NEW f, NEW l, Collects(f, l), f.state # "Done", NEW text, NEW g, g = OnHeaderValue(f, text)
    PROVE  /\ Collects(g, l) /\ g.state = "Value" /\ g.value.text = f.value.text \o text
           /\ g.field = f.field
<1>1. PICK s : s = AppendTo(f.value, text)
  OBVIOUS
<1>2. IsOwn(s) /\ s.text = f.value.text \o text
  BY <1>1, AppendedText DEF Collects
<1>3. g = [f EXCEPT !.state = "Value", !.value = s]
  BY <1>1 DEF OnHeaderValue
<1>4. /\ DOMAIN g = FieldNames /\ g.field = f.field /\ g.value = s /\ g.map = f.map /\ g.state = "Value"
  BY <1>3 DEF Collects, FieldNames
<1> QED
  BY <1>2, <1>4 DEF Collects

\* The header goes into the map, under the name it is known by.
LEMMA ListedProper ==
    ASSUME NEW l, Proper(l), NEW h, KnownAs(Lowered(h.name)) \notin {PathName, MethodName}
    PROVE  /\ Proper(ListedHeader(l, h))
           /\ ListedHeader(l, h) = ListedAs(l, Lowered(h.name), h.value)
<1>1. PICK key : key = Lowered(h.name)
  OBVIOUS
<1>2. PICK v : v = h.value
  OBVIOUS
<1>3. PICK k : k = KnownAs(key) /\ k # PathName /\ k # MethodName
  BY <1>1
<1>4. ListedHeader(l, h) = IF key \in DOMAIN Canonical /\ k \in Names1(l) THEN l ELSE Plus(l, k, v)
  BY <1>1, <1>2, <1>3 DEF ListedHeader, Plus
<1>5. ListedHeader(l, h) = ListedAs(l, key, v)
  BY <1>3, <1>4 DEF ListedAs
<1>6. Proper(Plus(l, k, v))
  <2>1. PICK S : l \in Seq(S)
    BY DEF Proper
  <2>2. Names1(Plus(l, k, v)) = Names1(l) \cup {k} /\ \E U : Plus(l, k, v) \in Seq(U)
    BY <2>1, PlusNames
  <2> QED
    BY <1>3, <2>2 DEF Proper
<1>7. Proper(ListedHeader(l, h))
  BY <1>4, <1>6, Zenon
<1> QED
  BY <1>1, <1>2, <1>5, <1>7

LEMMA CompletesHeader ==
    ASSUME NEW f, NEW l, Collects(f, l), NEW h, f.field.text = h.name, h.name # <<>>, f.value.text = h.value,
           KnownAs(Lowered(h.name)) \notin {PathName, MethodName}, NEW g, g = CompleteLastHeader(f)
    PROVE  Fresh(g, ListedHeader(l, h))
<1>1. PICK k : k = LowerCase(f.field)
  OBVIOUS
<1>2. IsOwn(k) /\ k.text = Lowered(h.name)
  <2>1. IsOwn(k)
    BY <1>1, LoweredOwn DEF Collects
  <2>2. PICK v : v = Lowered(h.name)
    OBVIOUS
  <2>3. k = [f.field EXCEPT !.text = v]
    BY <1>1, <2>2 DEF LowerCase
  <2>4. k.text = v
    BY <2>3 DEF Collects, IsOwn
  <2> QED
    BY <2>1, <2>2, <2>4
<1>3. PICK r : r = InsertByKey(f.map, k, f.value)
  OBVIOUS
<1>4. IsString(r.key) /\ IsEmpty(r.key) /\ IsString(r.value) /\ IsEmpty(r.value)
  BY <1>2, <1>3, InsertHolds DEF Collects, Linked
<1>5. PICK m : m = r.map
  OBVIOUS
<1>6. Linked(m) /\ Content(m) = ListedAs(l, Lowered(h.name), h.value)
  <2>1. Linked(f.map) /\ DOMAIN f.value = StringNames /\ m = InsertByKey(f.map, k, f.value).map
    BY <1>3, <1>5 DEF Collects, IsOwn, StringNames
  <2>2. Linked(m) /\ Content(m) = ListedAs(Content(f.map), k.text, f.value.text)
    BY <2>1, InsertLinked
  <2>3. Content(f.map) = l
    BY DEF Collects
  <2> QED
    BY <1>2, <2>2, <2>3
<1>7. Proper(ListedHeader(l, h)) /\ ListedHeader(l, h) = ListedAs(l, Lowered(h.name), h.value)
  <2>1. Proper(l)
    BY DEF Collects
  <2> QED
    BY <2>1, ListedProper
<1>8. PICK w : w = [f EXCEPT !.map = r.map, !.field = r.key, !.value = r.value]
  OBVIOUS
<1>9. /\ DOMAIN w = FieldNames /\ w.map = m /\ w.field = r.key /\ w.value = r.value
  BY <1>5, <1>8 DEF Collects, FieldNames
<1>10. PICK b : b = (w.sound /\ IsEmpty(w.field) /\ IsEmpty(w.value))
  OBVIOUS
<1>11. g = [w EXCEPT !.state = "Field", !.sound = b]
  BY <1>1, <1>3, <1>8, <1>10 DEF CompleteLastHeader, IsEmpty
<1>12. /\ DOMAIN g = FieldNames /\ g.state = "Field" /\ g.map = m /\ g.field = r.key /\ g.value = r.value
  BY <1>9, <1>11 DEF FieldNames
<1>13. PICK u : u = ListedHeader(l, h) /\ Proper(u) /\ Content(m) = u
  BY <1>6, <1>7
<1>14. Collects(g, u)
  BY <1>4, <1>6, <1>12, <1>13 DEF Collects, IsString
<1>15. Fresh(g, u)
  BY <1>4, <1>12, <1>14 DEF Fresh, IsEmpty
<1> QED
  BY <1>13, <1>15

LEMMA CompletesNothing ==
    ASSUME NEW f, NEW l, Fresh(f, l), NEW g, g = CompleteLastHeader(f)
    PROVE  Fresh(g, l)
<1>1. PICK b : b = (f.sound /\ IsEmpty(f.field) /\ IsEmpty(f.value))
  OBVIOUS
<1>2. g = [f EXCEPT !.state = "Field", !.sound = b]
  BY <1>1 DEF CompleteLastHeader, Fresh, IsEmpty
<1>3. /\ DOMAIN g = FieldNames /\ g.state = "Field" /\ g.map = f.map /\ g.field = f.field /\ g.value = f.value
  BY <1>2 DEF Fresh, Collects, FieldNames
<1> QED
  BY <1>3 DEF Fresh, Collects

LEMMA NextName ==
    ASSUME NEW f, f.state = "Value", NEW g, g = CompleteLastHeader(f), g.state = "Field", NEW text
    PROVE  OnHeaderField(f, text) = OnHeaderField(g, text)
BY DEF OnHeaderField

\* The next token of a header.
LEMMA HeaderNext ==
    ASSUME NEW i, NEW h, IsText(h.name), IsText(h.value), NEW f, NEW l,
           NEW y \in Nat, y < Len(HeaderTokens(i, h)), NEW t, t = HeaderTokens(i, h)[y + 1],
           (y = 0 /\ Fresh(f, l)) \/ HeaderAt(f, l, h, y)
    PROVE  \/ t.kind = "field" /\ HeaderAt(OnHeaderField(f, t.arg), l, h, y + 1)
           \/ t.kind = "value" /\ HeaderAt(OnHeaderValue(f, t.arg), l, h, y + 1)
<1>1. PICK N \in Nat, M \in Nat \ {0} : N = Len(h.name) /\ M = ValueCuts(h.value)
  BY HeaderTokensAt
<1>2. /\ y < N + M
      /\ \A z \in 1..N : HeaderTokens(i, h)[z] = Token(i, "field", <<h.name[z]>>)
      /\ \A z \in 1..M : HeaderTokens(i, h)[N + z] = Token(i, "value", PieceAt(h.value, z))
  BY <1>1, HeaderTokensAt
<1>3. PICK n : n = h.name
  OBVIOUS
<1>4. PICK v : v = h.value /\ IsText(v)
  OBVIOUS
<1>5. y = 0 => UpTo(n, y) = <<>>
  BY UpToMore
<1>6. HeaderAt(f, l, h, y)
  BY <1>1, <1>3, <1>5 DEF HeaderAt, Fresh
<1>7. CASE y < N
  <2>1. Collects(f, l) /\ f.state = "Field" /\ f.field.text = UpTo(n, y) /\ f.value.text = <<>>
    BY <1>1, <1>3, <1>6, <1>7 DEF HeaderAt
  <2>2. PICK x : x = n[y + 1]
    OBVIOUS
  <2>3. PICK p : p = <<x>>
    OBVIOUS
  <2>4. t.kind = "field" /\ t.arg = p
    <3>1. y + 1 \in 1..N
      BY <1>7
    <3>2. t = Token(i, "field", p)
      BY <1>2, <1>3, <2>2, <2>3, <3>1
    <3> QED
      BY <3>2 DEF Token
  <2>5. PICK g : g = OnHeaderField(f, p)
    OBVIOUS
  <2>6. /\ Collects(g, l) /\ g.state = "Field" /\ g.field.text = f.field.text \o p /\ g.value = f.value
    <3>1. Collects(f, l) /\ f.state = "Field"
      BY <2>1
    <3> QED
      BY <2>5, <3>1, NamePiece, Zenon
  <2>7. UpTo(n, y) \o p = UpTo(n, y + 1)
    <3>1. UpTo(n, y) \o <<x>> = UpTo(n, y + 1)
      BY <2>2, UpToMore
    <3> QED
      BY <2>3, <3>1
  <2>8. g.field.text = UpTo(n, y + 1) /\ g.value.text = <<>>
    BY <2>1, <2>6, <2>7
  <2>9. y + 1 <= N
    BY <1>7
  <2>10. HeaderAt(g, l, h, y + 1)
    BY <1>1, <1>3, <2>6, <2>8, <2>9 DEF HeaderAt
  <2> QED
    BY <2>4, <2>5, <2>10
<1>8. CASE ~(y < N)
  <2>1. PICK z \in Nat : z = y - N /\ z < M /\ N + (z + 1) = y + 1 /\ z + 1 \in 1..M
    <3>1. PICK K \in Nat : K = M
      OBVIOUS
    <3>2. y < N + K /\ ~(y < N)
      BY <1>2, <1>8, <3>1
    <3>3. PICK z \in Nat : z = y - N
      BY <3>2
    <3> QED
      BY <3>1, <3>2, <3>3
  <2>2. Collects(f, l) /\ f.state # "Done" /\ f.field.text = n /\ f.value.text = Part(v, z)
    <3>1. CASE y = N
      <4>1. UpTo(n, N) = n
        BY <1>1, <1>3 DEF IsText, UpTo
      <4>2. Part(v, 0) = <<>> /\ z = 0
        BY <1>4, <2>1, <3>1, PartNext
      <4>3. Collects(f, l) /\ f.state = "Field" /\ f.field.text = UpTo(n, y) /\ f.value.text = <<>>
        BY <1>1, <1>3, <1>6, <3>1 DEF HeaderAt
      <4> QED
        BY <3>1, <4>1, <4>2, <4>3
    <3>2. CASE y # N
      <4>1. ~(y <= N)
        BY <1>8, <3>2
      <4> QED
        BY <1>1, <1>3, <1>4, <1>6, <2>1, <4>1 DEF HeaderAt
    <3> QED
      BY <3>1, <3>2
  <2>3. PICK p : p = PieceAt(v, z + 1)
    OBVIOUS
  <2>4. t.kind = "value" /\ t.arg = p
    <3>1. t = Token(i, "value", p)
      BY <1>2, <1>4, <2>1, <2>3
    <3> QED
      BY <3>1 DEF Token
  <2>5. PICK g : g = OnHeaderValue(f, p)
    OBVIOUS
  <2>6. /\ Collects(g, l) /\ g.state = "Value" /\ g.value.text = f.value.text \o p /\ g.field = f.field
    <3>1. Collects(f, l) /\ f.state # "Done"
      BY <2>2
    <3> QED
      BY <2>5, <3>1, ValuePiece, Zenon
  <2>7. Part(v, z) \o p = Part(v, z + 1)
    BY <1>4, <2>3, PartNext
  <2>8. g.value.text = Part(v, z + 1) /\ g.field.text = n
    BY <2>2, <2>6, <2>7
  <2>9. ~(y + 1 <= N) /\ (y + 1) - N = z + 1
    BY <1>8, <2>1
  <2>10. HeaderAt(g, l, h, y + 1)
    BY <1>1, <1>3, <1>4, <2>6, <2>8, <2>9 DEF HeaderAt
  <2> QED
    BY <2>4, <2>5, <2>10
<1> QED
  BY <1>7, <1>8

\* A header of which every token has come.
LEMMA HeaderDone ==
    ASSUME NEW i, NEW h, IsText(h.name), IsText(h.value), Len(h.name) > 0,
           KnownAs(Lowered(h.name)) \notin {PathName, MethodName}, NEW f, NEW l,
           NEW y, y = Len(HeaderTokens(i, h)), HeaderAt(f, l, h, y)
    PROVE  f.state = "Value" /\ Fresh(CompleteLastHeader(f), ListedHeader(l, h))
<1>1. PICK N \in Nat, M \in Nat \ {0} : N = Len(h.name) /\ M = ValueCuts(h.value) /\ y = N + M
  BY HeaderTokensAt
<1>2. ~(y <= N) /\ y - N = M
  BY <1>1
<1>3. Part(h.value, M) = h.value
  BY <1>1, PartNext
<1>4. Collects(f, l) /\ f.state = "Value" /\ f.field.text = h.name /\ f.value.text = h.value
  BY <1>1, <1>2, <1>3 DEF HeaderAt
<1>5. h.name # <<>>
  BY <1>1
<1>6. PICK g : g = CompleteLastHeader(f)
  OBVIOUS
<1>7. Fresh(g, ListedHeader(l, h))
  BY <1>4, <1>5, <1>6, CompletesHeader
<1> QED
  BY <1>4, <1>6, <1>7

HeaderSeq(i, hs) == [j \in DOMAIN hs |-> HeaderTokens(i, hs[j])]

IsHeader(h) ==
    /\ IsText(h.name) /\ IsText(h.value) /\ Len(h.name) > 0
    /\ KnownAs(Lowered(h.name)) \notin {PathName, MethodName}

LEMMA HeaderSeqType ==
    ASSUME NEW i, NEW hs, AreHeaders(hs), NEW q, q = HeaderSeq(i, hs)
    PROVE  /\ Len(hs) \in Nat /\ Len(q) = Len(hs) /\ Joint(q, Len(hs)) = AllHeaders(i, hs)
           /\ \E S : q \in Seq(Seq(S))
           /\ \A j \in 1..Len(hs) : q[j] = HeaderTokens(i, hs[j]) /\ IsHeader(hs[j]) /\ Len(q[j]) \in Nat \ {0}
<1>1. PICK L \in Nat : L = Len(hs) /\ DOMAIN hs = 1..L
  BY DEF AreHeaders, IsText
<1>2. q = [j \in 1..L |-> HeaderTokens(i, hs[j])]
  BY <1>1 DEF HeaderSeq
<1>3. ASSUME NEW j \in 1..L PROVE IsHeader(hs[j])
  BY <1>1 DEF AreHeaders, IsHeader
<1>4. PICK A : A = {<<>>} \cup HeaderArgs(hs)
  OBVIOUS
<1>5. ASSUME NEW j \in 1..L PROVE HeaderTokens(i, hs[j]) \in Seq(Plain(i, A))
  <2>1. PICK h : h = hs[j]
    OBVIOUS
  <2>2. IsText(h.name) /\ IsText(h.value)
    BY <1>3, <2>1 DEF IsHeader
  <2>3. PiecesOf(h.name) \subseteq A /\ PiecesOf(h.value) \subseteq A /\ <<>> \in A
    BY <1>1, <1>4, <2>1 DEF HeaderArgs
  <2>4. HeaderTokens(i, h) \in Seq(Plain(i, A))
    BY <2>2, <2>3, HeaderTokensType
  <2> QED
    BY <2>1, <2>4
<1>6. PICK S : S = Plain(i, A)
  OBVIOUS
<1>7. q \in Seq(Seq(S)) /\ Len(q) = L
  <2>1. q \in [1..L -> Seq(S)]
    BY <1>2, <1>5, <1>6
  <2>2. \A f \in [1..L -> Seq(S)] : f \in Seq(Seq(S)) /\ Len(f) = L
    OBVIOUS
  <2> QED
    BY <2>1, <2>2
<1>8. Joint(q, L) = AllHeaders(i, hs)
  <2>1. Joint(q, Len(q)) = FlattenSeq(q)
    BY <1>7, JointNext
  <2>2. FlattenSeq(q) = AllHeaders(i, hs)
    BY DEF AllHeaders, HeaderSeq
  <2> QED
    BY <1>7, <2>1, <2>2
<1>9. ASSUME NEW j \in 1..L PROVE q[j] = HeaderTokens(i, hs[j]) /\ Len(q[j]) \in Nat \ {0}
  <2>1. q[j] = HeaderTokens(i, hs[j])
    BY <1>2
  <2>2. PICK h : h = hs[j] /\ IsText(h.name) /\ IsText(h.value)
    BY <1>3 DEF IsHeader
  <2>3. PICK N \in Nat, M \in Nat \ {0} : N = Len(h.name) /\ M = ValueCuts(h.value)
    BY <2>2, HeaderTokensAt
  <2>4. Len(HeaderTokens(i, h)) = N + M
    BY <2>2, <2>3, HeaderTokensAt
  <2> QED
    BY <2>1, <2>2, <2>3, <2>4
<1> QED
  BY <1>1, <1>3, <1>7, <1>8, <1>9

\* The strings and the map after x tokens of the headers hs.
FieldsAt(i, f, hs, x) ==
    \/ x = 0 /\ Fresh(f, <<>>)
    \/ \E j \in 1..Len(hs) : \E y \in 1..Len(HeaderTokens(i, hs[j])) :
          x = Start(HeaderSeq(i, hs), j) + y /\ HeaderAt(f, Listed(hs, j - 1), hs[j], y)

\* Where the tokens of the j-th header are: k of them, behind s others.
Place(i, hs, j, s, k) ==
    /\ s = Start(HeaderSeq(i, hs), j) /\ k = Len(HeaderTokens(i, hs[j]))
    /\ s + k <= Len(AllHeaders(i, hs))
    /\ \A m \in 1..k : AllHeaders(i, hs)[s + m] = HeaderTokens(i, hs[j])[m]
    /\ j = 1 => s = 0
    /\ j < Len(hs) => Start(HeaderSeq(i, hs), j + 1) = s + k
    /\ j = Len(hs) => Len(AllHeaders(i, hs)) = s + k

LEMMA Placed ==
    ASSUME NEW i, NEW hs, AreHeaders(hs), NEW j \in 1..Len(hs)
    PROVE  \E s \in Nat : \E k \in Nat \ {0} : Place(i, hs, j, s, k)
<1>1. PICK q : q = HeaderSeq(i, hs)
  OBVIOUS
<1>2. PICK S : q \in Seq(Seq(S))
  BY <1>1, HeaderSeqType
<1>3. PICK L \in Nat : L = Len(hs) /\ Len(q) = L /\ Joint(q, L) = AllHeaders(i, hs)
  BY <1>1, HeaderSeqType
<1>4. j \in 1..Len(q) /\ j \in 1..L /\ j \in Nat /\ L \in 0..Len(q) /\ j \in 0..Len(q)
  BY <1>3
<1>5. q[j] = HeaderTokens(i, hs[j]) /\ Len(q[j]) \in Nat \ {0}
  BY <1>1, HeaderSeqType
<1>6. PICK s \in Nat, k \in Nat \ {0} : s = Start(q, j) /\ k = Len(q[j])
  <2>1. Start(q, j) \in Nat
    BY <1>2, <1>4, JointGrows DEF Grown
  <2> QED
    BY <1>5, <2>1
<1>7. Len(Joint(q, j)) = s + k
  <2>1. Len(Joint(q, j)) = Start(q, j) + Len(q[j])
    BY <1>2, <1>4, JointGrows DEF Grown
  <2> QED
    BY <1>6, <2>1
<1>8. s + k <= Len(AllHeaders(i, hs))
  <2>1. Len(Joint(q, j)) <= Len(Joint(q, L))
    BY <1>2, <1>4, JointAt
  <2> QED
    BY <1>3, <1>7, <2>1
<1>9. \A m \in 1..k : AllHeaders(i, hs)[s + m] = HeaderTokens(i, hs[j])[m]
  <2>1. \A m \in 1..Len(q[j]) : Joint(q, L)[Start(q, j) + m] = q[j][m]
    BY <1>2, <1>4, JointAt
  <2> QED
    BY <1>3, <1>5, <1>6, <2>1
<1>10. j = 1 => s = 0
  <2> SUFFICES ASSUME j = 1 PROVE s = 0
    OBVIOUS
  <2>1. s = Len(Joint(q, 0))
    BY <1>6 DEF Start
  <2>2. Joint(q, 0) = <<>>
    BY <1>2, JointNext
  <2>3. Len(<<>>) = 0
    OBVIOUS
  <2> QED
    BY <2>1, <2>2, <2>3
<1>11. j < Len(hs) => Start(q, j + 1) = s + k
  <2>1. (j + 1) - 1 = j
    BY <1>4
  <2> QED
    BY <1>7, <2>1 DEF Start
<1>12. j = Len(hs) => Len(AllHeaders(i, hs)) = s + k
  BY <1>3, <1>7
<1>13. Place(i, hs, j, s, k)
  BY <1>1, <1>5, <1>6, <1>8, <1>9, <1>10, <1>11, <1>12 DEF Place
<1> QED
  BY <1>13

\* What a token of the headers does to the fields when x of them have come.
TakesNext(i, f, hs, x, t) ==
    \/ t.kind = "field" /\ FieldsAt(i, OnHeaderField(f, t.arg), hs, x + 1)
    \/ t.kind = "value" /\ FieldsAt(i, OnHeaderValue(f, t.arg), hs, x + 1)

\* The y-th token of the j-th header, when y - 1 of them have come.
LEMMA FieldsOne ==
    ASSUME NEW i, NEW hs, AreHeaders(hs), NEW j \in 1..Len(hs), NEW s \in Nat, NEW k \in Nat, Place(i, hs, j, s, k),
           NEW y \in Nat, y < k, NEW x, x = s + y, NEW t, t = AllHeaders(i, hs)[x + 1], NEW f,
           (y = 0 /\ Fresh(f, Listed(hs, j - 1))) \/ HeaderAt(f, Listed(hs, j - 1), hs[j], y)
    PROVE  TakesNext(i, f, hs, x, t)
<1>1. PICK h : h = hs[j] /\ IsText(h.name) /\ IsText(h.value)
  BY HeaderSeqType DEF IsHeader
<1>2. t = HeaderTokens(i, h)[y + 1]
  <2>1. y + 1 \in 1..k /\ s + (y + 1) = x + 1
    OBVIOUS
  <2>2. AllHeaders(i, hs)[s + (y + 1)] = HeaderTokens(i, hs[j])[y + 1]
    BY <2>1 DEF Place
  <2> QED
    BY <1>1, <2>1, <2>2
<1>3. PICK l : l = Listed(hs, j - 1)
  OBVIOUS
<1>4. \/ t.kind = "field" /\ HeaderAt(OnHeaderField(f, t.arg), l, h, y + 1)
      \/ t.kind = "value" /\ HeaderAt(OnHeaderValue(f, t.arg), l, h, y + 1)
  <2>1. (y = 0 /\ Fresh(f, l)) \/ HeaderAt(f, l, h, y)
    BY <1>1, <1>3
  <2>2. y < Len(HeaderTokens(i, h))
    BY <1>1 DEF Place
  <2> QED
    BY <1>1, <1>2, <2>1, <2>2, HeaderNext
<1>5. ASSUME NEW g, HeaderAt(g, l, h, y + 1) PROVE FieldsAt(i, g, hs, x + 1)
  <2>1. k = Len(HeaderTokens(i, hs[j])) /\ s = Start(HeaderSeq(i, hs), j)
    BY DEF Place
  <2>2. y + 1 \in 1..Len(HeaderTokens(i, hs[j])) /\ x + 1 = Start(HeaderSeq(i, hs), j) + (y + 1)
    BY <2>1
  <2> QED
    BY <1>1, <1>3, <1>5, <2>2 DEF FieldsAt
<1> QED
  BY <1>4, <1>5 DEF TakesNext

\* The next token of the headers is taken.
LEMMA FieldsNext ==
    ASSUME NEW i, NEW hs, AreHeaders(hs), NEW x \in Nat, x < Len(AllHeaders(i, hs)),
           NEW t, t = AllHeaders(i, hs)[x + 1], NEW f, FieldsAt(i, f, hs, x)
    PROVE  TakesNext(i, f, hs, x, t)
<1>1. PICK L \in Nat : L = Len(hs)
  BY HeaderSeqType
<1>5. CASE x = 0 /\ Fresh(f, <<>>)
  <2>1. L # 0
    <3> SUFFICES ASSUME L = 0 PROVE FALSE
      OBVIOUS
    <3>1. PICK q : q = HeaderSeq(i, hs)
      OBVIOUS
    <3>2. PICK S : q \in Seq(Seq(S))
      BY <3>1, HeaderSeqType
    <3>3. Joint(q, 0) = AllHeaders(i, hs)
      BY <1>1, <3>1, HeaderSeqType
    <3>4. AllHeaders(i, hs) = <<>>
      BY <3>2, <3>3, JointNext
    <3> QED
      BY <1>5, <3>4
  <2>2. PICK j \in 1..Len(hs) : j = 1 /\ j - 1 = 0
    BY <1>1, <2>1
  <2>3. PICK s \in Nat, k \in Nat \ {0} : Place(i, hs, j, s, k)
    BY Placed
  <2>4. Fresh(f, Listed(hs, j - 1))
    <3>1. Listed(hs, 0) = <<>>
      BY ListedNext
    <3> QED
      BY <1>5, <2>2, <3>1
  <2>5. s = 0
    BY <2>2, <2>3 DEF Place
  <2>6. PICK y \in Nat : y = 0 /\ y < k /\ x = s + y /\ k \in Nat
    BY <1>5, <2>5
  <2> QED
    BY <2>3, <2>4, <2>6, FieldsOne
<1>6. ASSUME NEW j \in 1..Len(hs), NEW y \in 1..Len(HeaderTokens(i, hs[j])),
             x = Start(HeaderSeq(i, hs), j) + y, HeaderAt(f, Listed(hs, j - 1), hs[j], y)
      PROVE  TakesNext(i, f, hs, x, t)
  <2>1. PICK s \in Nat, k \in Nat : Place(i, hs, j, s, k) /\ k # 0
    BY Placed
  <2>2. y \in Nat /\ y <= k /\ x = s + y /\ 1 <= y
    BY <1>6, <2>1 DEF Place
  <2>3. CASE y < k
    BY <1>6, <2>1, <2>2, <2>3, FieldsOne
  <2>4. CASE y = k
    <3>1. PICK h : h = hs[j] /\ IsHeader(h)
      BY HeaderSeqType
    <3>2. PICK l : l = Listed(hs, j - 1)
      OBVIOUS
    <3>3. f.state = "Value" /\ Fresh(CompleteLastHeader(f), ListedHeader(l, h))
      <4>1. IsText(h.name) /\ IsText(h.value) /\ Len(h.name) > 0 /\ KnownAs(Lowered(h.name)) \notin {PathName, MethodName}
        BY <3>1 DEF IsHeader
      <4>2. k = Len(HeaderTokens(i, h)) /\ HeaderAt(f, l, h, k)
        BY <1>6, <2>1, <2>4, <3>1, <3>2 DEF Place
      <4> QED
        BY <4>1, <4>2, HeaderDone
    <3>4. j < Len(hs)
      <4>1. j # Len(hs)
        <5> SUFFICES ASSUME j = Len(hs) PROVE FALSE
          OBVIOUS
        <5>1. Len(AllHeaders(i, hs)) = s + k
          BY <2>1 DEF Place
        <5> QED
          BY <2>2, <2>4, <5>1
      <4> QED
        BY <1>1, <4>1
    <3>5. PICK n \in 1..Len(hs) : n = j + 1 /\ n - 1 = j
      BY <1>1, <3>4
    <3>6. PICK p \in Nat, e \in Nat : Place(i, hs, n, p, e) /\ e # 0
      BY Placed
    <3>7. p = x
      BY <2>1, <2>2, <2>4, <3>4, <3>5, <3>6 DEF Place
    <3>8. Listed(hs, n - 1) = ListedHeader(l, h)
      <4>1. PICK m \in Nat : m = j - 1 /\ m + 1 = j
        BY <1>1
      <4>2. Listed(hs, m + 1) = ListedHeader(Listed(hs, m), hs[m + 1])
        BY <4>1, ListedNext
      <4> QED
        BY <3>1, <3>2, <3>5, <4>1, <4>2
    <3>9. PICK g : g = CompleteLastHeader(f)
      OBVIOUS
    <3>10. Fresh(g, Listed(hs, n - 1))
      BY <3>3, <3>8, <3>9
    <3>11. PICK o \in Nat : o = 0 /\ o < e /\ x = p + o
      BY <3>6, <3>7
    <3>12. TakesNext(i, g, hs, x, t)
      BY <3>6, <3>10, <3>11, FieldsOne
    <3>13. t.kind = "field"
      <4>1. 1 \in 1..e /\ p + 1 = x + 1
        BY <3>6, <3>7
      <4>2. t = HeaderTokens(i, hs[n])[1]
        BY <3>6, <4>1 DEF Place
      <4>3. PICK u : u = hs[n] /\ IsText(u.name) /\ IsText(u.value) /\ Len(u.name) > 0
        BY HeaderSeqType DEF IsHeader
      <4>4. Len(u.name) \in Nat
        BY <4>3 DEF IsText
      <4>5. 1 \in 1..Len(u.name)
        BY <4>3, <4>4
      <4>6. ASSUME NEW d, d = u PROVE \A z \in 1..Len(d.name) : HeaderTokens(i, d)[z] = Token(i, "field", <<d.name[z]>>)
        <5>1. IsText(d.name) /\ IsText(d.value)
          BY <4>3, <4>6
        <5>2. \A z \in 1..Len(d.name) : HeaderTokens(i, d)[z] = Token(i, "field", <<d.name[z]>>)
          BY <5>1, HeaderTokensAt
        <5> QED
          BY <5>2
      <4>7. t = Token(i, "field", <<u.name[1]>>)
        BY <4>2, <4>3, <4>5, <4>6
      <4> QED
        BY <4>7 DEF Token
    <3>14. FieldsAt(i, OnHeaderField(g, t.arg), hs, x + 1)
      BY <3>12, <3>13 DEF TakesNext
    <3>15. OnHeaderField(f, t.arg) = OnHeaderField(g, t.arg)
      <4>1. g.state = "Field"
        BY <3>10 DEF Fresh
      <4> QED
        BY <3>3, <3>9, <4>1, NextName
    <3> QED
      BY <3>13, <3>14, <3>15 DEF TakesNext
  <2> QED
    BY <2>2, <2>3, <2>4
<1> QED
  BY <1>5, <1>6 DEF FieldsAt

\* All the headers have come.
LEMMA FieldsDone ==
    ASSUME NEW i, NEW hs, AreHeaders(hs), NEW x, x = Len(AllHeaders(i, hs)), NEW f, FieldsAt(i, f, hs, x),
           NEW g, g = CompleteLastHeader(f)
    PROVE  Fresh(g, Listed(hs, Len(hs)))
<1>1. PICK L \in Nat : L = Len(hs)
  BY HeaderSeqType
<1>5. CASE x = 0 /\ Fresh(f, <<>>)
  <2>1. L = 0
    <3> SUFFICES ASSUME L # 0 PROVE FALSE
      OBVIOUS
    <3>1. PICK j \in 1..Len(hs) : j = 1
      BY <1>1
    <3>2. PICK s \in Nat, k \in Nat \ {0} : Place(i, hs, j, s, k)
      BY Placed
    <3>3. s + k <= 0
      BY <1>5, <3>2 DEF Place
    <3> QED
      BY <3>3
  <2>2. Fresh(f, Listed(hs, L))
    BY <1>5, <2>1, ListedNext
  <2> QED
    BY <1>1, <2>2, CompletesNothing
<1>6. ASSUME NEW j \in 1..Len(hs), NEW y \in 1..Len(HeaderTokens(i, hs[j])),
             x = Start(HeaderSeq(i, hs), j) + y, HeaderAt(f, Listed(hs, j - 1), hs[j], y)
      PROVE  Fresh(g, Listed(hs, Len(hs)))
  <2>1. PICK s \in Nat, k \in Nat \ {0} : Place(i, hs, j, s, k)
    BY Placed
  <2>2. y \in Nat /\ y <= k /\ x = s + y /\ k \in Nat
    BY <1>6, <2>1 DEF Place
  <2>3. j = Len(hs)
    <3> SUFFICES ASSUME j # Len(hs) PROVE FALSE
      OBVIOUS
    <3>1. PICK n \in 1..Len(hs) : n = j + 1 /\ j < Len(hs)
      BY <1>1
    <3>2. PICK p \in Nat, e \in Nat \ {0} : Place(i, hs, n, p, e)
      BY Placed
    <3>3. p = s + k
      BY <2>1, <3>1, <3>2 DEF Place
    <3>4. p + e <= x
      BY <3>2 DEF Place
    <3> QED
      BY <2>2, <3>3, <3>4
  <2>4. y = k
    <3>1. x = s + k
      BY <2>1, <2>3 DEF Place
    <3>2. s \in Nat /\ k \in Nat /\ y \in Nat
      BY <2>1, <2>2
    <3>3. s + y = s + k
      BY <2>2, <3>1
    <3> HIDE <2>2
    <3> QED
      BY <3>2, <3>3
  <2>5. PICK h : h = hs[j] /\ IsHeader(h)
    BY HeaderSeqType
  <2>6. PICK l : l = Listed(hs, j - 1)
    OBVIOUS
  <2>7. Fresh(CompleteLastHeader(f), ListedHeader(l, h))
    <3>1. IsText(h.name) /\ IsText(h.value) /\ Len(h.name) > 0 /\ KnownAs(Lowered(h.name)) \notin {PathName, MethodName}
      BY <2>5 DEF IsHeader
    <3>2. k = Len(HeaderTokens(i, h)) /\ HeaderAt(f, l, h, k)
      BY <1>6, <2>1, <2>4, <2>5, <2>6 DEF Place
    <3> QED
      BY <3>1, <3>2, HeaderDone
  <2>8. Listed(hs, j) = ListedHeader(l, h)
    <3>1. PICK m \in Nat : m = j - 1 /\ m + 1 = j
      BY <1>1
    <3>2. Listed(hs, m + 1) = ListedHeader(Listed(hs, m), hs[m + 1])
      BY <3>1, ListedNext
    <3> QED
      BY <2>5, <2>6, <3>1, <3>2
  <2> QED
    BY <2>3, <2>7, <2>8
<1> QED
  BY <1>5, <1>6 DEF FieldsAt
=============================================================================
