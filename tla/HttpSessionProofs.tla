-------------------------- MODULE HttpSessionProofs --------------------------
(***************************************************************************)
(* Theorems of HttpSession: the session uses its HTTP/2 codec the way the  *)
(* codec is meant to be used, so that what holds of the codec holds of     *)
(* every connection, whatever is read of it and in whatever pieces; what   *)
(* an HTTP/1 connection writes is the responses it was given; that no      *)
(* assertion of its header callbacks fails; and that its decoders are told *)
(* what the client sent.                                                   *)
(***************************************************************************)
EXTENDS HttpSession, HttpCodecProofs

\* EHttpSession::read() calls nothing of the codec but dispatch(), and that only when it
\* is at rest: a session, seen from its codec, is a codec with some user.
THEOREM SessionRunsHttp2 == Spec => Http2Spec
<1>1. Init => Http2Init
  BY DEF Init
<1>2. [Next]_vars => [Http2Next]_http2Vars
  <2> SUFFICES ASSUME [Next]_vars PROVE Http2Next \/ UNCHANGED http2Vars
    OBVIOUS
  <2>1. CASE ClientAsks
    BY <2>1 DEF ClientAsks
  <2>2. CASE \E n \in DOMAIN incoming : ReadAndWait(n) \/ ReadAndDispatch(n)
    <3>1. UNCHANGED http2Vars \/ BeginDispatch
      BY <2>2 DEF ReadAndWait, ReadAndDispatch
    <3> QED
      BY <3>1 DEF Http2Next
  <2>3. CASE codec = "Http1" /\ Http1Next /\ UNCHANGED <<http2Vars, sessionVars>>
    BY <2>3
  <2>4. CASE codec = "Http2" /\ Http2Next /\ UNCHANGED <<http1Vars, sessionVars>>
    BY <2>4
  <2>5. CASE UNCHANGED vars
    BY <2>5 DEF vars
  <2> QED
    BY <2>1, <2>2, <2>3, <2>4, <2>5 DEF Next
<1> QED
  BY <1>1, <1>2, PTL DEF Spec, Http2Spec

\* On a connection, what the codec sends is framed as HTTP/2 wants it, however the magic and
\* the frames of the client are cut by the reads.
THEOREM SessionFraming == Spec => []ResponseFraming
BY SessionRunsHttp2, Http2Framing

\* On a connection at rest, what is left to send waits for the window of the peer.
THEOREM SessionMovesOn == Spec => []NothingStalls
BY SessionRunsHttp2, Http2MovesOn

\* On a connection, no event follows the reset of a stream.
THEOREM SessionSilence == Spec => []NoEventsAfterReset
BY SessionRunsHttp2, Http2Silence

-----------------------------------------------------------------------------
(* What holds of a session between two steps, c being the number of streams opened *)

Pending == parse.slice \o (firstRequestBuffer \o incoming)

\* Requests are opened in order: what begins in the tokens that are left comes after the
\* last stream, so that the streams do not exceed the requests.
ReadInv(c) ==
    /\ requests \in Conversations \cup {<<>>}
    /\ asked \in 0..Len(requests) /\ c \in 0..asked
    /\ DOMAIN origin = Numbers /\ Streams1 = 1..c
    /\ DOMAIN parse = {"at", "slice", "expects", "http10"}
    /\ \E T : parse.slice \in Seq(T) /\ firstRequestBuffer \in Seq(T) /\ incoming \in Seq(T)
    /\ Rises(Pending, c, asked)
    /\ codec # "Http1" => parse.slice = <<>>
    /\ codec # "none" => ~isFirstRequest
    /\ parse.at = "parse" <=> parse.slice # <<>>

Untouched(g) == g.headers = "none" /\ ~g.interim

GivenInv(c) ==
    /\ DOMAIN given = Numbers
    /\ \A n \in Numbers : IsGiven(given[n]) /\ (n > c => Untouched(given[n]))

WrittenInv ==
    /\ wire1 \in Seq(OnWire(Whats))
    /\ \A n \in Numbers : Written(wire1, n) = ResponseItems(given[n])

ItemsInv(c) ==
    /\ Contiguous(wire1)
    /\ \A k \in 1..Len(wire1) : wire1[k].n \in 0..c
    /\ parse.at # "failed" => \A k \in 1..Len(wire1) : wire1[k].n # 0

\* The active request q is that of the last stream, of which g was given: it knows whether
\* anything was written, and how the body is framed.
Serves(q, g, w, c) ==
    /\ DOMAIN q = {"n", "url", "remoteComplete", "started", "chunked"}
    /\ q.n = c /\ c \in Numbers
    /\ q.started <=> g.interim \/ g.headers # "none"
    /\ g.headers # "none" => (q.chunked <=> IsChunked(g))
    /\ \A k \in 1..Len(w) : w[k].n = c => q.started
    /\ EndsWith(w, c)

EncoderInv(c) ==
    /\ IsBuffer(reserved)
    /\ request # NoRequest => Serves(request, given[c], wire1, c)

WireInv(c) == GivenInv(c) /\ WrittenInv /\ ItemsInv(c) /\ EncoderInv(c)

SessionInv == \E c \in Nat : ReadInv(c) /\ WireInv(c)

LEMMA Bounds ==
    ASSUME NEW c \in Nat, ReadInv(c)
    PROVE  /\ asked \in Nat /\ c <= asked /\ asked <= Len(requests) /\ Len(requests) \in Nat
           /\ Len(requests) <= MaxRequests /\ asked <= MaxRequests /\ MaxRequests \in Nat
<1>1. Len(requests) \in Nat /\ Len(requests) <= MaxRequests /\ MaxRequests \in Nat
  <2>1. CASE requests = <<>>
    <3>1. Len(requests) = 0
      BY <2>1
    <3> QED
      BY <3>1, SessionAssumption
  <2>2. CASE requests \in Conversations
    BY <2>2, SessionAssumption DEF IsText
  <2> QED
    BY <2>1, <2>2 DEF ReadInv
<1>2. asked \in 0..Len(requests) /\ c \in 0..asked
  BY DEF ReadInv
<1> QED
  BY <1>1, <1>2

\* Where tokens are not taken out of the slice, nor streams opened.
LEMMA StillRead ==
    ASSUME NEW c \in Nat, ReadInv(c), UNCHANGED <<requests, asked, origin>>,
           DOMAIN parse' = {"at", "slice", "expects", "http10"},
           NEW T, parse'.slice \in Seq(T), firstRequestBuffer' \in Seq(T), incoming' \in Seq(T),
           Rises(Pending', c, asked),
           codec' # "Http1" => parse'.slice = <<>>, codec' # "none" => ~isFirstRequest',
           parse'.at = "parse" <=> parse'.slice # <<>>
    PROVE  ReadInv(c)'
<1>1. /\ requests' \in Conversations \cup {<<>>}
      /\ asked' \in 0..Len(requests') /\ c \in 0..asked'
  BY DEF ReadInv
<1>2. (DOMAIN origin)' = Numbers /\ Streams1' = 1..c
  BY DEF ReadInv, Streams1
<1>3. \E U : parse'.slice \in Seq(U) /\ firstRequestBuffer' \in Seq(U) /\ incoming' \in Seq(U)
  OBVIOUS
<1>4. Rises(Pending', c, asked')
  OBVIOUS
<1> QED
  BY <1>1, <1>2, <1>3, <1>4 DEF ReadInv

LEMMA WrittenNothing == ASSUME NEW n PROVE Written(<<>>, n) = <<>>
<1>1. PICK w : w = <<>> /\ Len(w) = 0
  OBVIOUS
<1>2. PICK f : f = [i \in 0..0 |-> <<>>]
  OBVIOUS
<1>3. f = [i \in 0..0 |-> IF i = 0 THEN <<>>
                        ELSE IF w[i].n = n THEN Append(f[i - 1], w[i].what) ELSE f[i - 1]]
  BY <1>2
<1>4. Gathers(f, w, n, 0)
  BY <1>3 DEF Gathers
<1>5. Len(w) \in Nat /\ Gathers(f, w, n, Len(w))
  BY <1>1, <1>4
<1>6. Written(w, n) = f[Len(w)]
  BY <1>5, WrittenIs
<1>7. f[0] = <<>>
  BY <1>2
<1> QED
  BY <1>1, <1>6, <1>7

LEMMA InitWire ==
    ASSUME Init
    PROVE  WireInv(0)
<1>1. PICK g0 : g0 = [interim |-> FALSE, headers |-> "none", http10 |-> FALSE, pieces |-> <<>>, ended |-> FALSE]
  OBVIOUS
<1>2. given = [n \in Numbers |-> g0]
  BY <1>1 DEF Init, Http1Init
<1>3. IsGiven(g0) /\ Untouched(g0)
  <2>1. <<>> \in Seq(Whats)
    OBVIOUS
  <2> QED
    BY <1>1, <2>1 DEF IsGiven, Untouched
<1>4. ResponseItems(g0) = <<>>
  <2>1. BodyOf(g0) = <<>>
    BY <1>1, NoBody
  <2>2. HeadOf(g0) = <<>> /\ Interim(g0) = <<>> /\ EndOf(g0) = <<>>
    BY <1>1 DEF HeadOf, Interim, EndOf
  <2>3. <<>> \o <<>> \o <<>> \o <<>> = <<>>
    OBVIOUS
  <2> QED
    BY <2>1, <2>2, <2>3, ItemsInParts
<1>5. GivenInv(0)
  BY <1>2, <1>3 DEF GivenInv
<1>6. wire1 = <<>> /\ request = NoRequest
  BY DEF Init, Http1Init
<1>7. WrittenInv
  <2>1. <<>> \in Seq(OnWire(Whats))
    OBVIOUS
  <2>2. ASSUME NEW n \in Numbers PROVE Written(wire1, n) = ResponseItems(given[n])
    <3>1. Written(<<>>, n) = <<>>
      BY WrittenNothing
    <3>2. given[n] = g0
      BY <1>2
    <3> QED
      BY <1>4, <1>6, <3>1, <3>2
  <2> QED
    BY <1>6, <2>1, <2>2 DEF WrittenInv
<1>8. ItemsInv(0)
  <2>1. Len(wire1) = 0
    BY <1>6
  <2>2. 1..Len(wire1) = {}
    BY <2>1
  <2> QED
    BY <2>2 DEF ItemsInv, Contiguous
<1>9. EncoderInv(0)
  <2>1. <<>> \in Seq(OnWire(Whats)) /\ 0 \in Nat
    OBVIOUS
  <2>2. reserved = [content |-> <<>>, pos |-> 0, limit |-> 0]
    BY DEF Init, Http1Init
  <2>3. Len(<<>>) = 0 /\ 0 <= 0
    OBVIOUS
  <2>4. IsBuffer(reserved)
    BY <2>1, <2>2, <2>3 DEF IsBuffer
  <2> QED
    BY <1>6, <2>4 DEF EncoderInv
<1> QED
  BY <1>5, <1>7, <1>8, <1>9 DEF WireInv

LEMMA InitRead ==
    ASSUME Init
    PROVE  ReadInv(0)
<1>1. /\ parse = [at |-> "rest", slice |-> <<>>, expects |-> "begin", http10 |-> FALSE]
      /\ origin = [n \in Numbers |-> 0]
      /\ asked = 0 /\ firstRequestBuffer = <<>> /\ codec = "none"
      /\ requests \in Conversations \cup {<<>>}
      /\ incoming = <<>> \/ incoming = Magic
  BY DEF Init, Http1Init
<1>2. Len(requests) \in Nat
  <2>1. CASE requests = <<>>
    BY <2>1
  <2>2. CASE requests \in Conversations
    BY <2>2, SessionAssumption DEF IsText
  <2> QED
    BY <1>1, <2>1, <2>2
<1>3. DOMAIN origin = Numbers /\ Streams1 = 1..0
  BY <1>1 DEF Streams1
<1>4. DOMAIN parse = {"at", "slice", "expects", "http10"} /\ parse.slice = <<>> /\ parse.at = "rest"
  BY <1>1
<1>5. PICK t : t = Token(0, "magic", <<>>)
  OBVIOUS
<1>6. incoming \in Seq({t}) /\ \A i \in 1..Len(incoming) : incoming[i] = t
  <2>1. CASE incoming = <<>>
    BY <2>1
  <2>2. CASE incoming = Magic
    <3>1. PICK m \in Nat : m = MagicLen
      BY SessionAssumption
    <3>2. incoming = [i \in 1..m |-> t]
      BY <1>5, <2>2, <3>1 DEF Magic
    <3> QED
      BY <3>2
  <2> QED
    BY <1>1, <2>1, <2>2
<1>7. Pending = incoming
  <2>1. <<>> \o (<<>> \o incoming) = incoming
    BY <1>6
  <2> QED
    BY <1>1, <1>4, <2>1 DEF Pending
<1>8. t.kind # "begin"
  BY <1>5 DEF Token
<1>9. Rises(Pending, 0, asked)
  BY <1>6, <1>7, <1>8 DEF Rises
<1>10. \E T : parse.slice \in Seq(T) /\ firstRequestBuffer \in Seq(T) /\ incoming \in Seq(T)
  <2>1. <<>> \in Seq({t})
    OBVIOUS
  <2> QED
    BY <1>1, <1>4, <1>6, <2>1
<1>11. asked \in 0..Len(requests) /\ 0 \in 0..asked
  BY <1>1, <1>2
<1> QED
  BY <1>1, <1>3, <1>4, <1>9, <1>10, <1>11 DEF ReadInv

LEMMA InitSession == Init => SessionInv
<1>1. ASSUME Init PROVE ReadInv(0) /\ WireInv(0)
  BY <1>1, InitRead, InitWire
<1> QED
  BY <1>1 DEF SessionInv

-----------------------------------------------------------------------------
(* The client and the reads *)

LEMMA WireKept ==
    ASSUME NEW c \in Nat, WireInv(c), UNCHANGED <<reserved, wire1, given, request>>,
           parse'.at # "failed" => parse.at # "failed"
    PROVE  WireInv(c)'
<1>1. GivenInv(c)' /\ WrittenInv'
  BY DEF WireInv, GivenInv, WrittenInv
<1>2. ItemsInv(c)'
  BY DEF WireInv, ItemsInv
<1>3. EncoderInv(c)'
  BY DEF WireInv, EncoderInv
<1> QED
  BY <1>1, <1>2, <1>3 DEF WireInv

LEMMA AsksRead ==
    ASSUME NEW c \in Nat, ReadInv(c), ClientAsks
    PROVE  ReadInv(c)'
<1>1. PICK T : parse.slice \in Seq(T) /\ firstRequestBuffer \in Seq(T) /\ incoming \in Seq(T)
  BY DEF ReadInv
<1>2. PICK r : r = requests[asked + 1]
  OBVIOUS
<1>3. PICK a \in Nat : a = asked /\ c <= a /\ a < Len(requests)
  BY Bounds DEF ClientAsks
<1>4. IsRequest(r)
  <2>1. requests # <<>>
    BY <1>3
  <2>2. requests \in Conversations
    BY <2>1 DEF ReadInv
  <2>3. IsText(requests) /\ a + 1 \in 1..Len(requests)
    BY <1>3, <2>2, Bounds, SessionAssumption
  <2>4. a + 1 \in DOMAIN requests
    BY <2>3 DEF IsText
  <2> QED
    BY <1>2, <1>3, <2>2, <2>4, SessionAssumption DEF IsRequest
<1>5. PICK t : t = Tokens(a + 1, r)
  OBVIOUS
<1>6. PICK A : t \in Seq(AllOf(a + 1, A))
  BY <1>4, <1>5, TokensType
<1>7. Rises(t, a, a + 1)
  BY <1>3, <1>4, <1>5, TokensRise
<1>8. PICK U : T \subseteq U /\ AllOf(a + 1, A) \subseteq U
  <2>1. T \subseteq T \cup AllOf(a + 1, A) /\ AllOf(a + 1, A) \subseteq T \cup AllOf(a + 1, A)
    OBVIOUS
  <2> QED
    BY <2>1
<1>9. PICK x \in Seq(U) : x = parse.slice
  BY <1>1, <1>8, Wider
<1>10. PICK y \in Seq(U) : y = firstRequestBuffer
  BY <1>1, <1>8, Wider
<1>11. PICK z \in Seq(U) : z = incoming
  BY <1>1, <1>8, Wider
<1>12. PICK u \in Seq(U) : u = t
  BY <1>6, <1>8, Wider
<1>13. UNCHANGED <<parse, request, reserved, wire1, given, origin, requests, codec, isFirstRequest, firstRequestBuffer>>
  BY DEF ClientAsks, http1Vars, parserVars, encoderVars
<1>14. asked' = a + 1 /\ incoming' = z \o u
  BY <1>2, <1>3, <1>5, <1>11, <1>12 DEF ClientAsks
<1>15. PICK p \in Seq(U) : p = x \o (y \o z)
  <2>1. x \o (y \o z) \in Seq(U)
    OBVIOUS
  <2> QED
    BY <2>1
<1>16. Pending = p
  BY <1>9, <1>10, <1>11, <1>15 DEF Pending
<1>17. Pending' = p \o u
  <2>1. Pending' = x \o (y \o (z \o u))
    BY <1>9, <1>10, <1>13, <1>14 DEF Pending
  <2>2. x \o (y \o (z \o u)) = (x \o (y \o z)) \o u
    <3>1. Cat(y, Cat(z, u)) = Cat(Cat(y, z), u) /\ Cat(y, z) \in Seq(U)
      BY CatAssociates
    <3>2. Cat(x, Cat(Cat(y, z), u)) = Cat(Cat(x, Cat(y, z)), u)
      BY <3>1, CatAssociates
    <3> QED
      BY <3>1, <3>2 DEF Cat
  <2> QED
    BY <1>15, <2>1, <2>2
<1>18. Rises(p \o u, c, a + 1)
  <2>1. Rises(p, c, a) /\ Rises(u, a, a + 1)
    BY <1>3, <1>7, <1>12, <1>16 DEF ReadInv
  <2>2. PICK b \in Nat : b = a + 1 /\ a <= b
    BY <1>3
  <2>3. Rises(u, a, b)
    BY <2>1, <2>2
  <2>4. Rises(p \o u, c, b)
    BY <1>3, <2>1, <2>2, <2>3, RisesJoined
  <2> QED
    BY <2>2, <2>4
<1>19. asked' \in 0..Len(requests') /\ c \in 0..asked'
  BY <1>3, <1>13, <1>14, Bounds
<1>20. \E V : parse'.slice \in Seq(V) /\ firstRequestBuffer' \in Seq(V) /\ incoming' \in Seq(V)
  <2>1. z \o u \in Seq(U)
    OBVIOUS
  <2> QED
    BY <1>9, <1>10, <1>13, <1>14, <2>1
<1>21. Rises(Pending', c, asked')
  BY <1>14, <1>17, <1>18
<1>22. /\ requests' \in Conversations \cup {<<>>}
       /\ DOMAIN origin' = Numbers /\ Streams1' = 1..c
       /\ DOMAIN parse' = {"at", "slice", "expects", "http10"}
       /\ codec' # "Http1" => parse'.slice = <<>>
       /\ codec' # "none" => ~isFirstRequest'
       /\ parse'.at = "parse" <=> parse'.slice # <<>>
  BY <1>13 DEF ReadInv, Streams1
<1> QED
  BY <1>19, <1>20, <1>21, <1>22 DEF ReadInv

\* A read moves tokens from what has come in to what was collected.
LEMMA TakesParts ==
    ASSUME NEW n, Takes(n), NEW T, firstRequestBuffer \in Seq(T), incoming \in Seq(T)
    PROVE  /\ Collected(n) \in Seq(T) /\ Collected(n) # <<>> /\ incoming' \in Seq(T)
           /\ Collected(n) \o incoming' = firstRequestBuffer \o incoming
<1>1. PICK L \in Nat : L = Len(incoming) /\ DOMAIN incoming = 1..L
  BY LenProperties
<1>2. n \in 1..L
  BY <1>1 DEF Takes
<1>3. PICK a \in Seq(T) : a = SubSeq(incoming, 1, n) /\ Len(a) = n
  <2>1. PICK p \in Int, q \in Int : p = 1 /\ q = n
    BY <1>2
  <2>2. 1 <= p /\ q <= Len(incoming) /\ p <= q + 1
    BY <1>1, <1>2, <2>1
  <2>3. SubSeq(incoming, p, q) \in Seq(T) /\ Len(SubSeq(incoming, p, q)) = q - p + 1
    BY <2>2, Piece
  <2>4. q - p + 1 = n
    BY <1>2, <2>1
  <2>5. SubSeq(incoming, 1, n) \in Seq(T) /\ Len(SubSeq(incoming, 1, n)) = n
    BY <2>1, <2>3, <2>4
  <2> QED
    BY <2>5
<1>4. PICK b \in Seq(T) : b = SubSeq(incoming, n + 1, L) /\ Len(b) = L - n
  <2>1. PICK p \in Int, q \in Int : p = n + 1 /\ q = L
    BY <1>2
  <2>2. 1 <= p /\ q <= Len(incoming) /\ p <= q + 1
    BY <1>1, <1>2, <2>1
  <2>3. SubSeq(incoming, p, q) \in Seq(T) /\ Len(SubSeq(incoming, p, q)) = q - p + 1
    BY <2>2, Piece
  <2>4. q - p + 1 = L - n
    BY <1>2, <2>1
  <2>5. SubSeq(incoming, n + 1, L) \in Seq(T) /\ Len(SubSeq(incoming, n + 1, L)) = L - n
    BY <2>1, <2>3, <2>4
  <2> QED
    BY <2>5
<1>5. a \o b = incoming
  <2>1. PICK u \in Seq(T) : u = a \o b
    <3>1. a \o b \in Seq(T)
      OBVIOUS
    <3> QED
      BY <3>1
  <2>2. Len(u) = L /\ \A k \in 1..L : u[k] = IF k <= n THEN a[k] ELSE b[k - n]
    BY <1>2, <1>3, <1>4, <2>1
  <2>3. ASSUME NEW k \in 1..L PROVE u[k] = incoming[k]
    <3>1. CASE k <= n
      <4>1. k \in 1..n /\ u[k] = a[k]
        BY <1>2, <2>2, <3>1
      <4>2. a[k] = incoming[k]
        BY <1>1, <1>2, <1>3, <4>1
      <4> QED
        BY <4>1, <4>2
    <3>2. CASE ~(k <= n)
      <4>1. k - n \in 1..(L - n) /\ u[k] = b[k - n]
        BY <1>2, <2>2, <3>2
      <4>2. \A j \in 1..(L - n) : b[j] = incoming[n + j]
        BY <1>1, <1>2, <1>4
      <4>3. b[k - n] = incoming[k]
        <5>1. PICK j \in 1..(L - n) : j = k - n /\ n + j = k
          BY <1>2, <4>1
        <5> QED
          BY <4>2, <5>1
      <4> QED
        BY <4>1, <4>3
    <3> QED
      BY <3>1, <3>2
  <2>4. u = [k \in 1..L |-> u[k]] /\ incoming = [k \in 1..L |-> incoming[k]]
    <3>1. u = [k \in 1..Len(u) |-> u[k]]
      OBVIOUS
    <3>2. incoming = [k \in 1..Len(incoming) |-> incoming[k]]
      OBVIOUS
    <3> QED
      BY <1>1, <2>2, <3>1, <3>2
  <2>5. [k \in 1..L |-> u[k]] = [k \in 1..L |-> incoming[k]]
    BY <2>3
  <2> QED
    BY <2>1, <2>4, <2>5
<1>6. incoming' = b
  BY <1>1, <1>4 DEF Takes
<1>7. PICK f \in Seq(T) : f = firstRequestBuffer
  OBVIOUS
<1>8. Collected(n) = f \o a
  BY <1>3, <1>7 DEF Collected
<1>9. f \o a \in Seq(T) /\ (f \o a) \o b = f \o (a \o b) /\ Len(f \o a) >= n
  BY <1>2, <1>3
<1>10. f \o a # <<>>
  BY <1>2, <1>9
<1> QED
  BY <1>5, <1>6, <1>7, <1>8, <1>9, <1>10

LEMMA WaitRead ==
    ASSUME NEW c \in Nat, ReadInv(c), NEW n, ReadAndWait(n)
    PROVE  ReadInv(c)'
<1>1. PICK T : parse.slice \in Seq(T) /\ firstRequestBuffer \in Seq(T) /\ incoming \in Seq(T)
  BY DEF ReadInv
<1>2. Takes(n) /\ firstRequestBuffer' = Collected(n) /\ codec' = codec /\ isFirstRequest' = isFirstRequest
  BY DEF ReadAndWait
<1>3. UNCHANGED <<requests, asked, origin, parse>>
  BY DEF ReadAndWait, Takes, http1Vars, parserVars
<1>4. /\ Collected(n) \in Seq(T) /\ incoming' \in Seq(T)
      /\ Collected(n) \o incoming' = firstRequestBuffer \o incoming
  BY <1>1, <1>2, TakesParts
<1>5. Pending' = Pending
  BY <1>2, <1>3, <1>4 DEF Pending
<1>6. /\ DOMAIN parse' = {"at", "slice", "expects", "http10"}
      /\ codec' # "Http1" => parse'.slice = <<>>
      /\ codec' # "none" => ~isFirstRequest'
      /\ parse'.at = "parse" <=> parse'.slice # <<>>
  BY <1>2, <1>3 DEF ReadInv
<1>7. Rises(Pending', c, asked)
  BY <1>5 DEF ReadInv
<1>8. parse'.slice \in Seq(T) /\ firstRequestBuffer' \in Seq(T) /\ incoming' \in Seq(T)
  BY <1>1, <1>2, <1>3, <1>4
<1> QED
  BY <1>3, <1>6, <1>7, <1>8, StillRead

LEMMA DispatchRead ==
    ASSUME NEW c \in Nat, ReadInv(c), NEW n, ReadAndDispatch(n)
    PROVE  ReadInv(c)' /\ (parse'.at # "failed" => parse.at # "failed")
<1>1. PICK T : parse.slice \in Seq(T) /\ firstRequestBuffer \in Seq(T) /\ incoming \in Seq(T)
  BY DEF ReadInv
<1>2. Takes(n) /\ isFirstRequest' = FALSE /\ firstRequestBuffer' = <<>>
  BY DEF ReadAndDispatch
<1>3. UNCHANGED <<requests, asked, origin>>
  BY DEF ReadAndDispatch, Takes, Dispatch, http1Vars, parserVars
<1>4. PICK x \in Seq(T) : x = Collected(n) /\ x # <<>>
  BY <1>1, <1>2, TakesParts
<1>5. PICK y \in Seq(T) : y = incoming'
  BY <1>1, <1>2, TakesParts
<1>6. x \o y = firstRequestBuffer \o incoming
  BY <1>1, <1>2, <1>4, <1>5, TakesParts
<1>7. <<>> \in Seq(T) /\ <<>> \o y = y /\ <<>> \o (x \o y) = x \o y
  OBVIOUS
<1>8. PICK a \in Int : a = asked /\ c <= a /\ a \in Nat
  BY Bounds
<1>9. CASE codec' = "Http1"
  <2>1. Dispatch(x)
    BY <1>4, <1>9 DEF ReadAndDispatch
  <2>2. parse.at = "rest" /\ parse.slice = <<>>
    BY <2>1 DEF Dispatch, ReadInv
  <2>3. parse'.at = "parse" /\ parse'.slice = x /\ DOMAIN parse' = {"at", "slice", "expects", "http10"}
    BY <2>1 DEF Dispatch, ReadInv
  <2>4. Pending = x \o y
    BY <1>6, <1>7, <2>2 DEF Pending
  <2>5. Pending' = x \o y
    BY <1>2, <1>5, <1>7, <2>3 DEF Pending
  <2>6. Rises(Pending', c, asked)
    BY <2>4, <2>5 DEF ReadInv
  <2>7. parse'.slice \in Seq(T) /\ firstRequestBuffer' \in Seq(T) /\ incoming' \in Seq(T)
    BY <1>2, <1>5, <1>7, <2>3
  <2>8. /\ codec' # "Http1" => parse'.slice = <<>>
        /\ codec' # "none" => ~isFirstRequest'
        /\ parse'.at = "parse" <=> parse'.slice # <<>>
    BY <1>2, <1>4, <1>9, <2>3
  <2>9. ReadInv(c)'
    BY <1>3, <2>3, <2>6, <2>7, <2>8, StillRead
  <2> QED
    BY <2>2, <2>9
<1>10. CASE codec' # "Http1"
  <2>1. UNCHANGED parse
    BY <1>10 DEF ReadAndDispatch, http1Vars, parserVars
  <2>2. codec # "Http1"
    <3>1. CASE isFirstRequest
      BY <3>1 DEF ReadInv
    <3>2. CASE ~isFirstRequest
      BY <1>10, <3>2 DEF ReadAndDispatch
    <3> QED
      BY <3>1, <3>2
  <2>3. parse.slice = <<>>
    BY <2>2 DEF ReadInv
  <2>4. Pending = x \o y
    BY <1>6, <1>7, <2>3 DEF Pending
  <2>5. Pending' = y
    BY <1>2, <1>5, <1>7, <2>1, <2>3 DEF Pending
  <2>6. Rises(x \o y, c, a)
    BY <1>8, <2>4 DEF ReadInv
  <2>7. Rises(y, c, a)
    BY <1>8, <2>6, RisesLeft
  <2>8. Rises(Pending', c, asked)
    BY <1>8, <2>5, <2>7
  <2>9. parse'.slice \in Seq(T) /\ firstRequestBuffer' \in Seq(T) /\ incoming' \in Seq(T)
    BY <1>1, <1>2, <1>5, <1>7, <2>1
  <2>10. /\ DOMAIN parse' = {"at", "slice", "expects", "http10"}
         /\ codec' # "Http1" => parse'.slice = <<>>
         /\ codec' # "none" => ~isFirstRequest'
         /\ parse'.at = "parse" <=> parse'.slice # <<>>
    BY <1>2, <2>1, <2>3 DEF ReadInv
  <2>11. ReadInv(c)'
    BY <1>3, <2>8, <2>9, <2>10, StillRead
  <2> QED
    BY <2>1, <2>11
<1> QED
  BY <1>9, <1>10

-----------------------------------------------------------------------------
(* The callbacks of the parser *)

\* A request that goes on, with another url or its end received.
Renewed(q, r) ==
    r # NoRequest =>
        /\ q # NoRequest /\ DOMAIN r = DOMAIN q
        /\ r.n = q.n /\ r.started = q.started /\ r.chunked = q.chunked

LEMMA RenewedSame == ASSUME NEW q PROVE Renewed(q, q)
BY DEF Renewed

LEMMA RenewedUrl ==
    ASSUME NEW q, q # NoRequest, NEW u, "url" \in DOMAIN q
    PROVE  Renewed(q, [q EXCEPT !.url = u])
<1>1. PICK r : r = [q EXCEPT !.url = u]
  OBVIOUS
<1>2. DOMAIN r = DOMAIN q /\ r.n = q.n /\ r.started = q.started /\ r.chunked = q.chunked
  <2>1. DOMAIN r = DOMAIN q
    BY <1>1
  <2>2. \A k \in DOMAIN q : k # "url" => r[k] = q[k]
    BY <1>1
  <2> QED
    BY <1>1
<1> QED
  BY <1>1, <1>2 DEF Renewed

LEMMA RenewedEnd ==
    ASSUME NEW q, q # NoRequest, NEW u, "url" \in DOMAIN q
    PROVE  Renewed(q, [q EXCEPT !.remoteComplete = u])
<1>1. PICK r : r = [q EXCEPT !.remoteComplete = u]
  OBVIOUS
<1>2. DOMAIN r = DOMAIN q /\ r.n = q.n /\ r.started = q.started /\ r.chunked = q.chunked
  BY <1>1
<1> QED
  BY <1>1, <1>2 DEF Renewed

LEMMA GoesOnDoes ==
    ASSUME NEW e, NEW paused \in BOOLEAN, NEW h, GoesOn(e, paused, h)
    PROVE  /\ DOMAIN parse' = {"at", "slice", "expects", "http10"}
           /\ parse'.at # "failed" /\ (parse'.at = "parse" <=> parse'.slice # <<>>)
           /\ parse'.slice = IF paused THEN <<>> ELSE Tail(parse.slice)
BY DEF GoesOn

\* What every callback but onMessageBegin() does, as far as streams and answers go.
Passes ==
    /\ DOMAIN parse' = {"at", "slice", "expects", "http10"}
    /\ parse'.at # "failed" /\ (parse'.at = "parse" <=> parse'.slice # <<>>)
    /\ parse'.slice = <<>> \/ parse'.slice = Tail(parse.slice)
    /\ origin' = origin /\ Renewed(request, request')

LEMMA GoesOnPasses ==
    ASSUME NEW e, NEW paused \in BOOLEAN, NEW h, GoesOn(e, paused, h), origin' = origin,
           Renewed(request, request')
    PROVE  Passes
BY GoesOnDoes DEF Passes

LEMMA CallbackDoes ==
    ASSUME Callback, request # NoRequest => "url" \in DOMAIN request
    PROVE  /\ parse.at = "parse" /\ UNCHANGED <<reserved, wire1, given>>
           /\ \/ Head(parse.slice).kind = "begin" /\ OnMessageBegin(Head(parse.slice).of)
              \/ Passes
<1>1. PICK token : token = Head(parse.slice)
  OBVIOUS
<1>2. parse.at = "parse" /\ UNCHANGED <<reserved, wire1, given>>
  BY DEF Callback, encoderVars
<1>3. \/ token.kind = "begin" /\ OnMessageBegin(token.of)
      \/ OnUrl(token.arg)
      \/ OnHeader(OnHeaderField(fields, token.arg))
      \/ OnHeader(OnHeaderValue(fields, token.arg))
      \/ OnHeadersComplete(token.arg)
      \/ OnBody(token.arg)
      \/ OnMessageComplete
  BY <1>1 DEF Callback
<1>4. ASSUME OnUrl(token.arg) PROVE Passes
  <2>1. GoesOn("head", FALSE, parse.http10) /\ origin' = origin
    BY <1>4 DEF OnUrl
  <2>2. Renewed(request, request')
    <3>1. CASE request = NoRequest
      BY <1>4, <3>1, RenewedSame DEF OnUrl
    <3>2. CASE request # NoRequest
      <4>1. request' = [request EXCEPT !.url = AppendTo(@, token.arg)]
        BY <1>4, <3>2 DEF OnUrl
      <4>2. PICK u : u = AppendTo(request.url, token.arg)
        OBVIOUS
      <4>3. request' = [request EXCEPT !.url = u]
        BY <4>1, <4>2
      <4>4. Renewed(request, [request EXCEPT !.url = u])
        BY <3>2, RenewedUrl
      <4> QED
        BY <4>3, <4>4
    <3> QED
      BY <3>1, <3>2
  <2> QED
    BY <2>1, <2>2, GoesOnPasses
<1>5. ASSUME NEW f, OnHeader(f) PROVE Passes
  <2>1. PICK e : e = parse.expects
    OBVIOUS
  <2>2. GoesOn(e, FALSE, parse.http10) /\ origin' = origin /\ request' = request
    BY <1>5, <2>1 DEF OnHeader
  <2>3. Renewed(request, request')
    BY <2>2, RenewedSame
  <2> QED
    BY <2>2, <2>3, GoesOnPasses
<1>6. ASSUME OnHeadersComplete(token.arg) PROVE Passes
  <2>1. \E h : GoesOn("body", FALSE, h) /\ origin' = origin /\ (request = NoRequest => request' = request)
    BY <1>6 DEF OnHeadersComplete
  <2>2. PICK h : GoesOn("body", FALSE, h) /\ origin' = origin /\ (request = NoRequest => request' = request)
    BY <2>1
  <2>3. Renewed(request, request')
    <3>1. CASE request = NoRequest
      BY <2>2, <3>1, RenewedSame
    <3>2. CASE request # NoRequest
      <4>1. PICK f : f = CompleteLastHeader(fields)
        OBVIOUS
      <4>2. PICK u : u = IF Absolute(request.url.text, token.arg.method) THEN Cleared(request.url)
                         ELSE HandlePath(f.map, request.url, token.arg.method).value
        OBVIOUS
      <4>3. request' = [request EXCEPT !.url = u]
        BY <1>6, <3>2, <4>1, <4>2 DEF OnHeadersComplete
      <4>4. Renewed(request, [request EXCEPT !.url = u])
        BY <3>2, RenewedUrl
      <4> QED
        BY <4>3, <4>4
    <3> QED
      BY <3>1, <3>2
  <2> QED
    BY <2>2, <2>3, GoesOnPasses
<1>7. ASSUME OnBody(token.arg) PROVE Passes
  <2>1. GoesOn("body", FALSE, parse.http10) /\ origin' = origin /\ request' = request
    BY <1>7 DEF OnBody
  <2>2. Renewed(request, request')
    BY <2>1, RenewedSame
  <2> QED
    BY <2>1, <2>2, GoesOnPasses
<1>8. ASSUME OnMessageComplete PROVE Passes
  <2>1. GoesOn("begin", TRUE, parse.http10) /\ origin' = origin
    BY <1>8 DEF OnMessageComplete
  <2>2. Renewed(request, request')
    <3>1. CASE request = NoRequest
      BY <1>8, <3>1, RenewedSame DEF OnMessageComplete
    <3>2. CASE request # NoRequest
      <4>1. request' = [request EXCEPT !.remoteComplete = TRUE]
        BY <1>8, <3>2 DEF OnMessageComplete
      <4>2. Renewed(request, [request EXCEPT !.remoteComplete = TRUE])
        BY <3>2, RenewedEnd
      <4> QED
        BY <4>1, <4>2
    <3> QED
      BY <3>1, <3>2
  <2> QED
    BY <2>1, <2>2, GoesOnPasses
<1>9. (token.kind = "begin" /\ OnMessageBegin(token.of)) \/ Passes
  BY <1>3, <1>4, <1>5, <1>6, <1>7, <1>8
<1> QED
  BY <1>1, <1>2, <1>9

\* The first token of a slice, and the others.
LEMMA FirstAndRest ==
    ASSUME NEW T, NEW x \in Seq(T), x # <<>>
    PROVE  /\ Head(x) \in T /\ Tail(x) \in Seq(T) /\ <<Head(x)>> \in Seq(T)
           /\ x = <<Head(x)>> \o Tail(x)
           /\ Len(<<Head(x)>>) = 1 /\ <<Head(x)>>[1] = Head(x)
<1>1. PICK L \in Nat : L = Len(x) /\ L # 0
  BY EmptySeq, LenProperties
<1>2. PICK h \in T : h = Head(x) /\ h = x[1]
  BY <1>1
<1>3. PICK t \in Seq(T) : t = Tail(x) /\ Len(t) = L - 1 /\ \A i \in 1..(L - 1) : t[i] = x[i + 1]
  <2>1. Tail(x) \in Seq(T) /\ Len(Tail(x)) = L - 1 /\ \A i \in 1..(L - 1) : Tail(x)[i] = x[i + 1]
    BY <1>1
  <2> QED
    BY <2>1
<1>4. <<h>> \in Seq(T) /\ Len(<<h>>) = 1 /\ <<h>>[1] = h
  OBVIOUS
<1>5. <<h>> \o t = x
  <2>1. PICK u \in Seq(T) : u = <<h>> \o t
    <3>1. <<h>> \o t \in Seq(T)
      BY <1>4
    <3> QED
      BY <3>1
  <2>2. Len(u) = L /\ \A i \in 1..L : u[i] = IF i <= 1 THEN h ELSE t[i - 1]
    BY <1>1, <1>3, <2>1
  <2>3. ASSUME NEW i \in 1..L PROVE u[i] = x[i]
    <3>1. CASE i = 1
      BY <1>2, <2>2, <3>1
    <3>2. CASE i # 1
      <4>1. PICK j \in 1..(L - 1) : j = i - 1 /\ j + 1 = i
        BY <3>2
      <4> QED
        BY <1>3, <2>2, <3>2, <4>1
    <3> QED
      BY <3>1, <3>2
  <2>4. u = [i \in 1..L |-> u[i]] /\ x = [i \in 1..L |-> x[i]]
    <3>1. u = [i \in 1..Len(u) |-> u[i]]
      OBVIOUS
    <3>2. x = [i \in 1..Len(x) |-> x[i]]
      OBVIOUS
    <3> QED
      BY <1>1, <2>2, <3>1, <3>2
  <2>5. [i \in 1..L |-> u[i]] = [i \in 1..L |-> x[i]]
    BY <2>3
  <2> QED
    BY <2>1, <2>4, <2>5
<1> QED
  BY <1>2, <1>3, <1>4, <1>5

\* The codec takes the first token of its slice, or drops all of it.
LEMMA SliceDropped ==
    ASSUME NEW c \in Nat, ReadInv(c), parse.slice # <<>>, UNCHANGED <<sessionVars, origin>>,
           DOMAIN parse' = {"at", "slice", "expects", "http10"},
           parse'.at = "parse" <=> parse'.slice # <<>>,
           parse'.slice = <<>> \/ parse'.slice = Tail(parse.slice)
    PROVE  ReadInv(c)'
<1>1. PICK T : parse.slice \in Seq(T) /\ firstRequestBuffer \in Seq(T) /\ incoming \in Seq(T)
  BY DEF ReadInv
<1>2. PICK x \in Seq(T) : x = parse.slice /\ x # <<>>
  BY <1>1
<1>3. PICK h \in Seq(T) : h = <<Head(x)>>
  BY <1>2, FirstAndRest
<1>4. PICK t \in Seq(T) : t = Tail(x)
  BY <1>2, FirstAndRest
<1>5. x = h \o t
  BY <1>2, <1>3, <1>4, FirstAndRest
<1>6. PICK y \in Seq(T) : y = firstRequestBuffer \o incoming
  <2>1. firstRequestBuffer \o incoming \in Seq(T)
    BY <1>1
  <2> QED
    BY <2>1
<1>7. UNCHANGED <<requests, asked, codec, isFirstRequest, firstRequestBuffer, incoming, origin>>
  BY DEF sessionVars
<1>8. PICK a \in Nat : a = asked
  BY Bounds
<1>9. Pending = x \o y
  BY <1>2, <1>6 DEF Pending
<1>10. Rises(x \o y, c, a)
  BY <1>8, <1>9 DEF ReadInv
<1>11. codec = "Http1" /\ (codec # "none" => ~isFirstRequest)
  BY DEF ReadInv
<1>12. Rises(Pending', c, asked) /\ parse'.slice \in Seq(T)
  <2>1. CASE parse'.slice = <<>>
    <3>1. Pending' = y
      <4>1. <<>> \o y = y
        OBVIOUS
      <4> QED
        BY <1>6, <1>7, <2>1, <4>1 DEF Pending
    <3>2. Rises(y, c, a)
      BY <1>8, <1>10, RisesLeft
    <3>3. <<>> \in Seq(T)
      OBVIOUS
    <3> QED
      BY <1>8, <2>1, <3>1, <3>2, <3>3
  <2>2. CASE parse'.slice = Tail(parse.slice)
    <3>1. PICK u \in Seq(T) : u = t \o y
      <4>1. t \o y \in Seq(T)
        OBVIOUS
      <4> QED
        BY <4>1
    <3>2. Pending' = u
      BY <1>2, <1>4, <1>6, <1>7, <2>2, <3>1 DEF Pending
    <3>3. (h \o t) \o y = h \o (t \o y)
      <4>1. Cat(Cat(h, t), y) = Cat(h, Cat(t, y))
        BY CatAssociates
      <4> QED
        BY <4>1 DEF Cat
    <3>4. Rises(h \o u, c, a)
      BY <1>5, <1>10, <3>1, <3>3
    <3>5. Rises(u, c, a)
      BY <1>8, <3>4, RisesLeft
    <3> QED
      BY <1>2, <1>4, <1>8, <2>2, <3>2, <3>5
  <2> QED
    BY <2>1, <2>2
<1>13. firstRequestBuffer' \in Seq(T) /\ incoming' \in Seq(T)
  BY <1>1, <1>7
<1>14. (codec' # "Http1" => parse'.slice = <<>>) /\ (codec' # "none" => ~isFirstRequest')
  BY <1>7, <1>11
<1> QED
  BY <1>7, <1>12, <1>13, <1>14, StillRead

LEMMA SliceKept ==
    ASSUME NEW c \in Nat, ReadInv(c), UNCHANGED <<sessionVars, origin, parse>>
    PROVE  ReadInv(c)'
<1>1. PICK T : parse.slice \in Seq(T) /\ firstRequestBuffer \in Seq(T) /\ incoming \in Seq(T)
  BY DEF ReadInv
<1>2. UNCHANGED <<requests, asked, codec, isFirstRequest, firstRequestBuffer, incoming, origin, parse>>
  BY DEF sessionVars
<1>3. Pending' = Pending
  BY <1>2 DEF Pending
<1>4. Rises(Pending', c, asked)
  BY <1>3 DEF ReadInv
<1>5. /\ DOMAIN parse' = {"at", "slice", "expects", "http10"}
      /\ codec' # "Http1" => parse'.slice = <<>>
      /\ codec' # "none" => ~isFirstRequest'
      /\ parse'.at = "parse" <=> parse'.slice # <<>>
  BY <1>2 DEF ReadInv
<1>6. parse'.slice \in Seq(T) /\ firstRequestBuffer' \in Seq(T) /\ incoming' \in Seq(T)
  BY <1>1, <1>2
<1> QED
  BY <1>2, <1>4, <1>5, <1>6, StillRead

\* The token that begins a request opens the next stream, for which there is a number.
LEMMA BeginRead ==
    ASSUME NEW c \in Nat, ReadInv(c), parse.slice # <<>>, Head(parse.slice).kind = "begin",
           UNCHANGED sessionVars, OnMessageBegin(Head(parse.slice).of)
    PROVE  /\ IF resetCalled THEN ReadInv(c)' /\ UNCHANGED request
              ELSE c + 1 \in Numbers /\ ReadInv(c + 1)' /\ request' = [NoRequest EXCEPT !.n = c + 1]
           /\ parse'.at # "failed"
<1>1. PICK T : parse.slice \in Seq(T) /\ firstRequestBuffer \in Seq(T) /\ incoming \in Seq(T)
  BY DEF ReadInv
<1>2. PICK x \in Seq(T) : x = parse.slice /\ x # <<>>
  BY <1>1
<1>3. PICK h \in Seq(T) : h = <<Head(x)>> /\ Len(h) = 1 /\ h[1] = Head(x)
  BY <1>2, FirstAndRest
<1>4. PICK t \in Seq(T) : t = Tail(x)
  BY <1>2, FirstAndRest
<1>5. x = h \o t
  BY <1>2, <1>3, <1>4, FirstAndRest
<1>6. PICK y \in Seq(T) : y = firstRequestBuffer \o incoming
  <2>1. firstRequestBuffer \o incoming \in Seq(T)
    BY <1>1
  <2> QED
    BY <2>1
<1>7. UNCHANGED <<requests, asked, codec, isFirstRequest, firstRequestBuffer, incoming>>
  BY DEF sessionVars
<1>8. PICK a \in Nat : a = asked /\ c <= a /\ a <= MaxRequests
  BY Bounds
<1>9. PICK u \in Seq(T) : u = t \o y
  <2>1. t \o y \in Seq(T)
    OBVIOUS
  <2> QED
    BY <2>1
<1>10. Rises(h \o u, c, a)
  <2>1. Pending = x \o y
    BY <1>2, <1>6 DEF Pending
  <2>2. (h \o t) \o y = h \o (t \o y)
    <3>1. Cat(Cat(h, t), y) = Cat(h, Cat(t, y))
      BY CatAssociates
    <3> QED
      BY <3>1 DEF Cat
  <2> QED
    BY <1>5, <1>8, <1>9, <2>1, <2>2 DEF ReadInv
<1>11. PICK i : i = Head(parse.slice).of /\ i = h[1].of
  BY <1>2, <1>3
<1>12. i \in (c + 1)..a /\ Rises(u, i, a)
  <2>1. 1 \in 1..Len(h) /\ h[1].kind = "begin"
    BY <1>2, <1>3
  <2>2. h[1].of \in (c + 1)..a /\ Rises(u, h[1].of, a)
    BY <1>8, <1>10, <2>1, RisesLeft
  <2> QED
    BY <1>11, <2>2
<1>13. MaxRequests \in Nat
  BY SessionAssumption
<1>14. PICK n \in Nat : n = c + 1 /\ n <= i /\ n <= a /\ n <= MaxRequests /\ n > 0
  <2>1. i \in (c + 1)..a
    BY <1>12
  <2>2. i \in Int /\ c + 1 <= i /\ i <= a
    BY <2>1
  <2>3. c + 1 <= a
    BY <2>2
  <2>4. c + 1 <= MaxRequests /\ c + 1 \in Nat /\ c + 1 > 0
    BY <1>8, <1>13, <2>3
  <2> QED
    BY <2>2, <2>3, <2>4
<1>15. n \in Numbers
  BY <1>14, <1>13 DEF Numbers
<1>16. Rises(u, n, a)
  <2>1. \A k \in 1..Len(u) : u[k].kind = "begin" => u[k].of \in (n + 1)..a
    <3>1. \A k \in 1..Len(u) : u[k].kind = "begin" => u[k].of \in (i + 1)..a
      BY <1>12 DEF Rises
    <3> QED
      BY <1>12, <1>14, <3>1
  <2> QED
    BY <1>12, <2>1 DEF Rises
<1>17. Cardinality(Streams1) + 1 = n
  <2>1. Cardinality(1..c) = c
    <3>1. 1 \in Int /\ c \in Int
      OBVIOUS
    <3>2. Cardinality(1..c) = IF 1 > c THEN 0 ELSE c - 1 + 1
      BY <3>1, FS_Interval
    <3> QED
      BY <3>2
  <2>2. Streams1 = 1..c
    BY DEF ReadInv
  <2> QED
    BY <1>14, <2>1, <2>2
<1>18. GoesOn("head", FALSE, parse.http10)
  BY DEF OnMessageBegin
<1>19. /\ DOMAIN parse' = {"at", "slice", "expects", "http10"}
       /\ parse'.at # "failed" /\ (parse'.at = "parse" <=> parse'.slice # <<>>)
       /\ parse'.slice = t
  BY <1>2, <1>4, <1>18, GoesOnDoes
<1>20. CASE resetCalled
  <2>1. UNCHANGED <<request, origin>>
    BY <1>20 DEF OnMessageBegin
  <2>2. parse'.slice = Tail(parse.slice)
    BY <1>2, <1>4, <1>19
  <2>3. ReadInv(c)'
    BY <1>19, <2>1, <2>2, SliceDropped
  <2> QED
    BY <1>19, <1>20, <2>1, <2>3
<1>21. CASE ~resetCalled
  <2>1. request' = [NoRequest EXCEPT !.n = n] /\ origin' = [origin EXCEPT ![n] = i]
    BY <1>11, <1>17, <1>21 DEF OnMessageBegin
  <2>2. DOMAIN origin' = Numbers /\ origin'[n] = i /\ \A m \in Numbers : m # n => origin'[m] = origin[m]
    BY <1>15, <2>1 DEF ReadInv
  <2>3. Streams1' = 1..n
    <3>1. ASSUME NEW m PROVE m \in Streams1' <=> m \in 1..n
      <4>1. m \in Streams1' <=> (m \in Numbers /\ origin'[m] # 0)
        BY DEF Streams1
      <4>2. m \in Numbers /\ m # n => (origin[m] # 0 <=> m \in 1..c)
        BY DEF ReadInv, Streams1
      <4>3. CASE m = n
        <5>1. i # 0
          BY <1>12
        <5>2. n \in 1..n
          BY <1>14
        <5> QED
          BY <1>15, <2>2, <4>1, <4>3, <5>1, <5>2
      <4>4. CASE m # n
        <5>1. m \in 1..c <=> m \in 1..n
          BY <1>14, <4>4
        <5>2. m \in 1..c => m \in Numbers
          BY <1>14, <1>13 DEF Numbers
        <5> QED
          BY <2>2, <4>1, <4>2, <4>4, <5>1, <5>2
      <4> QED
        BY <4>3, <4>4
    <3> QED
      BY <3>1
  <2>4. requests' \in Conversations \cup {<<>>} /\ asked' \in 0..Len(requests')
    BY <1>7 DEF ReadInv
  <2>5. n \in 0..asked'
    BY <1>7, <1>8, <1>14
  <2>6. \E U : parse'.slice \in Seq(U) /\ firstRequestBuffer' \in Seq(U) /\ incoming' \in Seq(U)
    BY <1>1, <1>7, <1>19
  <2>7. Rises(Pending', n, asked')
    <3>1. Pending' = u
      BY <1>6, <1>7, <1>9, <1>19 DEF Pending
    <3> QED
      BY <1>7, <1>8, <1>16, <3>1
  <2>8. /\ codec' # "Http1" => parse'.slice = <<>>
        /\ codec' # "none" => ~isFirstRequest'
    <3>1. codec = "Http1" /\ (codec # "none" => ~isFirstRequest)
      BY DEF ReadInv
    <3> QED
      BY <1>7, <3>1
  <2>9. ReadInv(n)'
    BY <1>19, <2>2, <2>3, <2>4, <2>5, <2>6, <2>7, <2>8 DEF ReadInv
  <2>10. ReadInv(c + 1)' /\ request' = [NoRequest EXCEPT !.n = c + 1] /\ c + 1 \in Numbers
    BY <1>14, <1>15, <2>1, <2>9
  <2> QED
    BY <1>19, <1>21, <2>10
<1> QED
  BY <1>20, <1>21

-----------------------------------------------------------------------------
(* What the steps of the codec do to the responses *)

LEMMA RenewedServes ==
    ASSUME NEW q, NEW r, NEW g, NEW w, NEW c, Renewed(q, r), r # NoRequest,
           q # NoRequest => Serves(q, g, w, c)
    PROVE  Serves(r, g, w, c)
<1>1. q # NoRequest /\ DOMAIN r = DOMAIN q /\ r.n = q.n /\ r.started = q.started /\ r.chunked = q.chunked
  BY DEF Renewed
<1>2. Serves(q, g, w, c)
  BY <1>1
<1> QED
  BY <1>1, <1>2 DEF Serves

LEMMA PassesWire ==
    ASSUME NEW c \in Nat, WireInv(c), UNCHANGED <<reserved, wire1, given>>, Renewed(request, request'),
           parse'.at # "failed" => parse.at # "failed"
    PROVE  WireInv(c)'
<1>1. GivenInv(c)' /\ WrittenInv'
  BY DEF WireInv, GivenInv, WrittenInv
<1>2. ItemsInv(c)'
  BY DEF WireInv, ItemsInv
<1>3. EncoderInv(c)'
  <2>1. IsBuffer(reserved')
    BY DEF WireInv, EncoderInv
  <2>2. PICK g, w : g = given[c] /\ w = wire1
    OBVIOUS
  <2>3. request # NoRequest => Serves(request, g, w, c)
    BY <2>2 DEF WireInv, EncoderInv
  <2>4. request' # NoRequest => Serves(request', g, w, c)
    BY <2>3, RenewedServes
  <2>5. g = given'[c] /\ w = wire1'
    BY <2>2
  <2> QED
    BY <2>1, <2>4, <2>5 DEF EncoderInv
<1> QED
  BY <1>1, <1>2, <1>3 DEF WireInv

LEMMA BeginWire ==
    ASSUME NEW c \in Nat, WireInv(c), UNCHANGED <<reserved, wire1, given>>, c + 1 \in Numbers,
           request' = [NoRequest EXCEPT !.n = c + 1], parse.at # "failed"
    PROVE  WireInv(c + 1)'
<1>1. PICK n \in Nat : n = c + 1 /\ n > c
  OBVIOUS
<1>2. GivenInv(n)' /\ WrittenInv'
  <2>1. \A m \in Numbers : m > n => m > c
    BY <1>1 DEF Numbers
  <2> QED
    BY <2>1 DEF WireInv, GivenInv, WrittenInv
<1>3. \A k \in 1..Len(wire1) : wire1[k].n \in 0..c /\ wire1[k].n # 0
  BY DEF WireInv, ItemsInv
<1>4. ItemsInv(n)'
  <2>1. \A k \in 1..Len(wire1) : wire1[k].n \in 0..n
    BY <1>1, <1>3
  <2>2. Contiguous(wire1)
    BY DEF WireInv, ItemsInv
  <2> QED
    BY <1>3, <2>1, <2>2 DEF ItemsInv
<1>5. EncoderInv(n)'
  <2>1. IsBuffer(reserved')
    BY DEF WireInv, EncoderInv
  <2>2. /\ DOMAIN request' = {"n", "url", "remoteComplete", "started", "chunked"}
        /\ request'.n = n /\ request'.started = FALSE
    BY <1>1 DEF NoRequest
  <2>3. given'[n].headers = "none" /\ ~given'[n].interim
    BY <1>1 DEF WireInv, GivenInv, Untouched
  <2>4. \A k \in 1..Len(wire1') : wire1'[k].n # n
    BY <1>1, <1>3
  <2>5. EndsWith(wire1', n)
    BY <2>4 DEF EndsWith
  <2>6. Serves(request', given'[n], wire1', n)
    BY <1>1, <2>2, <2>3, <2>4, <2>5 DEF Serves
  <2> QED
    BY <2>1, <2>6 DEF EncoderInv
<1>6. WireInv(n)'
  BY <1>2, <1>4, <1>5 DEF WireInv
<1> QED
  BY <1>1, <1>6

\* An error is answered once, if no response has begun.
LEMMA ErrorWire ==
    ASSUME NEW c \in Nat, ReadInv(c), WireInv(c), ProtocolError
    PROVE  WireInv(c)' /\ UNCHANGED origin
           /\ DOMAIN parse' = {"at", "slice", "expects", "http10"}
           /\ parse'.at = "failed" /\ parse'.slice = <<>>
<1>1. UNCHANGED <<request, reserved, given, origin>> /\ parse.at = "parse"
  BY DEF ProtocolError
<1>2. parse' = [parse EXCEPT !.at = "failed", !.slice = <<>>]
  BY DEF ProtocolError
<1>3. DOMAIN parse' = {"at", "slice", "expects", "http10"} /\ parse'.at = "failed" /\ parse'.slice = <<>>
  BY <1>2 DEF ReadInv
<1>4. CASE wire1' = wire1
  BY <1>1, <1>3, <1>4, WireKept
<1>5. CASE wire1' # wire1
  <2>1. wire1' = Append(wire1, Item(0, "error")) /\ (request = NoRequest \/ ~request.started)
    BY <1>5 DEF ProtocolError
  <2>2. PICK w \in Seq(OnWire(Whats)) : w = wire1
    BY DEF WireInv, WrittenInv
  <2>3. PICK e \in Seq(Whats) : e = <<"error">>
    <3>1. PICK x \in Whats : x = "error"
      BY DEF Whats
    <3>2. <<x>> \in Seq(Whats)
      OBVIOUS
    <3> QED
      BY <3>1, <3>2
  <2>4. wire1' = w \o Items(0, e)
    <3>1. Items(0, e) = <<Item(0, "error")>>
      <4>1. DOMAIN e = 1..1 /\ e[1] = "error"
        BY <2>3
      <4>2. Items(0, e) = [i \in 1..1 |-> Item(0, "error")]
        <5>1. \A i \in 1..1 : e[i] = "error"
          BY <4>1
        <5> QED
          BY <4>1, <5>1 DEF Items
      <4>3. PICK x : x = Item(0, "error")
        OBVIOUS
      <4>4. [i \in 1..1 |-> x] = <<x>>
        OBVIOUS
      <4> QED
        BY <4>2, <4>3, <4>4
    <3>2. PICK x \in OnWire(Whats) : x = Item(0, "error")
      <4>1. "error" \in Whats
        BY DEF Whats
      <4> QED
        BY <4>1 DEF OnWire, Item
    <3>3. Append(w, x) = w \o <<x>>
      OBVIOUS
    <3> QED
      BY <2>1, <2>2, <3>1, <3>2, <3>3
  <2>5. \A k \in 1..Len(w) : w[k].n \in 0..c /\ w[k].n # 0
    BY <1>1, <2>2 DEF WireInv, ItemsInv
  <2>6. Contiguous(w)
    BY <2>2 DEF WireInv, ItemsInv
  <2>7. EndsWith(w, 0)
    BY <2>5 DEF EndsWith
  <2>8. PICK z \in Nat : z = 0
    OBVIOUS
  <2>9. LET v == w \o Items(z, e)
        IN  /\ v \in Seq(OnWire(Whats)) /\ Contiguous(v) /\ EndsWith(v, z)
            /\ \A k \in 1..Len(v) : v[k].n = z \/ \E j \in 1..Len(w) : v[k].n = w[j].n
    <3>1. EndsWith(w, z)
      BY <2>7, <2>8
    <3> QED
      BY <2>6, <3>1, ItemsAdded
  <2>10. PICK v : v = wire1' /\ v = w \o Items(z, e)
    BY <2>4, <2>8
  <2>11. /\ v \in Seq(OnWire(Whats)) /\ Contiguous(v)
         /\ \A k \in 1..Len(v) : v[k].n = z \/ \E j \in 1..Len(w) : v[k].n = w[j].n
    BY <2>9, <2>10
  <2>12. GivenInv(c)'
    BY <1>1 DEF WireInv, GivenInv
  <2>13. ASSUME NEW n \in Numbers PROVE Written(v, n) = ResponseItems(given[n])
    <3>1. n # z
      BY <2>8 DEF Numbers
    <3>2. Written(w \o Items(z, e), n) = IF z = n THEN Written(w, n) \o e ELSE Written(w, n)
      BY WrittenMore
    <3>3. Written(w, n) = ResponseItems(given[n])
      BY <2>2 DEF WireInv, WrittenInv
    <3> QED
      BY <2>10, <3>1, <3>2, <3>3
  <2>14. WrittenInv'
    BY <1>1, <2>10, <2>11, <2>13 DEF WrittenInv
  <2>15. ASSUME NEW k \in 1..Len(v) PROVE v[k].n \in 0..c
    <3>1. CASE v[k].n = z
      BY <2>8, <3>1
    <3>2. CASE \E j \in 1..Len(w) : v[k].n = w[j].n
      BY <2>5, <3>2
    <3> QED
      BY <2>11, <3>1, <3>2
  <2>16. ItemsInv(c)'
    BY <1>3, <2>10, <2>11, <2>15 DEF ItemsInv
  <2>17. ASSUME request # NoRequest PROVE Serves(request, given[c], v, c)
    <3>1. Serves(request, given[c], w, c) /\ ~request.started
      BY <2>1, <2>2, <2>17 DEF WireInv, EncoderInv
    <3>2. c # 0
      BY <3>1 DEF Serves, Numbers
    <3>3. \A k \in 1..Len(w) : w[k].n # c
      BY <3>1 DEF Serves
    <3>4. \A k \in 1..Len(v) : v[k].n # c
      BY <2>8, <2>11, <3>2, <3>3
    <3>5. EndsWith(v, c)
      BY <3>4 DEF EndsWith
    <3> QED
      BY <3>1, <3>4, <3>5 DEF Serves
  <2>18. EncoderInv(c)'
    <3>1. IsBuffer(reserved')
      BY <1>1 DEF WireInv, EncoderInv
    <3>2. request' # NoRequest => Serves(request', given'[c], wire1', c)
      BY <1>1, <2>10, <2>17
    <3> QED
      BY <3>1, <3>2 DEF EncoderInv
  <2>19. WireInv(c)'
    BY <2>12, <2>14, <2>16, <2>18 DEF WireInv
  <2> QED
    BY <1>1, <1>3, <2>19
<1> QED
  BY <1>1, <1>3, <1>4, <1>5

\* What is written for the active request is what its response is worth more.
LEMMA Encoded ==
    ASSUME NEW c \in Nat, WireInv(c), request # NoRequest, UNCHANGED parse,
           NEW h, IsGiven(h), h.interim \/ h.headers # "none",
           DOMAIN given' = Numbers, given'[c] = h, \A n \in Numbers : n # c => given'[n] = given[n],
           NEW whats \in Seq(Whats), wire1' = wire1 \o Items(c, whats),
           ResponseItems(h) = ResponseItems(given[c]) \o whats,
           IsBuffer(reserved'),
           request' # NoRequest =>
              /\ DOMAIN request' = {"n", "url", "remoteComplete", "started", "chunked"}
              /\ request'.n = c /\ request'.started
              /\ h.headers # "none" => (request'.chunked <=> IsChunked(h))
    PROVE  WireInv(c)'
<1>1. PICK w \in Seq(OnWire(Whats)) : w = wire1
  BY DEF WireInv, WrittenInv
<1>2. PICK v : v = wire1' /\ v = w \o Items(c, whats)
  BY <1>1
<1>3. Serves(request, given[c], w, c)
  BY <1>1 DEF WireInv, EncoderInv
<1>4. c \in Numbers /\ c # 0 /\ EndsWith(w, c)
  BY <1>3 DEF Serves, Numbers
<1>5. Contiguous(w)
  BY <1>1 DEF WireInv, ItemsInv
<1>6. /\ v \in Seq(OnWire(Whats)) /\ Contiguous(v) /\ EndsWith(v, c)
      /\ \A k \in 1..Len(v) : v[k].n = c \/ \E j \in 1..Len(w) : v[k].n = w[j].n
  <2>1. LET u == w \o Items(c, whats)
        IN  /\ u \in Seq(OnWire(Whats)) /\ Contiguous(u) /\ EndsWith(u, c)
            /\ \A k \in 1..Len(u) : u[k].n = c \/ \E j \in 1..Len(w) : u[k].n = w[j].n
    BY <1>4, <1>5, ItemsAdded
  <2> QED
    BY <1>2, <2>1
<1>7. GivenInv(c)'
  <2>1. ASSUME NEW n \in Numbers PROVE IsGiven(given'[n]) /\ (n > c => Untouched(given'[n]))
    <3>1. CASE n = c
      <4>1. ~(n > c)
        BY <3>1
      <4> QED
        BY <3>1, <4>1
    <3>2. CASE n # c
      BY <3>2 DEF WireInv, GivenInv
    <3> QED
      BY <3>1, <3>2
  <2> QED
    BY <2>1 DEF GivenInv
<1>8. ASSUME NEW n \in Numbers PROVE Written(v, n) = ResponseItems(given'[n])
  <2>1. Written(w \o Items(c, whats), n) = IF c = n THEN Written(w, n) \o whats ELSE Written(w, n)
    BY WrittenMore
  <2>2. Written(w, n) = ResponseItems(given[n])
    BY <1>1 DEF WireInv, WrittenInv
  <2>3. CASE n = c
    BY <1>2, <2>1, <2>2, <2>3
  <2>4. CASE n # c
    BY <1>2, <2>1, <2>2, <2>4
  <2> QED
    BY <2>3, <2>4
<1>9. WrittenInv'
  BY <1>2, <1>6, <1>8 DEF WrittenInv
<1>10. ItemsInv(c)'
  <2>1. /\ \A k \in 1..Len(w) : w[k].n \in 0..c
        /\ parse.at # "failed" => \A k \in 1..Len(w) : w[k].n # 0
    BY <1>1 DEF WireInv, ItemsInv
  <2>2. ASSUME NEW k \in 1..Len(v) PROVE v[k].n \in 0..c
    <3>1. v[k].n = c \/ \E j \in 1..Len(w) : v[k].n = w[j].n
      BY <1>6
    <3>2. CASE v[k].n = c
      BY <3>2
    <3>3. CASE \E j \in 1..Len(w) : v[k].n = w[j].n
      BY <2>1, <3>3, Zenon
    <3> QED
      BY <3>1, <3>2, <3>3
  <2>3. parse.at # "failed" => \A k \in 1..Len(v) : v[k].n # 0
    <3>1. ASSUME parse.at # "failed", NEW k \in 1..Len(v) PROVE v[k].n # 0
      <4>1. v[k].n = c \/ \E j \in 1..Len(w) : v[k].n = w[j].n
        BY <1>6
      <4>2. CASE v[k].n = c
        BY <1>4, <4>2
      <4>3. CASE \E j \in 1..Len(w) : v[k].n = w[j].n
        BY <2>1, <3>1, <4>3, Zenon
      <4> QED
        BY <4>1, <4>2, <4>3
    <3> QED
      BY <3>1
  <2> QED
    BY <1>2, <1>6, <2>2, <2>3 DEF ItemsInv
<1>11. EncoderInv(c)'
  <2>1. request' # NoRequest => Serves(request', h, v, c)
    BY <1>4, <1>6 DEF Serves
  <2>2. request' # NoRequest => Serves(request', given'[c], wire1', c)
    BY <1>2, <2>1
  <2> QED
    BY <2>2 DEF EncoderInv
<1> QED
  BY <1>7, <1>9, <1>10, <1>11 DEF WireInv

LEMMA SmallSequences ==
    ASSUME NEW x, NEW y, NEW z
    PROVE  /\ <<x>> \o <<y>> \o <<z>> = <<x, y, z>>
           /\ <<x>> \o <<>> \o <<z>> = <<x, z>>
<1>0. PICK S : S = {x, y, z}
  OBVIOUS
<1>1. PICK a \in Seq(S) : a = <<x>> \o <<y>> /\ Len(a) = 2 /\ a[1] = x /\ a[2] = y
  <2>1. <<x>> \o <<y>> \in Seq(S)
    BY <1>0
  <2>2. Len(<<x>> \o <<y>>) = 2 /\ (<<x>> \o <<y>>)[1] = x /\ (<<x>> \o <<y>>)[2] = y
    OBVIOUS
  <2> QED
    BY <2>1, <2>2
<1>2. PICK b \in Seq(S) : b = a \o <<z>> /\ Len(b) = 3 /\ b[1] = x /\ b[2] = y /\ b[3] = z
  <2>1. a \o <<z>> \in Seq(S)
    BY <1>0
  <2>2. Len(a \o <<z>>) = 3 /\ (a \o <<z>>)[1] = x /\ (a \o <<z>>)[2] = y /\ (a \o <<z>>)[3] = z
    BY <1>1
  <2> QED
    BY <2>1, <2>2
<1>3. b = <<x, y, z>>
  <2>1. PICK d : d = <<x, y, z>> /\ d \in Seq(S) /\ Len(d) = 3 /\ d[1] = x /\ d[2] = y /\ d[3] = z
    <3>1. <<x, y, z>> \in Seq(S) /\ Len(<<x, y, z>>) = 3
      BY <1>0
    <3>2. <<x, y, z>>[1] = x /\ <<x, y, z>>[2] = y /\ <<x, y, z>>[3] = z
      OBVIOUS
    <3> QED
      BY <3>1, <3>2
  <2>2. b = [i \in 1..3 |-> b[i]] /\ d = [i \in 1..3 |-> d[i]]
    <3>1. b = [i \in 1..Len(b) |-> b[i]]
      OBVIOUS
    <3>2. d = [i \in 1..Len(d) |-> d[i]]
      BY <2>1
    <3> QED
      BY <1>2, <2>1, <3>1, <3>2
  <2>3. \A i \in 1..3 : b[i] = d[i]
    <3>1. \A i \in 1..3 : i = 1 \/ i = 2 \/ i = 3
      OBVIOUS
    <3> QED
      BY <1>2, <2>1, <3>1
  <2>4. [i \in 1..3 |-> b[i]] = [i \in 1..3 |-> d[i]]
    BY <2>3
  <2> QED
    BY <2>1, <2>2, <2>4
<1>4. PICK e \in Seq(S) : e = <<x>> \o <<z>> /\ Len(e) = 2 /\ e[1] = x /\ e[2] = z
  <2>1. <<x>> \o <<z>> \in Seq(S)
    BY <1>0
  <2>2. Len(<<x>> \o <<z>>) = 2 /\ (<<x>> \o <<z>>)[1] = x /\ (<<x>> \o <<z>>)[2] = z
    OBVIOUS
  <2> QED
    BY <2>1, <2>2
<1>5. e = <<x, z>>
  <2>1. PICK d : d = <<x, z>> /\ d \in Seq(S) /\ Len(d) = 2 /\ d[1] = x /\ d[2] = z
    <3>1. <<x, z>> \in Seq(S) /\ Len(<<x, z>>) = 2
      BY <1>0
    <3>2. <<x, z>>[1] = x /\ <<x, z>>[2] = z
      OBVIOUS
    <3> QED
      BY <3>1, <3>2
  <2>2. e = [i \in 1..2 |-> e[i]] /\ d = [i \in 1..2 |-> d[i]]
    <3>1. e = [i \in 1..Len(e) |-> e[i]]
      OBVIOUS
    <3>2. d = [i \in 1..Len(d) |-> d[i]]
      BY <2>1
    <3> QED
      BY <1>4, <2>1, <3>1, <3>2
  <2>3. \A i \in 1..2 : e[i] = d[i]
    <3>1. \A i \in 1..2 : i = 1 \/ i = 2
      OBVIOUS
    <3> QED
      BY <1>4, <2>1, <3>1
  <2>4. [i \in 1..2 |-> e[i]] = [i \in 1..2 |-> d[i]]
    BY <2>3
  <2> QED
    BY <2>1, <2>2, <2>4
<1>6. <<x>> \o <<>> = <<x>>
  OBVIOUS
<1> QED
  BY <1>1, <1>2, <1>3, <1>4, <1>5, <1>6

\* encodeHeaders() of a response adds its headers.
LEMMA HeadersWire ==
    ASSUME NEW c \in Nat, WireInv(c), NEW kind \in {"plain", "length", "100"}, NEW end \in BOOLEAN,
           EncodeHeaders1(kind, end)
    PROVE  WireInv(c)'
<1>1. request # NoRequest /\ ~given[request.n].ended /\ given[request.n].headers = "none"
  BY DEF EncodeHeaders1, MayEncode
<1>2. Serves(request, given[c], wire1, c)
  BY <1>1 DEF WireInv, EncoderInv
<1>3. request.n = c /\ c \in Numbers /\ DOMAIN request = {"n", "url", "remoteComplete", "started", "chunked"}
  BY <1>2 DEF Serves
<1>4. PICK g : g = given[c] /\ IsGiven(g) /\ ~g.ended /\ g.headers = "none"
  BY <1>1, <1>3 DEF WireInv, GivenInv
<1>5. g.pieces = <<>> /\ <<>> \in Seq(Whats) /\ g.interim \in BOOLEAN
  BY <1>4 DEF IsGiven
<1>6. DOMAIN given = Numbers /\ IsBuffer(reserved) /\ wire1 \in Seq(OnWire(Whats))
  BY DEF WireInv, GivenInv, EncoderInv, WrittenInv
<1>7. UNCHANGED parse
  BY DEF EncodeHeaders1, parserVars
<1>8. PICK chunked : chunked = (kind = "plain" /\ ~end /\ ~parse.http10)
  OBVIOUS
<1>9. PICK framing : framing = CASE kind = "length" -> <<"length">>
                     [] kind = "plain" -> IF end THEN <<"length 0">> ELSE IF chunked THEN <<"chunked">> ELSE <<>>
                     [] kind = "100" -> <<>>
  OBVIOUS
<1>10. PICK whats : whats = <<IF kind = "100" THEN "100" ELSE "status">> \o framing \o <<"crlf">>
  OBVIOUS
<1>11. PICK q : q = [request EXCEPT !.started = TRUE, !.chunked = chunked]
  OBVIOUS
<1>12. PICK h : h = IF kind = "100" THEN [g EXCEPT !.interim = TRUE]
               ELSE [g EXCEPT !.headers = IF kind = "plain" /\ end THEN "only" ELSE kind,
                              !.http10 = parse.http10, !.ended = end]
  OBVIOUS
<1>13. /\ FlushOutput(<<>>, PutItems(reserved, Items(c, whats)))
       /\ request' = IF end THEN Ended(q) ELSE q
       /\ kind = "100" => ~end /\ ~g.interim
  BY <1>3, <1>4, <1>8, <1>9, <1>10, <1>11 DEF EncodeHeaders1
<1>14. given' = [given EXCEPT ![c] = h]
  BY <1>3, <1>4, <1>12 DEF EncodeHeaders1
<1>15. DOMAIN given' = Numbers /\ given'[c] = h /\ \A n \in Numbers : n # c => given'[n] = given[n]
  BY <1>3, <1>6, <1>14
<1>16. DOMAIN q = DOMAIN request /\ q.n = c /\ q.started /\ (q.chunked <=> chunked)
  BY <1>3, <1>11
<1>17. request' # NoRequest => request' = q
  BY <1>13 DEF Ended
<1>18. /\ whats \in Seq(Whats) /\ IsGiven(h) /\ (h.interim \/ h.headers # "none")
       /\ ResponseItems(h) = ResponseItems(g) \o whats
       /\ h.headers # "none" => (chunked <=> IsChunked(h))
  <2>1. CASE kind = "100"
    <3>1. h = [g EXCEPT !.interim = TRUE] /\ ~g.interim
      BY <1>12, <1>13, <2>1
    <3>2. /\ DOMAIN h = DOMAIN g /\ h.interim = TRUE /\ h.headers = "none" /\ h.ended = g.ended
          /\ h.pieces = g.pieces
      BY <1>4, <3>1 DEF IsGiven
    <3>3. IsGiven(h)
      BY <1>4, <1>5, <3>2 DEF IsGiven
    <3>4. whats = <<"100", "crlf">>
      <4>1. framing = <<>>
        BY <1>9, <2>1
      <4>2. <<"100">> \o <<>> \o <<"crlf">> = <<"100", "crlf">>
        <5>1. PICK x, z : x = "100" /\ z = "crlf"
          OBVIOUS
        <5>2. <<x>> \o <<>> \o <<z>> = <<x, z>>
          BY SmallSequences
        <5> QED
          BY <5>1, <5>2
      <4> QED
        BY <1>10, <2>1, <4>1, <4>2
    <3>5. ResponseItems(h) = ResponseItems(g) \o <<"100", "crlf">>
      BY <1>4, <3>1, <3>2, <3>3, InterimAdded
    <3>6. <<"100", "crlf">> \in Seq(Whats)
      BY <3>2, InterimType DEF Interim
    <3> QED
      BY <3>2, <3>3, <3>4, <3>5, <3>6
  <2>2. CASE kind # "100"
    <3>1. h = [g EXCEPT !.headers = IF kind = "plain" /\ end THEN "only" ELSE kind,
                        !.http10 = parse.http10, !.ended = end]
      BY <1>12, <2>2
    <3>2. /\ DOMAIN h = DOMAIN g /\ h.interim = g.interim /\ h.pieces = <<>> /\ h.ended = end
          /\ h.http10 = parse.http10 /\ h.headers = IF kind = "plain" /\ end THEN "only" ELSE kind
      BY <1>4, <1>5, <3>1 DEF IsGiven
    <3>3. h.headers \in {"only", "length", "plain"} /\ (h.headers = "only" => end)
      BY <2>2, <3>2
    <3>4. IsGiven(h)
      BY <1>4, <1>5, <3>2, <3>3 DEF IsGiven
    <3>5. chunked <=> IsChunked(h)
      BY <1>8, <3>2 DEF IsChunked
    <3>6. ~(h.ended /\ IsChunked(h))
      BY <1>8, <3>2, <3>5
    <3>7. ResponseItems(h) = ResponseItems(g) \o HeadOf(h)
      BY <1>4, <3>2, <3>3, <3>4, <3>6, HeadersAdded
    <3>8. HeadOf(h) = whats
      <4>1. whats = <<"status">> \o framing \o <<"crlf">>
        BY <1>10, <2>2
      <4>2. CASE kind = "length"
        <5>1. h.headers = "length" /\ framing = <<"length">>
          BY <1>9, <3>2, <4>2
        <5>2. HeadOf(h) = <<"status", "length", "crlf">>
          BY <5>1 DEF HeadOf
        <5>3. <<"status">> \o <<"length">> \o <<"crlf">> = <<"status", "length", "crlf">>
          <6>1. PICK x, y, z : x = "status" /\ y = "length" /\ z = "crlf"
            OBVIOUS
          <6>2. <<x>> \o <<y>> \o <<z>> = <<x, y, z>>
            BY SmallSequences
          <6> QED
            BY <6>1, <6>2
        <5> QED
          BY <4>1, <5>1, <5>2, <5>3
      <4>3. CASE kind = "plain" /\ end
        <5>1. h.headers = "only" /\ framing = <<"length 0">>
          BY <1>9, <3>2, <4>3
        <5>2. HeadOf(h) = <<"status", "length 0", "crlf">>
          BY <5>1 DEF HeadOf
        <5>3. <<"status">> \o <<"length 0">> \o <<"crlf">> = <<"status", "length 0", "crlf">>
          <6>1. PICK x, y, z : x = "status" /\ y = "length 0" /\ z = "crlf"
            OBVIOUS
          <6>2. <<x>> \o <<y>> \o <<z>> = <<x, y, z>>
            BY SmallSequences
          <6> QED
            BY <6>1, <6>2
        <5> QED
          BY <4>1, <5>1, <5>2, <5>3
      <4>4. CASE kind = "plain" /\ ~end
        <5>1. h.headers = "plain" /\ framing = IF chunked THEN <<"chunked">> ELSE <<>>
          BY <1>9, <3>2, <4>4
        <5>2. HeadOf(h) = <<"status">> \o (IF IsChunked(h) THEN <<"chunked">> ELSE <<>>) \o <<"crlf">>
          BY <5>1 DEF HeadOf
        <5> QED
          BY <3>5, <4>1, <5>1, <5>2
      <4> QED
        BY <2>2, <4>2, <4>3, <4>4
    <3>9. HeadOf(h) \in Seq(Whats)
      BY <3>3, HeadType
    <3> QED
      BY <3>3, <3>4, <3>5, <3>7, <3>8, <3>9
  <2> QED
    BY <2>1, <2>2
<1>19. PICK head \in Seq(OnWire(Whats)) : head = Items(c, whats)
  BY <1>18, ItemsType
<1>20. /\ reserved' = Flipped(PutItems(reserved, head))
       /\ wire1' = wire1 \o <<>> \o Unread(Flipped(PutItems(reserved, head)))
  BY <1>13, <1>19 DEF FlushOutput
<1>21. Unread(Flipped(PutItems(reserved, head))) = head /\ IsBuffer(Flipped(PutItems(reserved, head)))
  BY <1>6, HeadFlushed
<1>22. wire1' = wire1 \o Items(c, whats)
  <2>1. wire1 \o <<>> = wire1
    BY <1>6
  <2> QED
    BY <1>19, <1>20, <1>21, <2>1
<1>23. IsBuffer(reserved')
  BY <1>20, <1>21
<1>24. request' # NoRequest =>
              /\ DOMAIN request' = {"n", "url", "remoteComplete", "started", "chunked"}
              /\ request'.n = c /\ request'.started
              /\ h.headers # "none" => (request'.chunked <=> IsChunked(h))
  BY <1>3, <1>16, <1>17, <1>18
<1>25. ResponseItems(h) = ResponseItems(given[c]) \o whats
  BY <1>4, <1>18
<1> QED
  BY <1>1, <1>7, <1>15, <1>18, <1>22, <1>23, <1>24, <1>25, Encoded

\* encodeData() and encodeTrailers() of a response add its data and its end.
LEMMA DataWire ==
    ASSUME NEW c \in Nat, WireInv(c), NEW piece, NEW p \in Whats, piece = <<>> \/ piece = <<p>>,
           NEW end \in BOOLEAN, EncodeData1(piece, end)
    PROVE  WireInv(c)'
<1>1. request # NoRequest /\ ~given[request.n].ended /\ given[request.n].headers # "none"
  BY DEF EncodeData1, MayEncode
<1>2. Serves(request, given[c], wire1, c)
  BY <1>1 DEF WireInv, EncoderInv
<1>3. request.n = c /\ c \in Numbers /\ DOMAIN request = {"n", "url", "remoteComplete", "started", "chunked"}
  BY <1>2 DEF Serves
<1>4. PICK g : g = given[c] /\ IsGiven(g) /\ ~g.ended /\ g.headers # "none"
  BY <1>1, <1>3 DEF WireInv, GivenInv
<1>5. request.started /\ (request.chunked <=> IsChunked(g))
  BY <1>2, <1>4 DEF Serves
<1>6. DOMAIN given = Numbers /\ IsBuffer(reserved) /\ wire1 \in Seq(OnWire(Whats))
  BY DEF WireInv, GivenInv, EncoderInv, WrittenInv
<1>7. UNCHANGED parse
  BY DEF EncodeData1, parserVars
<1>8. PICK chunk : chunk = IF piece = <<>> THEN <<>> ELSE IF request.chunked THEN <<"size">> \o piece \o <<"crlf">> ELSE piece
  OBVIOUS
<1>9. PICK last : last = IF end THEN LastChunk(request.chunked) ELSE <<>>
  OBVIOUS
<1>10. PICK whats : whats = chunk \o last
  OBVIOUS
<1>11. PICK h : h = [g EXCEPT !.pieces = g.pieces \o piece, !.ended = end]
  OBVIOUS
<1>12. /\ FlushOutput(Items(c, whats), reserved)
       /\ request' = IF end THEN Ended(request) ELSE request
  BY <1>3, <1>8, <1>9, <1>10 DEF EncodeData1
<1>13. given' = [given EXCEPT ![c].pieces = @ \o piece, ![c].ended = end]
  BY <1>3 DEF EncodeData1
<1>14. DOMAIN given' = Numbers /\ given'[c] = h /\ \A n \in Numbers : n # c => given'[n] = given[n]
  <2>1. DOMAIN given' = Numbers /\ \A n \in Numbers : n # c => given'[n] = given[n]
    BY <1>3, <1>6, <1>13
  <2>2. given'[c] = [given[c] EXCEPT !.pieces = @ \o piece, !.ended = end]
    BY <1>3, <1>6, <1>13
  <2> QED
    BY <1>4, <1>11, <2>1, <2>2
<1>15. request' # NoRequest => request' = request
  BY <1>12 DEF Ended
<1>16. /\ DOMAIN h = DOMAIN g /\ h.interim = g.interim /\ h.headers = g.headers /\ h.http10 = g.http10
       /\ h.pieces = g.pieces \o piece /\ h.ended = end
  BY <1>4, <1>11 DEF IsGiven
<1>17. g.pieces \in Seq(Whats) /\ g.headers \in {"length", "plain"}
  BY <1>4 DEF IsGiven
<1>18. h.pieces \in Seq(Whats)
  <2>1. PICK s \in Seq(Whats) : s = g.pieces
    BY <1>17
  <2>2. s \o <<>> \in Seq(Whats) /\ s \o <<p>> \in Seq(Whats)
    OBVIOUS
  <2> QED
    BY <1>16, <2>1, <2>2
<1>19. IsGiven(h)
  BY <1>4, <1>16, <1>17, <1>18 DEF IsGiven
<1>20. IsChunked(h) = IsChunked(g)
  BY <1>16 DEF IsChunked
<1>21. last = EndOf(h)
  BY <1>5, <1>9, <1>16, <1>20 DEF EndOf, LastChunk
<1>22. \/ h.pieces = g.pieces /\ chunk = <<>>
       \/ h.pieces = g.pieces \o <<p>> /\ chunk = FrameOf(g, p)
  <2>1. CASE piece = <<>>
    <3>1. g.pieces \o <<>> = g.pieces
      BY <1>17
    <3> QED
      BY <1>8, <1>16, <2>1, <3>1
  <2>2. CASE piece = <<p>>
    <3>1. <<p>> # <<>>
      OBVIOUS
    <3>2. <<"size">> \o <<p>> \o <<"crlf">> = <<"size", p, "crlf">>
      <4>1. PICK x, z : x = "size" /\ z = "crlf"
        OBVIOUS
      <4>2. <<x>> \o <<p>> \o <<z>> = <<x, p, z>>
        BY SmallSequences
      <4> QED
        BY <4>1, <4>2
    <3>3. chunk = FrameOf(g, p)
      <4>1. CASE IsChunked(g)
        BY <1>5, <1>8, <2>2, <3>1, <3>2, <4>1 DEF FrameOf
      <4>2. CASE ~IsChunked(g)
        BY <1>5, <1>8, <2>2, <3>1, <4>2 DEF FrameOf
      <4> QED
        BY <4>1, <4>2
    <3> QED
      BY <1>16, <2>2, <3>3
  <2> QED
    BY <2>1, <2>2
<1>23. ResponseItems(h) = ResponseItems(g) \o whats
  <2>0. AddsData(g, h, p, chunk)
    BY <1>4, <1>16, <1>19, <1>22 DEF AddsData
  <2>1. ResponseItems(h) = ResponseItems(g) \o (chunk \o EndOf(h))
    BY <2>0, DataAdded, Zenon
  <2> QED
    BY <1>10, <1>21, <2>1
<1>24. whats \in Seq(Whats)
  <2>1. <<>> \in Seq(Whats)
    OBVIOUS
  <2>2. PICK a \in Seq(Whats) : a = chunk
    BY <1>22, <2>1, FramedOne
  <2>3. PICK b \in Seq(Whats) : b = last
    BY <1>21, EndType
  <2>4. a \o b \in Seq(Whats)
    OBVIOUS
  <2> QED
    BY <1>10, <2>2, <2>3, <2>4
<1>25. Unread(Flipped(reserved)) = <<>> /\ IsBuffer(Flipped(reserved))
  BY <1>6, NothingFlushed
<1>26. reserved' = Flipped(reserved) /\ wire1' = wire1 \o Items(c, whats) \o Unread(Flipped(reserved))
  BY <1>12 DEF FlushOutput
<1>27. wire1' = wire1 \o Items(c, whats)
  <2>1. PICK t \in Seq(OnWire(Whats)) : t = Items(c, whats)
    BY <1>24, ItemsType
  <2>2. PICK w \in Seq(OnWire(Whats)) : w = wire1
    BY <1>6
  <2>3. w \o t \o <<>> = w \o t
    OBVIOUS
  <2> QED
    BY <1>25, <1>26, <2>1, <2>2, <2>3
<1>28. IsBuffer(reserved')
  BY <1>25, <1>26
<1>29. request' # NoRequest =>
              /\ DOMAIN request' = {"n", "url", "remoteComplete", "started", "chunked"}
              /\ request'.n = c /\ request'.started
              /\ h.headers # "none" => (request'.chunked <=> IsChunked(h))
  BY <1>3, <1>5, <1>15, <1>20
<1>30. ResponseItems(h) = ResponseItems(given[c]) \o whats
  BY <1>4, <1>23
<1>31. h.interim \/ h.headers # "none"
  BY <1>16, <1>17
<1> QED
  BY <1>1, <1>7, <1>14, <1>19, <1>24, <1>27, <1>28, <1>29, <1>30, <1>31, Encoded

LEMMA CallbackStep ==
    ASSUME NEW c \in Nat, ReadInv(c), WireInv(c), Callback, UNCHANGED sessionVars
    PROVE  SessionInv'
<1>1. request # NoRequest => "url" \in DOMAIN request
  BY DEF WireInv, EncoderInv, Serves
<1>2. /\ parse.at = "parse" /\ UNCHANGED <<reserved, wire1, given>>
      /\ \/ Head(parse.slice).kind = "begin" /\ OnMessageBegin(Head(parse.slice).of)
         \/ Passes
  BY <1>1, CallbackDoes
<1>3. parse.slice # <<>> /\ parse.at # "failed"
  BY <1>2 DEF ReadInv
<1>4. CASE Head(parse.slice).kind = "begin" /\ OnMessageBegin(Head(parse.slice).of)
  <2>1. /\ IF resetCalled THEN ReadInv(c)' /\ UNCHANGED request
           ELSE c + 1 \in Numbers /\ ReadInv(c + 1)' /\ request' = [NoRequest EXCEPT !.n = c + 1]
        /\ parse'.at # "failed"
    BY <1>3, <1>4, BeginRead
  <2>2. CASE resetCalled
    <3>1. ReadInv(c)' /\ UNCHANGED request
      BY <2>1, <2>2
    <3>2. WireInv(c)'
      BY <1>2, <1>3, <3>1, WireKept
    <3> QED
      BY <3>1, <3>2 DEF SessionInv
  <2>3. CASE ~resetCalled
    <3>1. c + 1 \in Numbers /\ ReadInv(c + 1)' /\ request' = [NoRequest EXCEPT !.n = c + 1]
      BY <2>1, <2>3
    <3>2. WireInv(c + 1)'
      BY <1>2, <1>3, <3>1, BeginWire
    <3>3. c + 1 \in Nat
      OBVIOUS
    <3> QED
      BY <3>1, <3>2, <3>3 DEF SessionInv
  <2> QED
    BY <2>2, <2>3
<1>5. CASE Passes
  <2>1. ReadInv(c)'
    BY <1>3, <1>5, SliceDropped DEF Passes
  <2>2. WireInv(c)'
    BY <1>2, <1>3, <1>5, PassesWire DEF Passes
  <2> QED
    BY <2>1, <2>2 DEF SessionInv
<1> QED
  BY <1>2, <1>4, <1>5

\* What an encoder does leaves all that is read as it is.
LEMMA EncoderStep ==
    ASSUME NEW c \in Nat, ReadInv(c), WireInv(c)', UNCHANGED <<sessionVars, origin, parse>>
    PROVE  SessionInv'
BY SliceKept DEF SessionInv

LEMMA Http1Step ==
    ASSUME NEW c \in Nat, ReadInv(c), WireInv(c), Http1Next, UNCHANGED sessionVars
    PROVE  SessionInv'
<1>1. CASE Callback
  BY <1>1, CallbackStep
<1>2. CASE ProtocolError
  <2>1. /\ WireInv(c)' /\ UNCHANGED origin
        /\ DOMAIN parse' = {"at", "slice", "expects", "http10"}
        /\ parse'.at = "failed" /\ parse'.slice = <<>>
    BY <1>2, ErrorWire
  <2>2. parse.slice # <<>>
    BY <1>2 DEF ProtocolError, ReadInv
  <2>3. ReadInv(c)'
    BY <2>1, <2>2, SliceDropped
  <2> QED
    BY <2>1, <2>3 DEF SessionInv
<1>3. CASE ResetStream1
  <2>1. UNCHANGED <<reserved, wire1, given, parse, origin>> /\ request' = NoRequest
    BY <1>3 DEF ResetStream1, encoderVars
  <2>2. Renewed(request, request')
    BY <2>1 DEF Renewed
  <2>3. WireInv(c)'
    BY <2>1, <2>2, PassesWire
  <2> QED
    BY <2>1, <2>3, EncoderStep
<1>4. ASSUME NEW piece, NEW p \in Whats, piece = <<>> \/ piece = <<p>>,
             NEW end \in BOOLEAN, EncodeData1(piece, end)
      PROVE  SessionInv'
  <2>1. WireInv(c)'
    BY <1>4, DataWire
  <2>2. UNCHANGED <<parse, origin>>
    BY <1>4 DEF EncodeData1, parserVars
  <2> QED
    BY <2>1, <2>2, EncoderStep
<1>5. CASE EncodeTrailers1
  <2>1. EncodeData1(<<>>, TRUE) /\ "last" \in Whats
    BY <1>5 DEF EncodeTrailers1, Whats
  <2> QED
    BY <1>4, <2>1
<1>6. ASSUME NEW end \in BOOLEAN, NEW kind \in {"plain", "length", "100"}, EncodeHeaders1(kind, end)
      PROVE  SessionInv'
  <2>1. WireInv(c)'
    BY <1>6, HeadersWire
  <2>2. UNCHANGED <<parse, origin>>
    BY <1>6 DEF EncodeHeaders1, parserVars
  <2> QED
    BY <2>1, <2>2, EncoderStep
<1>7. ASSUME NEW end \in BOOLEAN, NEW i \in DOMAIN BodyPieces, EncodeData1(<<BodyPieces[i]>>, end)
      PROVE  SessionInv'
  <2>1. BodyPieces[i] \in Whats
    BY DEF Whats
  <2> QED
    BY <1>4, <1>7, <2>1
<1> QED
  BY <1>1, <1>2, <1>3, <1>5, <1>6, <1>7 DEF Http1Next

LEMMA SessionStep == SessionInv /\ [Next]_vars => SessionInv'
<1> SUFFICES ASSUME SessionInv, [Next]_vars PROVE SessionInv'
  OBVIOUS
<1>1. PICK c \in Nat : ReadInv(c) /\ WireInv(c)
  BY DEF SessionInv
<1>2. CASE ClientAsks
  <2>1. ReadInv(c)'
    BY <1>1, <1>2, AsksRead
  <2>2. UNCHANGED <<reserved, wire1, given, request, parse>>
    BY <1>2 DEF ClientAsks, http1Vars, parserVars, encoderVars
  <2>3. WireInv(c)'
    BY <1>1, <2>2, WireKept
  <2> QED
    BY <2>1, <2>3 DEF SessionInv
<1>3. ASSUME NEW n, ReadAndWait(n) PROVE SessionInv'
  <2>1. ReadInv(c)'
    BY <1>1, <1>3, WaitRead
  <2>2. UNCHANGED <<reserved, wire1, given, request, parse>>
    BY <1>3 DEF ReadAndWait, http1Vars, parserVars, encoderVars
  <2>3. WireInv(c)'
    BY <1>1, <2>2, WireKept
  <2> QED
    BY <2>1, <2>3 DEF SessionInv
<1>4. ASSUME NEW n, ReadAndDispatch(n) PROVE SessionInv'
  <2>1. ReadInv(c)' /\ (parse'.at # "failed" => parse.at # "failed")
    BY <1>1, <1>4, DispatchRead
  <2>2. UNCHANGED <<reserved, wire1, given, request>>
    BY <1>4 DEF ReadAndDispatch, Dispatch, http1Vars, parserVars, encoderVars
  <2>3. WireInv(c)'
    BY <1>1, <2>1, <2>2, WireKept
  <2> QED
    BY <2>1, <2>3 DEF SessionInv
<1>5. CASE Http1Next /\ UNCHANGED sessionVars
  BY <1>1, <1>5, Http1Step
<1>6. ASSUME UNCHANGED <<http1Vars, sessionVars>> PROVE SessionInv'
  <2>1. UNCHANGED <<reserved, wire1, given, request, parse, origin>>
    BY <1>6 DEF http1Vars, parserVars, encoderVars
  <2>2. WireInv(c)'
    BY <1>1, <2>1, WireKept
  <2> QED
    BY <1>1, <1>6, <2>1, <2>2, EncoderStep
<1>7. CASE codec = "Http2" /\ Http2Next /\ UNCHANGED <<http1Vars, sessionVars>>
  BY <1>6, <1>7
<1>8. CASE UNCHANGED vars
  <2>1. UNCHANGED <<http1Vars, sessionVars>>
    BY <1>8 DEF vars
  <2> QED
    BY <1>6, <2>1
<1>9. CASE Next
  <2>1. \/ ClientAsks
        \/ \E n \in DOMAIN incoming : ReadAndWait(n) \/ ReadAndDispatch(n)
        \/ Http1Next /\ UNCHANGED sessionVars
        \/ codec = "Http2" /\ Http2Next /\ UNCHANGED <<http1Vars, sessionVars>>
    BY <1>9 DEF Next
  <2> QED
    BY <1>2, <1>3, <1>4, <1>5, <1>7, <2>1
<1> QED
  BY <1>8, <1>9

LEMMA SessionResponsesHold == SessionInv => ResponseBytesOnce
<1> SUFFICES ASSUME SessionInv PROVE ResponseBytesOnce
  OBVIOUS
<1>1. PICK c \in Nat : ReadInv(c) /\ WireInv(c)
  BY DEF SessionInv
<1>2. Streams1 \subseteq Numbers
  BY DEF Streams1
<1>3. \A n \in Streams1 : Written(wire1, n) = ResponseItems(given[n])
  BY <1>1, <1>2 DEF WireInv, WrittenInv
<1>4. DOMAIN wire1 = 1..Len(wire1)
  <2>1. wire1 \in Seq(OnWire(Whats))
    BY <1>1 DEF WireInv, WrittenInv
  <2> QED
    BY <2>1, LenProperties
<1>5. \A i, k \in DOMAIN wire1 : i < k /\ wire1[i].n = wire1[k].n =>
          \A j \in i..k : wire1[j].n = wire1[i].n
  BY <1>1, <1>4 DEF WireInv, ItemsInv, Contiguous
<1> QED
  BY <1>3, <1>5 DEF ResponseBytesOnce

\* Of every HTTP/1 stream, exactly the items its encoder was given are on the wire, once and
\* in their order, and nothing of another response or of an error gets in between: the
\* encodeHeaders(), encodeData() and encodeTrailers() of codec_impl.cc, which share the
\* reserved buffer, however reads, callbacks, resets and errors come in between.
THEOREM SessionResponses == Spec => []ResponseBytesOnce
<1>1. Init => SessionInv
  BY InitSession
<1>2. SessionInv /\ [Next]_vars => SessionInv'
  BY SessionStep
<1>3. SessionInv => ResponseBytesOnce
  BY SessionResponsesHold
<1> QED
  BY <1>1, <1>2, <1>3, PTL DEF Spec

-----------------------------------------------------------------------------
(* What a step does with the tokens that are left *)

LEMMA AsksPending ==
    ASSUME NEW c \in Nat, ReadInv(c), ClientAsks
    PROVE  \E U : \E p \in Seq(U), u \in Seq(U) : \E r :
              /\ Pending = p /\ Pending' = p \o u
              /\ u = Tokens(asked + 1, r) /\ IsRequest(r) /\ asked + 1 \in Numbers
              /\ r = requests[asked + 1]
<1>1. PICK T : parse.slice \in Seq(T) /\ firstRequestBuffer \in Seq(T) /\ incoming \in Seq(T)
  BY DEF ReadInv
<1>2. PICK r : r = requests[asked + 1]
  OBVIOUS
<1>3. PICK a \in Nat : a = asked /\ c <= a /\ a < Len(requests) /\ a + 1 \in Numbers
  BY Bounds DEF ClientAsks, Numbers
<1>4. IsRequest(r)
  <2>1. requests # <<>>
    BY <1>3
  <2>2. requests \in Conversations
    BY <2>1 DEF ReadInv
  <2>3. IsText(requests) /\ a + 1 \in 1..Len(requests)
    BY <1>3, <2>2, Bounds, SessionAssumption
  <2>4. a + 1 \in DOMAIN requests
    BY <2>3 DEF IsText
  <2> QED
    BY <1>2, <1>3, <2>2, <2>4, SessionAssumption DEF IsRequest
<1>5. PICK t : t = Tokens(a + 1, r)
  OBVIOUS
<1>6. PICK A : t \in Seq(AllOf(a + 1, A))
  BY <1>4, <1>5, TokensType
<1>7. PICK U : T \subseteq U /\ AllOf(a + 1, A) \subseteq U
  <2>1. T \subseteq T \cup AllOf(a + 1, A) /\ AllOf(a + 1, A) \subseteq T \cup AllOf(a + 1, A)
    OBVIOUS
  <2> QED
    BY <2>1
<1>8. PICK x \in Seq(U) : x = parse.slice
  BY <1>1, <1>7, Wider
<1>9. PICK y \in Seq(U) : y = firstRequestBuffer
  BY <1>1, <1>7, Wider
<1>10. PICK z \in Seq(U) : z = incoming
  BY <1>1, <1>7, Wider
<1>11. PICK u \in Seq(U) : u = t
  BY <1>6, <1>7, Wider
<1>12. parse' = parse /\ firstRequestBuffer' = firstRequestBuffer /\ incoming' = z \o u
  BY <1>2, <1>3, <1>5, <1>10, <1>11 DEF ClientAsks, http1Vars, parserVars
<1>13. PICK p \in Seq(U) : p = x \o (y \o z)
  <2>1. x \o (y \o z) \in Seq(U)
    OBVIOUS
  <2> QED
    BY <2>1
<1>14. Pending = p
  BY <1>8, <1>9, <1>10, <1>13 DEF Pending
<1>15. Pending' = p \o u
  <2>1. Pending' = x \o (y \o (z \o u))
    BY <1>8, <1>9, <1>12 DEF Pending
  <2>2. x \o (y \o (z \o u)) = (x \o (y \o z)) \o u
    <3>1. Cat(y, Cat(z, u)) = Cat(Cat(y, z), u) /\ Cat(y, z) \in Seq(U)
      BY CatAssociates
    <3>2. Cat(x, Cat(Cat(y, z), u)) = Cat(Cat(x, Cat(y, z)), u)
      BY <3>1, CatAssociates
    <3> QED
      BY <3>1, <3>2 DEF Cat
  <2> QED
    BY <1>13, <2>1, <2>2
<1> QED
  BY <1>2, <1>3, <1>4, <1>5, <1>11, <1>14, <1>15

LEMMA DispatchPending ==
    ASSUME NEW c \in Nat, ReadInv(c), NEW n, ReadAndDispatch(n)
    PROVE  \E T : \E x \in Seq(T), y \in Seq(T) :
              /\ Pending = x \o y /\ x = Collected(n) /\ y = incoming' /\ x # <<>>
              /\ firstRequestBuffer \o incoming = x \o y
              /\ Pending' = IF codec' = "Http1" THEN x \o y ELSE y
<1>1. PICK T : parse.slice \in Seq(T) /\ firstRequestBuffer \in Seq(T) /\ incoming \in Seq(T)
  BY DEF ReadInv
<1>2. Takes(n) /\ firstRequestBuffer' = <<>>
  BY DEF ReadAndDispatch
<1>3. PICK x \in Seq(T) : x = Collected(n) /\ x # <<>>
  BY <1>1, <1>2, TakesParts
<1>4. PICK y \in Seq(T) : y = incoming'
  BY <1>1, <1>2, TakesParts
<1>5. x \o y = firstRequestBuffer \o incoming
  BY <1>1, <1>2, <1>3, <1>4, TakesParts
<1>6. <<>> \o y = y /\ <<>> \o (x \o y) = x \o y
  OBVIOUS
<1>7. CASE codec' = "Http1"
  <2>1. Dispatch(x)
    BY <1>3, <1>7 DEF ReadAndDispatch
  <2>2. parse.slice = <<>> /\ parse'.slice = x
    BY <2>1 DEF Dispatch, ReadInv
  <2> QED
    BY <1>2, <1>3, <1>4, <1>5, <1>6, <1>7, <2>2 DEF Pending
<1>8. CASE codec' # "Http1"
  <2>1. UNCHANGED parse
    BY <1>8 DEF ReadAndDispatch, http1Vars, parserVars
  <2>2. codec # "Http1"
    <3>1. CASE isFirstRequest
      BY <3>1 DEF ReadInv
    <3>2. CASE ~isFirstRequest
      BY <1>8, <3>2 DEF ReadAndDispatch
    <3> QED
      BY <3>1, <3>2
  <2>3. parse.slice = <<>>
    BY <2>2 DEF ReadInv
  <2> QED
    BY <1>2, <1>3, <1>4, <1>5, <1>6, <1>8, <2>1, <2>3 DEF Pending
<1> QED
  BY <1>7, <1>8

\* The parser takes the first token, or the slice is dropped.
LEMMA SlicePending ==
    ASSUME NEW c \in Nat, ReadInv(c), parse.slice # <<>>, UNCHANGED sessionVars
    PROVE  \E T : \E t \in T, x \in Seq(T), y \in Seq(T) :
              /\ t = Head(parse.slice) /\ x = Tail(parse.slice)
              /\ Pending = <<t>> \o (x \o y) /\ Pending = parse.slice \o y
              /\ parse'.slice = Tail(parse.slice) => Pending' = x \o y
              /\ parse'.slice = <<>> => Pending' = y
<1>1. PICK T : parse.slice \in Seq(T) /\ firstRequestBuffer \in Seq(T) /\ incoming \in Seq(T)
  BY DEF ReadInv
<1>2. PICK s \in Seq(T) : s = parse.slice /\ s # <<>>
  BY <1>1
<1>3. PICK t \in T : t = Head(s)
  BY <1>2, FirstAndRest
<1>4. PICK x \in Seq(T) : x = Tail(s)
  BY <1>2, FirstAndRest
<1>5. s = <<t>> \o x
  BY <1>2, <1>3, <1>4, FirstAndRest
<1>6. PICK y \in Seq(T) : y = firstRequestBuffer \o incoming
  <2>1. firstRequestBuffer \o incoming \in Seq(T)
    BY <1>1
  <2> QED
    BY <2>1
<1>7. UNCHANGED <<firstRequestBuffer, incoming>>
  BY DEF sessionVars
<1>8. Pending = s \o y
  BY <1>2, <1>6 DEF Pending
<1>9. <<t>> \in Seq(T)
  OBVIOUS
<1>10. (<<t>> \o x) \o y = <<t>> \o (x \o y) /\ <<>> \o y = y
  BY <1>9
<1>11. parse'.slice = x => Pending' = x \o y
  BY <1>6, <1>7 DEF Pending
<1>12. parse'.slice = <<>> => Pending' = y
  BY <1>6, <1>7, <1>10 DEF Pending
<1> QED
  BY <1>2, <1>3, <1>4, <1>5, <1>8, <1>10, <1>11, <1>12

LEMMA SamePending ==
    ASSUME UNCHANGED <<sessionVars, parse>>
    PROVE  Pending' = Pending
BY DEF Pending, sessionVars

-----------------------------------------------------------------------------
(* The types of the codec *)

\* The fields are those between two tokens, and what is left goes on where they are.
HeadersInv ==
    /\ parse.at \in {"rest", "parse", "failed"}
    /\ parse.expects \in {"begin", "head", "body"}
    /\ FieldsHold(fields, parse.expects)
    /\ Tidy(Pending)
    /\ parse.at # "failed" /\ parse.expects = "head" /\ Pending # <<>> /\ Pending[1].kind = "value" =>
          ~IsEmpty(fields.field)
    /\ codec # "Http1" => parse.expects = "begin"

\* Which protocol the client speaks shows in the first tokens.
SpeaksInv ==
    /\ speaks \in {"Http1", "Http2"}
    /\ isFirstRequest \in BOOLEAN
    /\ isFirstRequest <=> codec = "none"
    /\ codec \in {"none", speaks}
    /\ Len(firstRequestBuffer) < MagicLen
    /\ ~isFirstRequest => firstRequestBuffer = <<>>
    /\ speaks = "Http1" => \A k \in 1..Len(Pending) : Pending[k].of \in Numbers
    /\ speaks = "Http2" /\ isFirstRequest => firstRequestBuffer \o incoming = Magic
    /\ dropped \subseteq Numbers

LEMMA HeadersStay ==
    ASSUME HeadersInv, UNCHANGED <<sessionVars, parse, fields>>
    PROVE  HeadersInv'
<1>1. Pending' = Pending /\ codec' = codec
  BY SamePending DEF sessionVars
<1> QED
  BY <1>1 DEF HeadersInv, FieldsHold

LEMMA SpeaksStays ==
    ASSUME SpeaksInv, UNCHANGED <<sessionVars, parse, dropped>>
    PROVE  SpeaksInv'
<1>1. Pending' = Pending
  BY SamePending
<1>2. UNCHANGED <<speaks, isFirstRequest, codec, firstRequestBuffer, incoming>>
  BY DEF sessionVars
<1> QED
  BY <1>1, <1>2 DEF SpeaksInv, Numbers, Magic

LEMMA AsksHeaders ==
    ASSUME NEW c \in Nat, ReadInv(c), HeadersInv, SpeaksInv, ClientAsks
    PROVE  HeadersInv' /\ SpeaksInv'
<1>1. PICK U : \E p \in Seq(U), u \in Seq(U) : \E r :
              /\ Pending = p /\ Pending' = p \o u
              /\ u = Tokens(asked + 1, r) /\ IsRequest(r) /\ asked + 1 \in Numbers
  BY AsksPending
<1>0. PICK p \in Seq(U), u \in Seq(U) : \E r :
              /\ Pending = p /\ Pending' = p \o u
              /\ u = Tokens(asked + 1, r) /\ IsRequest(r) /\ asked + 1 \in Numbers
  BY <1>1
<1>2. PICK r : /\ Pending = p /\ Pending' = p \o u
               /\ u = Tokens(asked + 1, r) /\ IsRequest(r) /\ asked + 1 \in Numbers
  BY <1>0
<1>3. UNCHANGED <<parse, fields, dropped, speaks, isFirstRequest, codec, firstRequestBuffer>>
  BY DEF ClientAsks, http1Vars, parserVars
<1>4. speaks = "Http1"
  BY DEF ClientAsks
<1>5. Tidy(u) /\ Starts(u)
  BY <1>2, TokensTidy
<1>6. PICK M \in Nat, L \in Nat : M = Len(p) /\ L = Len(u)
  BY LenProperties
<1>7. PICK w \in Seq(U) : w = p \o u
  <2>1. p \o u \in Seq(U)
    OBVIOUS
  <2> QED
    BY <2>1
<1>8. Len(w) = M + L /\ \A k \in 1..(M + L) : w[k] = IF k <= M THEN p[k] ELSE u[k - M]
  BY <1>6, <1>7, ConcatProperties
<1>9. Tidy(w)
  <2>1. u # <<>> => u[1].kind # "value"
    BY <1>5 DEF Starts
  <2> QED
    BY <1>2, <1>5, <1>7, <2>1, TidyMore DEF HeadersInv
<1>10. ASSUME w # <<>>, w[1].kind = "value" PROVE p # <<>> /\ p[1].kind = "value"
  <2>1. M + L # 0 /\ 1 \in 1..(M + L)
    BY <1>7, <1>8, <1>10, EmptySeq
  <2>2. CASE M = 0
    <3>1. L # 0 /\ ~(1 <= M) /\ 1 - M = 1
      BY <2>1, <2>2
    <3>2. u # <<>> /\ w[1] = u[1]
      BY <1>6, <1>8, <2>1, <3>1
    <3> QED
      BY <1>5, <1>10, <3>2 DEF Starts
  <2>3. CASE M # 0
    <3>1. 1 <= M
      BY <2>3
    <3>2. p # <<>> /\ w[1] = p[1]
      BY <1>6, <1>8, <2>1, <2>3, <3>1
    <3> QED
      BY <1>10, <3>2
  <2> QED
    BY <2>2, <2>3
<1>11. HeadersInv'
  BY <1>2, <1>3, <1>7, <1>9, <1>10 DEF HeadersInv, FieldsHold
<1>12. ASSUME NEW k \in 1..(M + L) PROVE w[k].of \in Numbers
  <2>1. CASE k <= M
    <3>1. k \in 1..M /\ w[k] = p[k]
      BY <1>8, <2>1
    <3> QED
      BY <1>2, <1>4, <1>6, <3>1 DEF SpeaksInv
  <2>2. CASE ~(k <= M)
    <3>1. k - M \in 1..L /\ w[k] = u[k - M]
      BY <1>8, <2>2
    <3>2. PICK i : i = asked + 1
      OBVIOUS
    <3>3. Tokens(i, r) \in Seq(AllOf(i, Args(r)))
      BY <1>2, TokensType
    <3>4. u \in Seq(AllOf(i, Args(r)))
      BY <1>2, <3>2, <3>3
    <3>5. u[k - M] \in AllOf(i, Args(r))
      BY <1>6, <3>1, <3>4, ElementOfSeq
    <3> QED
      BY <1>2, <3>1, <3>2, <3>5 DEF AllOf
  <2> QED
    BY <2>1, <2>2
<1>13. SpeaksInv'
  BY <1>2, <1>3, <1>4, <1>7, <1>8, <1>12 DEF SpeaksInv, Numbers
<1> QED
  BY <1>11, <1>13

LEMMA WaitHeaders ==
    ASSUME NEW c \in Nat, ReadInv(c), HeadersInv, SpeaksInv, NEW n, ReadAndWait(n)
    PROVE  HeadersInv' /\ SpeaksInv'
<1>1. PICK T : parse.slice \in Seq(T) /\ firstRequestBuffer \in Seq(T) /\ incoming \in Seq(T)
  BY DEF ReadInv
<1>2. Takes(n) /\ firstRequestBuffer' = Collected(n) /\ isFirstRequest /\ Len(Collected(n)) < MagicLen
  BY DEF ReadAndWait
<1>3. UNCHANGED <<parse, fields, dropped, speaks, isFirstRequest, codec>>
  BY DEF ReadAndWait, Takes, http1Vars, parserVars
<1>4. Collected(n) \o incoming' = firstRequestBuffer \o incoming
  BY <1>1, <1>2, TakesParts
<1>5. Pending' = Pending
  BY <1>2, <1>3, <1>4 DEF Pending
<1>6. HeadersInv'
  BY <1>3, <1>5 DEF HeadersInv, FieldsHold
<1>7. SpeaksInv'
  BY <1>2, <1>3, <1>4, <1>5 DEF SpeaksInv, Numbers, Magic
<1> QED
  BY <1>6, <1>7

\* The first tokens that are enough are the magic, or those of a request.
LEMMA KnowsProtocol ==
    ASSUME NEW c \in Nat, ReadInv(c), SpeaksInv, NEW n, ReadAndDispatch(n)
    PROVE  codec' = speaks
<1>1. PICK T : \E x \in Seq(T), y \in Seq(T) :
              /\ Pending = x \o y /\ x = Collected(n) /\ y = incoming' /\ x # <<>>
              /\ firstRequestBuffer \o incoming = x \o y
              /\ Pending' = IF codec' = "Http1" THEN x \o y ELSE y
  BY DispatchPending
<1>2. PICK x \in Seq(T), y \in Seq(T) :
              /\ Pending = x \o y /\ x = Collected(n) /\ y = incoming' /\ x # <<>>
              /\ firstRequestBuffer \o incoming = x \o y
              /\ Pending' = IF codec' = "Http1" THEN x \o y ELSE y
  BY <1>1
<1>3. CASE ~isFirstRequest
  BY <1>3 DEF ReadAndDispatch, SpeaksInv
<1>4. CASE isFirstRequest
  <2>1. PICK K \in Nat : K = MagicLen /\ K # 0
    BY SessionAssumption
  <2>2. PICK M \in Nat, L \in Nat : M = Len(x) /\ L = Len(y)
    BY LenProperties
  <2>3. M >= K
    BY <1>2, <1>4, <2>1, <2>2 DEF ReadAndDispatch
  <2>4. PICK w \in Seq(T) : w = x \o y
    <3>1. x \o y \in Seq(T)
      OBVIOUS
    <3> QED
      BY <3>1
  <2>5. Len(w) = M + L /\ \A k \in 1..(M + L) : w[k] = IF k <= M THEN x[k] ELSE y[k - M]
    BY <2>2, <2>4, ConcatProperties
  <2>6. PICK m : m = Token(0, "magic", <<>>)
    OBVIOUS
  <2>7. Magic = [i \in 1..K |-> m]
    BY <2>1, <2>6 DEF Magic
  <2>8. PICK s : s = SubSeq(x, 1, K)
    OBVIOUS
  <2>9. s = [i \in 1..K |-> x[i]]
    <3>1. PICK a \in Int, b \in Int : a = 1 /\ b = K
      BY <2>1
    <3>2. SubSeq(x, a, b) = [i \in 1..K |-> x[i]]
      <4>1. \A i \in 1..(1 + b - a) : x[i + a - 1] = x[i]
        BY <3>1
      <4>2. SubSeq(x, a, b) = [i \in 1..(1 + b - a) |-> x[i + a - 1]]
        OBVIOUS
      <4>3. 1 + b - a = K
        BY <2>1, <3>1
      <4> QED
        BY <4>1, <4>2, <4>3
    <3> QED
      BY <2>8, <3>1, <3>2
  <2>10. CASE speaks = "Http2"
    <3>1. w = Magic
      BY <1>2, <1>4, <2>4, <2>10 DEF SpeaksInv
    <3>2. \A i \in 1..K : w[i] = m
      BY <2>7, <3>1
    <3>3. \A i \in 1..K : i \in 1..(M + L) /\ i <= M
      BY <2>3
    <3>4. \A i \in 1..K : x[i] = m
      BY <2>5, <3>2, <3>3
    <3>5. s = Magic
      BY <2>7, <2>9, <3>4
    <3> QED
      BY <1>2, <1>4, <2>1, <2>8, <2>10, <3>5 DEF ReadAndDispatch
  <2>11. CASE speaks = "Http1"
    <3>1. \A k \in 1..(M + L) : w[k].of \in Numbers
      BY <1>2, <2>4, <2>5, <2>11 DEF SpeaksInv
    <3>2. 1 \in 1..(M + L) /\ 1 <= M /\ 1 \in 1..K
      BY <2>1, <2>3
    <3>3. x[1].of \in Numbers
      BY <2>5, <3>1, <3>2
    <3>4. x[1].of # 0
      BY <3>3 DEF Numbers
    <3>5. m.of = 0
      BY <2>6 DEF Token
    <3>6. s # Magic
      BY <2>7, <2>9, <3>2, <3>4, <3>5
    <3> QED
      BY <1>2, <1>4, <2>1, <2>8, <2>11, <3>6 DEF ReadAndDispatch
  <2> QED
    BY <2>10, <2>11 DEF SpeaksInv
<1> QED
  BY <1>3, <1>4

LEMMA DispatchHeaders ==
    ASSUME NEW c \in Nat, ReadInv(c), HeadersInv, SpeaksInv, NEW n, ReadAndDispatch(n)
    PROVE  HeadersInv' /\ SpeaksInv'
<1>1. PICK T : \E x \in Seq(T), y \in Seq(T) :
              /\ Pending = x \o y /\ x = Collected(n) /\ y = incoming' /\ x # <<>>
              /\ firstRequestBuffer \o incoming = x \o y
              /\ Pending' = IF codec' = "Http1" THEN x \o y ELSE y
  BY DispatchPending
<1>2. PICK x \in Seq(T), y \in Seq(T) :
              /\ Pending = x \o y /\ x = Collected(n) /\ y = incoming' /\ x # <<>>
              /\ firstRequestBuffer \o incoming = x \o y
              /\ Pending' = IF codec' = "Http1" THEN x \o y ELSE y
  BY <1>1
<1>3. codec' = speaks
  BY KnowsProtocol
<1>4. /\ isFirstRequest' = FALSE /\ firstRequestBuffer' = <<>>
      /\ UNCHANGED <<speaks, dropped, fields>>
      /\ parse'.expects = parse.expects /\ parse'.at \in {parse.at, "parse"}
      /\ parse'.at # "failed" => parse.at # "failed"
  <2>1. isFirstRequest' = FALSE /\ firstRequestBuffer' = <<>> /\ speaks' = speaks
    BY DEF ReadAndDispatch, Takes
  <2>2. CASE codec' = "Http1"
    <3>1. Dispatch(Collected(n))
      BY <2>2 DEF ReadAndDispatch
    <3>2. UNCHANGED <<dropped, fields>> /\ parse.at = "rest"
      BY <3>1 DEF Dispatch
    <3>3. parse'.expects = parse.expects /\ parse'.at = "parse"
      BY <3>1 DEF Dispatch, ReadInv
    <3> QED
      BY <2>1, <3>2, <3>3
  <2>3. CASE codec' # "Http1"
    <3>1. UNCHANGED <<dropped, fields, parse>>
      BY <2>3 DEF ReadAndDispatch, http1Vars, parserVars
    <3> QED
      BY <2>1, <3>1
  <2> QED
    BY <2>2, <2>3
<1>5. CASE codec' = "Http1"
  <2>1. Pending' = Pending
    BY <1>2, <1>5
  <2>2. HeadersInv'
    BY <1>4, <1>5, <2>1 DEF HeadersInv, FieldsHold
  <2>3. SpeaksInv'
    <3>1. speaks' = "Http1" /\ ~isFirstRequest' /\ codec' # "none"
      BY <1>3, <1>4, <1>5
    <3>2. Len(firstRequestBuffer') < MagicLen
      <4>1. Len(<<>>) = 0
        OBVIOUS
      <4> QED
        BY <1>4, <4>1, SessionAssumption
    <3> QED
      BY <1>3, <1>4, <1>5, <2>1, <3>1, <3>2 DEF SpeaksInv, Numbers
  <2> QED
    BY <2>2, <2>3
<1>6. CASE codec' # "Http1"
  <2>1. Pending' = y
    BY <1>2, <1>6
  <2>2. Tidy(y)
    BY <1>2, TidyLeft DEF HeadersInv
  <2>3. codec # "Http1"
    <3>1. CASE isFirstRequest
      BY <3>1 DEF SpeaksInv
    <3>2. CASE ~isFirstRequest
      BY <1>6, <3>2 DEF ReadAndDispatch
    <3> QED
      BY <3>1, <3>2
  <2>4. parse'.expects = "begin"
    BY <1>4, <2>3 DEF HeadersInv
  <2>5. HeadersInv'
    BY <1>4, <2>1, <2>2, <2>4 DEF HeadersInv, FieldsHold
  <2>6. speaks' = "Http2" /\ ~isFirstRequest' /\ codec' # "none"
    BY <1>3, <1>4, <1>6 DEF SpeaksInv
  <2>7. Len(firstRequestBuffer') < MagicLen
    <3>1. Len(<<>>) = 0
      OBVIOUS
    <3> QED
      BY <1>4, <3>1, SessionAssumption
  <2>8. SpeaksInv'
    BY <1>3, <1>4, <2>6, <2>7 DEF SpeaksInv, Numbers
  <2> QED
    BY <2>5, <2>8
<1> QED
  BY <1>5, <1>6

\* The tokens of s are of requests in N.
OwnedBy(s, N) == \A k \in 1..Len(s) : s[k].of \in N

LEMMA AllLeft ==
    ASSUME NEW T, NEW s \in Seq(T), NEW u \in Seq(T), NEW w, w = s \o u, NEW N, OwnedBy(w, N)
    PROVE  OwnedBy(s, N) /\ OwnedBy(u, N)
<1>1. PICK M \in Nat, L \in Nat : M = Len(s) /\ L = Len(u)
  BY LenProperties
<1>3. Len(w) = M + L /\ \A k \in 1..(M + L) : w[k] = IF k <= M THEN s[k] ELSE u[k - M]
  BY <1>1, ConcatProperties
<1>4. \A k \in 1..(M + L) : w[k].of \in N
  BY <1>3 DEF OwnedBy
<1>5. ASSUME NEW k \in 1..M PROVE s[k].of \in N
  <2>1. k \in 1..(M + L) /\ w[k] = s[k]
    BY <1>3
  <2> QED
    BY <1>4, <2>1
<1>6. ASSUME NEW k \in 1..L PROVE u[k].of \in N
  <2>1. M + k \in 1..(M + L) /\ ~(M + k <= M) /\ (M + k) - M = k
    OBVIOUS
  <2>2. w[M + k] = u[k]
    BY <1>3, <2>1
  <2> QED
    BY <1>4, <2>1, <2>2
<1> QED
  BY <1>1, <1>5, <1>6 DEF OwnedBy

LEMMA ErrorHeaders ==
    ASSUME NEW c \in Nat, ReadInv(c), HeadersInv, SpeaksInv, ProtocolError, UNCHANGED sessionVars
    PROVE  HeadersInv' /\ SpeaksInv'
<1>1. UNCHANGED <<fields, dropped>> /\ parse.at = "parse"
  BY DEF ProtocolError
<1>2. parse'.at = "failed" /\ parse'.slice = <<>> /\ parse'.expects = parse.expects
  BY DEF ProtocolError, ReadInv
<1>3. parse.slice # <<>>
  BY <1>1 DEF ReadInv
<1>4. PICK T : \E t \in T, x \in Seq(T), y \in Seq(T) :
              /\ t = Head(parse.slice) /\ x = Tail(parse.slice)
              /\ Pending = <<t>> \o (x \o y) /\ Pending = parse.slice \o y
              /\ parse'.slice = Tail(parse.slice) => Pending' = x \o y
              /\ parse'.slice = <<>> => Pending' = y
  BY <1>3, SlicePending
<1>5. PICK t \in T, x \in Seq(T), y \in Seq(T) : Pending = <<t>> \o (x \o y) /\ Pending' = y
  BY <1>2, <1>4
<1>6. PICK h \in Seq(T) : h = <<t>>
  <2>1. <<t>> \in Seq(T)
    OBVIOUS
  <2> QED
    BY <2>1
<1>7. PICK r \in Seq(T) : r = x \o y
  <2>1. x \o y \in Seq(T)
    OBVIOUS
  <2> QED
    BY <2>1
<1>8. UNCHANGED <<speaks, isFirstRequest, codec, firstRequestBuffer, incoming>>
  BY DEF sessionVars
<1>9. Tidy(y)
  <2>1. Tidy(h \o r)
    BY <1>5, <1>6, <1>7 DEF HeadersInv
  <2>2. Tidy(r)
    BY <2>1, TidyLeft
  <2> QED
    BY <1>7, <2>2, TidyLeft
<1>10. HeadersInv'
  BY <1>1, <1>2, <1>5, <1>8, <1>9 DEF HeadersInv, FieldsHold
<1>11. speaks = "Http1" => OwnedBy(y, Numbers)
  <2> SUFFICES ASSUME speaks = "Http1" PROVE OwnedBy(y, Numbers)
    OBVIOUS
  <2>0. PICK w : w = Pending /\ w = h \o r
    BY <1>5, <1>6, <1>7
  <2>1. OwnedBy(w, Numbers)
    BY <2>0 DEF SpeaksInv, OwnedBy
  <2>2. OwnedBy(r, Numbers)
    BY <2>0, <2>1, AllLeft, Zenon
  <2> QED
    BY <1>7, <2>2, AllLeft, Zenon
<1>12. SpeaksInv'
  BY <1>1, <1>5, <1>8, <1>11 DEF SpeaksInv, OwnedBy, Numbers, Magic
<1> QED
  BY <1>10, <1>12

\* The requests of the tokens that the parser drops are known.
LEMMA CallbackSpeaks ==
    ASSUME NEW c \in Nat, ReadInv(c), SpeaksInv, parse.slice # <<>>, UNCHANGED sessionVars,
           NEW e, NEW paused \in BOOLEAN, NEW h, GoesOn(e, paused, h)
    PROVE  SpeaksInv'
<1>1. PICK T : \E t \in T, x \in Seq(T), y \in Seq(T) :
              /\ t = Head(parse.slice) /\ x = Tail(parse.slice)
              /\ Pending = <<t>> \o (x \o y) /\ Pending = parse.slice \o y
              /\ parse'.slice = Tail(parse.slice) => Pending' = x \o y
              /\ parse'.slice = <<>> => Pending' = y
  BY SlicePending
<1>2. PICK t \in T, x \in Seq(T), y \in Seq(T) :
              /\ x = Tail(parse.slice)
              /\ Pending = <<t>> \o (x \o y)
              /\ parse'.slice = Tail(parse.slice) => Pending' = x \o y
              /\ parse'.slice = <<>> => Pending' = y
  BY <1>1
<1>3. UNCHANGED <<speaks, isFirstRequest, codec, firstRequestBuffer, incoming>>
  BY DEF sessionVars
<1>4. speaks = "Http1"
  BY DEF SpeaksInv, ReadInv
<1>5. PICK g \in Seq(T) : g = <<t>>
  <2>1. <<t>> \in Seq(T)
    OBVIOUS
  <2> QED
    BY <2>1
<1>6. PICK r \in Seq(T) : r = x \o y
  <2>1. x \o y \in Seq(T)
    OBVIOUS
  <2> QED
    BY <2>1
<1>7. OwnedBy(r, Numbers)
  <2>0. PICK w : w = Pending /\ w = g \o r
    BY <1>2, <1>5, <1>6
  <2>1. OwnedBy(w, Numbers)
    BY <1>4, <2>0 DEF SpeaksInv, OwnedBy
  <2> QED
    BY <2>0, <2>1, AllLeft, Zenon
<1>8. OwnedBy(x, Numbers) /\ OwnedBy(y, Numbers)
  BY <1>6, <1>7, AllLeft, Zenon
<1>9. Pending' = r \/ Pending' = y
  BY <1>2, <1>6, GoesOnDoes
<1>10. \A k \in 1..Len(Pending') : Pending'[k].of \in Numbers
  BY <1>7, <1>8, <1>9 DEF OwnedBy
<1>11. dropped' \subseteq Numbers
  <2>1. DOMAIN x = 1..Len(x)
    BY LenProperties
  <2>2. dropped' = dropped \/ dropped' = dropped \cup {x[i].of : i \in DOMAIN x}
    BY <1>2 DEF GoesOn
  <2> QED
    BY <1>8, <2>1, <2>2 DEF SpeaksInv, OwnedBy
<1> QED
  BY <1>3, <1>4, <1>10, <1>11 DEF SpeaksInv, Numbers, Magic

LEMMA GoesOnExpects ==
    ASSUME NEW e, NEW paused \in BOOLEAN, NEW h, GoesOn(e, paused, h)
    PROVE  parse'.expects = e /\ parse'.at \in {"rest", "parse"}
BY DEF GoesOn

LEMMA CallbackHeaders ==
    ASSUME NEW c \in Nat, ReadInv(c), HeadersInv, SpeaksInv, Callback, UNCHANGED sessionVars
    PROVE  HeadersInv' /\ SpeaksInv'
<1>1. parse.at = "parse" /\ parse.slice # <<>>
  BY DEF Callback, ReadInv
<1>2. PICK T : \E t \in T, x \in Seq(T), y \in Seq(T) :
              /\ t = Head(parse.slice) /\ x = Tail(parse.slice)
              /\ Pending = <<t>> \o (x \o y) /\ Pending = parse.slice \o y
              /\ parse'.slice = Tail(parse.slice) => Pending' = x \o y
              /\ parse'.slice = <<>> => Pending' = y
  BY <1>1, SlicePending
<1>3. PICK t \in T, x \in Seq(T), y \in Seq(T) :
              /\ t = Head(parse.slice)
              /\ Pending = <<t>> \o (x \o y)
              /\ parse'.slice = Tail(parse.slice) => Pending' = x \o y
              /\ parse'.slice = <<>> => Pending' = y
  BY <1>2
<1>4. PICK g \in Seq(T) : g = <<t>> /\ Len(g) = 1 /\ g[1] = t /\ g # <<>>
  <2>1. <<t>> \in Seq(T) /\ Len(<<t>>) = 1 /\ <<t>>[1] = t /\ <<t>> # <<>>
    OBVIOUS
  <2> QED
    BY <2>1
<1>5. PICK r \in Seq(T) : r = x \o y
  <2>1. x \o y \in Seq(T)
    OBVIOUS
  <2> QED
    BY <2>1
<1>6. Tidy(g \o r)
  BY <1>3, <1>4, <1>5 DEF HeadersInv
<1>7. Tidy(g) /\ Tidy(r) /\ (r # <<>> /\ r[1].kind = "value" => t.kind \in {"field", "value"})
  BY <1>4, <1>6, TidyLeft
<1>8. Tidy(y)
  BY <1>5, <1>7, TidyLeft
<1>9. PICK e : e = parse.expects /\ e \in {"begin", "head", "body"}
  BY DEF HeadersInv
<1>10. FieldsHold(fields, e) /\ codec = "Http1" /\ codec' = "Http1"
  BY <1>1, <1>9 DEF HeadersInv, ReadInv, sessionVars
<1>11. /\ t.kind = "field" => \E z : t.arg = <<z>>
       /\ t.kind = "value" => t.arg = <<>> \/ \E z : t.arg = <<z>>
  <2>1. 1 \in 1..Len(g)
    BY <1>4
  <2> QED
    BY <1>4, <1>7, <2>1 DEF Tidy
<1>12. e = "head" /\ t.kind = "value" => ~IsEmpty(fields.field)
  <2>1. PICK w : w = g \o r
    OBVIOUS
  <2>2. w # <<>> /\ w[1] = t
    <3>1. PICK L \in Nat : L = Len(r)
      BY LenProperties
    <3>2. Len(w) = 1 + L /\ \A k \in 1..(1 + L) : w[k] = IF k <= 1 THEN g[k] ELSE r[k - 1]
      BY <1>4, <2>1, <3>1, ConcatProperties
    <3>3. 1 \in 1..(1 + L) /\ 1 + L # 0
      OBVIOUS
    <3>4. w[1] = t /\ Len(w) # 0
      BY <1>4, <3>2, <3>3
    <3> QED
      BY <3>4
  <2> QED
    BY <1>1, <1>3, <1>4, <1>5, <1>9, <2>1, <2>2 DEF HeadersInv
\* What is left to show of every callback.
<1>13. ASSUME NEW d \in {"begin", "head", "body"}, NEW paused \in BOOLEAN, NEW h, GoesOn(d, paused, h),
              paused => d # "head", FieldsHold(fields', d),
              d = "head" /\ t.kind \in {"field", "value"} => ~IsEmpty(fields'.field)
       PROVE  HeadersInv' /\ SpeaksInv'
  <2>1. SpeaksInv'
    BY <1>1, <1>13, CallbackSpeaks
  <2>2. parse'.expects = d /\ parse'.at \in {"rest", "parse"}
    BY <1>13, GoesOnExpects
  <2>3. Pending' = IF paused THEN y ELSE r
    BY <1>3, <1>5, <1>13, GoesOnDoes
  <2>4. CASE ~paused
    <3>1. Pending' = r
      BY <2>3, <2>4
    <3>2. HeadersInv'
      BY <1>7, <1>10, <1>13, <2>2, <3>1 DEF HeadersInv, FieldsHold
    <3> QED
      BY <2>1, <3>2
  <2>5. CASE paused /\ d # "head"
    <3>1. Pending' = y
      BY <2>3, <2>5
    <3>2. HeadersInv'
      BY <1>8, <1>10, <1>13, <2>2, <2>5, <3>1 DEF HeadersInv, FieldsHold
    <3> QED
      BY <2>1, <3>2
  <2> QED
    BY <1>13, <2>4, <2>5
<1>14. /\ Fits1(t)
       /\ \/ t.kind = "begin" /\ OnMessageBegin(t.of)
          \/ t.kind = "url" /\ OnUrl(t.arg)
          \/ t.kind = "field" /\ OnHeader(OnHeaderField(fields, t.arg))
          \/ t.kind = "value" /\ OnHeader(OnHeaderValue(fields, t.arg))
          \/ t.kind = "headersEnd" /\ OnHeadersComplete(t.arg)
          \/ t.kind = "body" /\ OnBody(t.arg)
          \/ t.kind = "end" /\ OnMessageComplete
  BY <1>3 DEF Callback
<1>15. CASE t.kind = "begin" /\ OnMessageBegin(t.of)
  <2>1. e = "begin"
    BY <1>9, <1>14, <1>15 DEF Fits1
  <2>2. GoesOn("head", FALSE, parse.http10)
    BY <1>15 DEF OnMessageBegin
  <2>3. fields' = [fields EXCEPT !.map = NoHeaders, !.state = "Field"]
    BY <1>15 DEF OnMessageBegin
  <2>4. MapHolds(NoHeaders)
    BY DEF MapHolds, NoHeaders
  <2>5. FieldsHold(fields', "head")
    <3>1. PICK f : f = fields'
      OBVIOUS
    <3>2. /\ DOMAIN f = FieldNames /\ f.map = NoHeaders /\ f.state = "Field" /\ f.sound = fields.sound
          /\ f.field = fields.field /\ f.value = fields.value
      BY <1>10, <2>3, <3>1 DEF FieldsHold, FieldNames
    <3> QED
      BY <1>10, <2>1, <2>4, <3>1, <3>2 DEF FieldsHold
  <2> QED
    BY <1>13, <1>15, <2>2, <2>5
<1>16. CASE t.kind = "url" /\ OnUrl(t.arg)
  <2>1. e = "head"
    BY <1>9, <1>14, <1>16 DEF Fits1
  <2>2. GoesOn("head", FALSE, parse.http10) /\ fields' = fields
    BY <1>16 DEF OnUrl
  <2> QED
    BY <1>10, <1>13, <1>16, <2>1, <2>2
<1>17. CASE t.kind = "field" /\ OnHeader(OnHeaderField(fields, t.arg))
  <2>1. e \in {"head", "body"}
    BY <1>9, <1>14, <1>17 DEF Fits1
  <2>2. GoesOn(e, FALSE, parse.http10) /\ fields' = OnHeaderField(fields, t.arg)
    BY <1>9, <1>17 DEF OnHeader
  <2>3. PICK z : t.arg = <<z>>
    BY <1>11, <1>17
  <2>4. FieldsHold(fields', e) /\ (e = "head" => ~IsEmpty(fields'.field))
    BY <1>10, <2>1, <2>2, <2>3, FieldHolds
  <2> QED
    BY <1>9, <1>13, <2>2, <2>4
<1>18. CASE t.kind = "value" /\ OnHeader(OnHeaderValue(fields, t.arg))
  <2>1. e \in {"head", "body"}
    BY <1>9, <1>14, <1>18 DEF Fits1
  <2>2. GoesOn(e, FALSE, parse.http10) /\ fields' = OnHeaderValue(fields, t.arg)
    BY <1>9, <1>18 DEF OnHeader
  <2>3. PICK z : t.arg = <<>> \/ t.arg = <<z>>
    BY <1>11, <1>18
  <2>4. e = "head" => ~IsEmpty(fields.field)
    BY <1>12, <1>18
  <2>5. FieldsHold(fields', e) /\ (e = "head" => ~IsEmpty(fields'.field))
    BY <1>10, <2>1, <2>2, <2>3, <2>4, ValueHolds
  <2> QED
    BY <1>9, <1>13, <2>2, <2>5
<1>19. CASE t.kind = "headersEnd" /\ OnHeadersComplete(t.arg)
  <2>1. e = "head"
    BY <1>9, <1>14, <1>19 DEF Fits1
  <2>2. PICK f : f = CompleteLastHeader(fields)
    OBVIOUS
  <2>3. Completed(f)
    BY <1>10, <2>1, <2>2, CompletedHolds
  <2>4. PICK done : done = [f EXCEPT !.map = NoMap, !.state = "Done"]
    OBVIOUS
  <2>5. /\ \E h : GoesOn("body", FALSE, h)
        /\ fields' = done \/ \E m : fields' = [done EXCEPT !.deferred = m]
    <3>1. CASE request = NoRequest
      BY <1>19, <2>2, <2>4, <3>1 DEF OnHeadersComplete
    <3>2. CASE request # NoRequest
      <4>1. PICK m : m = WithValue(HandlePath(f.map, request.url, t.arg.method).map, MethodName, t.arg.method)
        OBVIOUS
      <4>2. fields' = done \/ fields' = [done EXCEPT !.deferred = m]
        BY <1>19, <2>2, <2>4, <3>2, <4>1 DEF OnHeadersComplete
      <4>3. \E h : GoesOn("body", FALSE, h)
        BY <1>19, <3>2 DEF OnHeadersComplete
      <4> QED
        BY <4>2, <4>3
    <3> QED
      BY <3>1, <3>2
  <2>6. PICK h : GoesOn("body", FALSE, h)
    BY <2>5
  <2>7. /\ DOMAIN done = FieldNames /\ done.map = NoMap /\ done.state = "Done" /\ done.sound = f.sound
        /\ done.field = f.field /\ done.value = f.value
    BY <2>3, <2>4 DEF Completed, FieldNames
  <2>8. FieldsHold(fields', "body")
    <3>1. FieldsHold(done, "body")
      BY <2>3, <2>7 DEF FieldsHold, Completed
    <3>2. ASSUME NEW m, fields' = [done EXCEPT !.deferred = m] PROVE FieldsHold(fields', "body")
      <4>1. PICK k : k = fields'
        OBVIOUS
      <4>2. /\ DOMAIN k = FieldNames /\ k.map = done.map /\ k.state = done.state /\ k.sound = done.sound
            /\ k.field = done.field /\ k.value = done.value
        BY <2>7, <3>2, <4>1 DEF FieldNames
      <4> QED
        BY <3>1, <4>1, <4>2 DEF FieldsHold
    <3> QED
      BY <2>5, <3>1, <3>2
  <2> QED
    BY <1>13, <2>6, <2>8
<1>20. CASE t.kind = "body" /\ OnBody(t.arg)
  <2>1. e = "body"
    BY <1>9, <1>14, <1>20 DEF Fits1
  <2>2. GoesOn("body", FALSE, parse.http10) /\ fields' = fields
    BY <1>20 DEF OnBody
  <2> QED
    BY <1>10, <1>13, <2>1, <2>2
<1>21. CASE t.kind = "end" /\ OnMessageComplete
  <2>1. e = "body"
    BY <1>9, <1>14, <1>21 DEF Fits1
  <2>2. GoesOn("begin", TRUE, parse.http10)
    BY <1>21 DEF OnMessageComplete
  <2>3. fields' = fields \/ fields' = [fields EXCEPT !.deferred = NoMap]
    BY <1>21 DEF OnMessageComplete
  <2>4. FieldsHold(fields', "begin")
    <3>1. FieldsHold(fields, "begin")
      BY <1>10, <2>1 DEF FieldsHold
    <3>2. ASSUME fields' = [fields EXCEPT !.deferred = NoMap] PROVE FieldsHold(fields', "begin")
      <4>1. PICK k : k = fields'
        OBVIOUS
      <4>2. /\ DOMAIN k = FieldNames /\ k.map = fields.map /\ k.state = fields.state /\ k.sound = fields.sound
            /\ k.field = fields.field /\ k.value = fields.value
        BY <3>1, <3>2, <4>1 DEF FieldsHold, FieldNames
      <4> QED
        BY <3>1, <4>1, <4>2 DEF FieldsHold
    <3> QED
      BY <2>3, <3>1, <3>2
  <2> QED
    BY <1>13, <2>2, <2>4
<1> QED
  BY <1>14, <1>15, <1>16, <1>17, <1>18, <1>19, <1>20, <1>21

LEMMA InitHeaders ==
    ASSUME Init
    PROVE  HeadersInv /\ SpeaksInv
<1>1. /\ parse = [at |-> "rest", slice |-> <<>>, expects |-> "begin", http10 |-> FALSE]
      /\ fields = [map |-> NoMap, state |-> "Field", field |-> EmptyString, value |-> EmptyString,
                   deferred |-> NoMap, sound |-> TRUE]
      /\ firstRequestBuffer = <<>> /\ codec = "none" /\ isFirstRequest = TRUE /\ dropped = {}
  BY DEF Init, Http1Init
<1>0. \/ speaks = "Http1" /\ incoming = <<>>
      \/ speaks = "Http2" /\ incoming = Magic
  BY DEF Init
<1>2. parse.at = "rest" /\ parse.slice = <<>> /\ parse.expects = "begin"
  BY <1>1
<1>3. PICK m \in Nat : m = MagicLen /\ m # 0
  BY SessionAssumption
<1>4. PICK t : t = Token(0, "magic", <<>>)
  OBVIOUS
<1>13. t.kind = "magic"
  BY <1>4 DEF Token
<1>5. Magic = [i \in 1..m |-> t]
  BY <1>3, <1>4 DEF Magic
<1>6. incoming \in Seq({t}) /\ (\A i \in 1..Len(incoming) : incoming[i] = t)
      /\ (incoming = <<>> => Len(incoming) = 0)
  <2>1. CASE incoming = <<>>
    BY <2>1
  <2>2. CASE incoming = Magic
    BY <1>5, <2>2
  <2> QED
    BY <1>0, <2>1, <2>2
<1>7. <<>> \o incoming = incoming /\ <<>> \o (<<>> \o incoming) = incoming
  BY <1>6
<1>8. Pending = incoming
  BY <1>1, <1>2, <1>7 DEF Pending
<1>9. Tidy(incoming)
  BY <1>6, <1>13 DEF Tidy
<1>10. FieldsHold(fields, "begin")
  <2>1. <<>> \in Seq({0})
    OBVIOUS
  <2>2. IsString(EmptyString) /\ IsEmpty(EmptyString)
    BY <2>1 DEF EmptyString, Str, IsString, IsOwn, IsEmpty
  <2>3. /\ DOMAIN fields = FieldNames /\ fields.sound = TRUE /\ fields.state = "Field"
        /\ fields.map = NoMap /\ fields.field = EmptyString /\ fields.value = EmptyString
    BY <1>1 DEF FieldNames
  <2> QED
    BY <2>2, <2>3 DEF FieldsHold
<1>11. HeadersInv
  BY <1>1, <1>2, <1>8, <1>9, <1>10 DEF HeadersInv
<1>12. SpeaksInv
  <2>1. Len(<<>>) = 0 /\ 0 < m
    BY <1>3
  <2>2. speaks = "Http1" => 1..Len(Pending) = {}
    BY <1>0, <1>6, <1>8
  <2>3. speaks = "Http2" => firstRequestBuffer \o incoming = Magic
    BY <1>0, <1>1, <1>7
  <2> QED
    BY <1>0, <1>1, <1>3, <2>1, <2>2, <2>3 DEF SpeaksInv
<1> QED
  BY <1>11, <1>12

\* Where the fields, the parser and what is read are left alone.
LEMMA CodecStays ==
    ASSUME HeadersInv, SpeaksInv, UNCHANGED <<sessionVars, parserVars>>
    PROVE  HeadersInv' /\ SpeaksInv'
<1>1. UNCHANGED <<sessionVars, parse, fields>> /\ UNCHANGED <<sessionVars, parse, dropped>>
  BY DEF parserVars
<1> QED
  BY <1>1, HeadersStay, SpeaksStays

LEMMA CodecHttp1Step ==
    ASSUME NEW c \in Nat, ReadInv(c), HeadersInv, SpeaksInv, Http1Next, UNCHANGED sessionVars
    PROVE  HeadersInv' /\ SpeaksInv'
<1>1. CASE Callback
  BY <1>1, CallbackHeaders
<1>2. CASE ProtocolError
  BY <1>2, ErrorHeaders
<1>3. CASE ResetStream1
  <2>1. UNCHANGED <<sessionVars, parse, fields>> /\ UNCHANGED <<sessionVars, parse, dropped>>
    BY <1>3 DEF ResetStream1
  <2> QED
    BY <2>1, HeadersStay, SpeaksStays
<1>4. ASSUME NEW piece, NEW end, EncodeData1(piece, end) PROVE HeadersInv' /\ SpeaksInv'
  <2>1. UNCHANGED parserVars
    BY <1>4 DEF EncodeData1
  <2> QED
    BY <2>1, CodecStays
<1>5. CASE EncodeTrailers1
  BY <1>4, <1>5 DEF EncodeTrailers1
<1>6. ASSUME NEW kind, NEW end, EncodeHeaders1(kind, end) PROVE HeadersInv' /\ SpeaksInv'
  <2>1. UNCHANGED parserVars
    BY <1>6 DEF EncodeHeaders1
  <2> QED
    BY <2>1, CodecStays
<1> QED
  BY <1>1, <1>2, <1>3, <1>4, <1>5, <1>6 DEF Http1Next

LEMMA CodecStep ==
    ASSUME SessionInv, HeadersInv, SpeaksInv, [Next]_vars
    PROVE  HeadersInv' /\ SpeaksInv'
<1>1. PICK c \in Nat : ReadInv(c)
  BY DEF SessionInv
<1>2. CASE ClientAsks
  BY <1>1, <1>2, AsksHeaders
<1>3. ASSUME NEW n, ReadAndWait(n) PROVE HeadersInv' /\ SpeaksInv'
  BY <1>1, <1>3, WaitHeaders
<1>4. ASSUME NEW n, ReadAndDispatch(n) PROVE HeadersInv' /\ SpeaksInv'
  BY <1>1, <1>4, DispatchHeaders
<1>5. CASE Http1Next /\ UNCHANGED sessionVars
  BY <1>1, <1>5, CodecHttp1Step
<1>6. CASE UNCHANGED <<http1Vars, sessionVars>>
  <2>1. UNCHANGED <<sessionVars, parserVars>>
    BY <1>6 DEF http1Vars
  <2> QED
    BY <2>1, CodecStays
<1>7. CASE UNCHANGED vars
  <2>1. UNCHANGED <<http1Vars, sessionVars>>
    BY <1>7 DEF vars
  <2> QED
    BY <1>6, <2>1
<1>8. CASE Next
  <2>1. \/ ClientAsks
        \/ \E n \in DOMAIN incoming : ReadAndWait(n) \/ ReadAndDispatch(n)
        \/ Http1Next /\ UNCHANGED sessionVars
        \/ UNCHANGED <<http1Vars, sessionVars>>
    BY <1>8 DEF Next
  <2> QED
    BY <1>2, <1>3, <1>4, <1>5, <1>6, <2>1
<1> QED
  BY <1>7, <1>8

LEMMA CodecTypes ==
    ASSUME SessionInv, HeadersInv, SpeaksInv, Http2TypeOK
    PROVE  CodecsTypeOK
<1>1. PICK c \in Nat : ReadInv(c) /\ WireInv(c)
  BY DEF SessionInv
<1>2. PICK e : e = parse.expects /\ e \in {"begin", "head", "body"} /\ FieldsHold(fields, e)
  BY DEF HeadersInv
<1>3. parse.at \in {"rest", "parse", "failed"} /\ (parse.at # "parse" => parse.slice = <<>>)
  BY <1>1 DEF HeadersInv, ReadInv
<1>4. fields.state \in {"Field", "Value", "Done"} /\ fields.sound
  BY <1>2 DEF FieldsHold
<1>5. fields.map # NoMap => fields.map.asserts
  BY <1>2 DEF FieldsHold, MapHolds
<1>6. request.n \in 0..MaxRequests
  <2>1. MaxRequests \in Nat
    BY SessionAssumption
  <2>2. CASE request = NoRequest
    <3>1. request.n = 0
      BY <2>2 DEF NoRequest
    <3> QED
      BY <2>1, <3>1
  <2>3. CASE request # NoRequest
    <3>1. request.n \in Numbers
      BY <1>1, <2>3 DEF WireInv, EncoderInv, Serves
    <3> QED
      BY <2>1, <3>1 DEF Numbers
  <2> QED
    BY <2>2, <2>3
<1>7. reserved.pos = 0 /\ reserved.limit <= Len(reserved.content)
  BY <1>1 DEF WireInv, EncoderInv, IsBuffer
<1>8. Http1TypeOK
  BY <1>3, <1>4, <1>5, <1>6, <1>7 DEF Http1TypeOK, SpeaksInv
<1> QED
  BY <1>8 DEF CodecsTypeOK, SpeaksInv

\* The server codec of HTTP/1 and what read() knows of a connection keep their types: every
\* assertion of completeLastHeader() and of the header map holds, no value comes without a
\* name, the reserved buffer is rewound whenever an encoder returns, and the codec is that
\* of the protocol which the client speaks, however its bytes are cut by the reads.
THEOREM SessionTyped == Spec => []CodecsTypeOK
<1> DEFINE Inv == SessionInv /\ HeadersInv /\ SpeaksInv
<1>1. Init => Inv
  BY InitSession, InitHeaders
<1>2. Inv /\ [Next]_vars => Inv'
  <2> SUFFICES ASSUME Inv, [Next]_vars PROVE Inv'
    OBVIOUS
  <2>1. SessionInv'
    BY SessionStep
  <2>2. HeadersInv' /\ SpeaksInv'
    BY CodecStep
  <2> QED
    BY <2>1, <2>2
<1>3. Inv /\ Http2TypeOK => CodecsTypeOK
  BY CodecTypes
<1> HIDE DEF Inv
<1>4. Spec => []Inv
  BY <1>1, <1>2, PTL DEF Spec
<1>5. Spec => []Http2TypeOK
  BY SessionRunsHttp2, Http2Typed, PTL
<1> QED
  BY <1>3, <1>4, <1>5, PTL

LEMMA FullListLinked ==
    ASSUME NEW m, Linked(m), NEW l, l = Content(m), PathName \notin Names1(l), MethodName \notin Names1(l),
           NEW url, DOMAIN url = StringNames, NEW method,
           NEW r, r = WithValue(HandlePath(m, url, method).map, MethodName, method)
    PROVE  Linked(r) /\ Content(r) = FullList(l, url.text, method)
<1>1. /\ PathName \in Inlines /\ HostName \in Inlines /\ MethodName \in Inlines
      /\ PathName # HostName /\ PathName # MethodName /\ HostName # MethodName
  BY SessionAssumption
<1>2. PICK u : u = url.text
  OBVIOUS
<1>3. PICK b : b = WithHost(l, u, method)
  OBVIOUS
<1>4. PICK p : p = PathOf(u, method)
  OBVIOUS
\* The map with the host, and what is inserted for the path.
<1>5. \E c : \E k : \E v :
         /\ Linked(c) /\ Content(c) = b /\ k.text = PathName /\ DOMAIN v = StringNames /\ v.text = p
         /\ PathName \notin Names1(b) /\ MethodName \notin Names1(b)
         /\ HandlePath(m, url, method).map = InsertByKey(c, k, v).map
  <2>0. PICK k : k = RefTo(PathName) /\ k.text = PathName
    <3>1. RefTo(PathName) = [type |-> "Reference", text |-> PathName, capacity |-> Len(PathName) + 1]
      BY DEF RefTo, Str
    <3>2. RefTo(PathName).text = PathName
      BY <3>1
    <3> QED
      BY <3>2
  <2>1. CASE Absolute(u, method)
    <3>1. PICK c : c = WithValue(m, HostName, <<u[2]>>)
      OBVIOUS
    <3>2. PICK h : h = <<u[2]>>
      OBVIOUS
    <3>3. c = WithValue(m, HostName, h)
      BY <3>1, <3>2
    <3>4. /\ Linked(c) /\ Content(c) = Replaced1(l, HostName, h)
          /\ HostName \notin Names1(l) => Content(c) = Plus(l, HostName, h)
      BY <1>1, <3>3, WithValueLinked
    <3>5. b = Replaced1(l, HostName, h)
      BY <1>3, <2>1, <3>2 DEF WithHost
    <3>6. Names1(b) \subseteq Names1(l) \cup {HostName}
      <4>1. PICK S : l \in Seq(S)
        BY LinkedList
      <4>2. CASE HostName \notin Names1(l)
        <5>1. Names1(Plus(l, HostName, h)) = Names1(l) \cup {HostName}
          BY <4>1, PlusNames
        <5> QED
          BY <3>4, <3>5, <4>2, <5>1
      <4>3. CASE HostName \in Names1(l)
        <5>1. b = [j \in DOMAIN l |-> IF l[j][1] = HostName THEN <<HostName, h>> ELSE l[j]]
          BY <3>5, <4>3 DEF Replaced1
        <5>2. ASSUME NEW j \in DOMAIN b PROVE b[j][1] \in Names1(l) \cup {HostName}
          <6>1. j \in DOMAIN l
            BY <5>1, <5>2
          <6>2. CASE l[j][1] = HostName
            <7>1. b[j] = <<HostName, h>>
              BY <5>1, <6>1, <6>2
            <7> QED
              BY <7>1
          <6>3. CASE l[j][1] # HostName
            <7>1. b[j] = l[j]
              BY <5>1, <6>1, <6>3
            <7> QED
              BY <6>1, <7>1 DEF Names1
          <6> QED
            BY <6>2, <6>3
        <5> QED
          BY <5>2 DEF Names1
      <4> QED
        BY <4>2, <4>3
    <3>7. PICK v : v = SetCopy(EmptyString, UrlPath(u)) /\ DOMAIN v = StringNames /\ v.text = UrlPath(u)
      <4>1. DOMAIN EmptyString = StringNames
        BY DEF EmptyString, Str, StringNames
      <4> QED
        BY <4>1, CopiedText
    <3>8. HandlePath(m, url, method) = InsertByKey(c, k, v)
      BY <1>2, <2>0, <2>1, <3>1, <3>7 DEF HandlePath
    <3>9. p = UrlPath(u)
      BY <1>4, <2>1 DEF PathOf
    <3>10. PathName \notin Names1(b) /\ MethodName \notin Names1(b)
      BY <1>1, <3>6
    <3> QED
      BY <2>0, <3>4, <3>5, <3>7, <3>8, <3>9, <3>10
  <2>2. CASE ~Absolute(u, method)
    <3>1. HandlePath(m, url, method) = InsertByKey(m, k, url)
      BY <1>2, <2>0, <2>2 DEF HandlePath
    <3>2. b = l /\ p = u
      BY <1>3, <1>4, <2>2 DEF WithHost, PathOf
    <3> QED
      BY <1>2, <2>0, <3>1, <3>2
  <2> QED
    BY <2>1, <2>2
<1>6. PICK c, k, v :
         /\ Linked(c) /\ Content(c) = b /\ k.text = PathName /\ DOMAIN v = StringNames /\ v.text = p
         /\ PathName \notin Names1(b) /\ MethodName \notin Names1(b)
         /\ HandlePath(m, url, method).map = InsertByKey(c, k, v).map
  BY <1>5
<1>7. PICK d : d = InsertByKey(c, k, v).map
  OBVIOUS
<1>8. Linked(d) /\ Content(d) = ListedAs(b, PathName, p)
  <2>1. Linked(d) /\ Content(d) = ListedAs(Content(c), k.text, v.text)
    BY <1>6, <1>7, InsertLinked
  <2> QED
    BY <1>6, <2>1
<1>9. KnownAs(PathName) = PathName
  BY <1>1, InlineNames
<1>10. Content(d) = Plus(b, PathName, p)
  BY <1>6, <1>8, <1>9 DEF ListedAs
<1>11. MethodName \notin Names1(Content(d))
  <2>1. PICK S : b \in Seq(S)
    <3>1. \E S : Content(c) \in Seq(S)
      BY <1>6, LinkedList
    <3> QED
      BY <1>6, <3>1
  <2>2. Names1(Plus(b, PathName, p)) = Names1(b) \cup {PathName}
    BY <2>1, PlusNames
  <2> QED
    BY <1>1, <1>6, <1>10, <2>2
<1>12. r = WithValue(d, MethodName, method)
  BY <1>6, <1>7
<1>13. Linked(r) /\ Content(r) = Plus(Content(d), MethodName, method)
  BY <1>1, <1>8, <1>11, <1>12, WithValueLinked
<1>14. Content(r) = FullList(l, u, method)
  BY <1>3, <1>4, <1>10, <1>13, Zenon DEF FullList
<1> QED
  BY <1>2, <1>13, <1>14

-----------------------------------------------------------------------------
(* Where the tokens of a request are in what a client sends *)

AreRequests(rs) == Len(rs) \in Nat /\ \A j \in 1..Len(rs) : IsRequest(rs[j])

Texts(rs) == [j \in 1..Len(rs) |-> Tokens(j, rs[j])]

\* What has been sent when there were a requests, and how long it is.
SentBy(rs, a) == Joint(Texts(rs), a)
Ends(rs, a) == Len(SentBy(rs, a))

OfRequest(t, i) ==
    /\ Len(t) \in Nat /\ Len(t) >= 2
    /\ t[1].kind = "begin" /\ \A y \in 1..Len(t) : t[y].kind = "begin" => y = 1
    /\ \A y \in 1..Len(t) : t[y].of = i
    /\ t[Len(t)].kind = "end"

LEMMA TextOf ==
    ASSUME NEW i, NEW r, IsRequest(r), NEW t, t = Tokens(i, r)
    PROVE  OfRequest(t, i)
<1>1. t \in Seq(AllOf(i, Args(r))) /\ OneBegin(t)
  BY TokensType
<1>2. PICK h \in Nat, b \in Nat : HeadLen(i, r) = h + 1 /\ BodyLen(i, r) = b
  <2>1. PICK u \in Nat, v \in Nat, w \in Nat, x \in Nat :
            /\ Len(r.url) = u /\ Len(AllHeaders(i, r.headers)) = v
            /\ Len(r.body) = w /\ Len(AllHeaders(i, r.trailers)) = x
    BY TokensAt
  <2>2. HeadLen(i, r) = (u + v) + 1 /\ BodyLen(i, r) = w + x /\ u + v \in Nat /\ w + x \in Nat
    BY <2>1 DEF HeadLen, BodyLen
  <2> QED
    BY <2>2
<1>3. PICK n \in Nat : n = Len(t) /\ n >= 2
  <2>1. Len(t) = (h + 1) + 1 + b + 1
    BY <1>2, TokensAt
  <2> QED
    BY <2>1
<1>4. t[n] = Token(i, "end", <<>>)
  BY <1>3, TokensAt
<1>5. t[n].kind = "end"
  BY <1>4 DEF Token
<1>6. ASSUME NEW y \in 1..n PROVE t[y].of = i
  <2>1. t[y] \in AllOf(i, Args(r))
    BY <1>1, <1>3, ElementOfSeq
  <2> QED
    BY <2>1 DEF AllOf
<1>7. ASSUME NEW y \in 1..n, t[y].kind = "begin" PROVE y = 1
  <2>1. y # 1 => y \in 2..n
    OBVIOUS
  <2> QED
    BY <1>1, <1>3, <1>7, <2>1 DEF OneBegin
<1> QED
  BY <1>1, <1>3, <1>5, <1>6, <1>7 DEF OfRequest, OneBegin

LEMMA TextsType ==
    ASSUME NEW rs, AreRequests(rs), NEW q, q = Texts(rs)
    PROVE  /\ Len(q) = Len(rs) /\ Len(rs) \in Nat
           /\ \A j \in 1..Len(rs) : q[j] = Tokens(j, rs[j])
           /\ \E S : q \in Seq(Seq(S))
<1>1. PICK L \in Nat : L = Len(rs)
  BY DEF AreRequests
<1>2. q = [j \in 1..L |-> Tokens(j, rs[j])]
  BY <1>1 DEF Texts
<1>3. PICK S : S = UNION {AllOf(j, Args(rs[j])) : j \in 1..L}
  OBVIOUS
<1>4. ASSUME NEW j \in 1..L PROVE Tokens(j, rs[j]) \in Seq(S)
  <2>1. PICK r : r = rs[j] /\ IsRequest(r)
    BY <1>1 DEF AreRequests
  <2>2. Tokens(j, r) \in Seq(AllOf(j, Args(r)))
    BY <2>1, TokensType
  <2>3. PICK A : A = AllOf(j, Args(r))
    OBVIOUS
  <2>4. A \subseteq S
    BY <1>3, <2>1, <2>3
  <2>5. PICK t \in Seq(A) : t = Tokens(j, r)
    BY <2>2, <2>3
  <2>6. t \in Seq(S)
    BY <2>4, Wider
  <2> QED
    BY <2>1, <2>5, <2>6
<1>5. q \in Seq(Seq(S)) /\ Len(q) = L
  <2>1. q \in [1..L -> Seq(S)]
    BY <1>2, <1>4
  <2>2. \A f \in [1..L -> Seq(S)] : f \in Seq(Seq(S)) /\ Len(f) = L
    OBVIOUS
  <2> QED
    BY <2>1, <2>2
<1> QED
  BY <1>1, <1>2, <1>5

LEMMA EndsNext ==
    ASSUME NEW rs, AreRequests(rs), NEW j \in 1..Len(rs)
    PROVE  /\ Ends(rs, j - 1) \in Nat /\ Ends(rs, j) \in Nat /\ Len(Tokens(j, rs[j])) \in Nat
           /\ Len(Tokens(j, rs[j])) >= 2
           /\ Ends(rs, j) = Ends(rs, j - 1) + Len(Tokens(j, rs[j]))
<1>1. PICK q : q = Texts(rs)
  OBVIOUS
<1>2. PICK S : q \in Seq(Seq(S))
  BY <1>1, TextsType
<1>3. PICK L \in Nat : L = Len(rs) /\ L = Len(q) /\ j \in 1..L
  BY <1>1, TextsType
<1>4. PICK r, t : r = rs[j] /\ IsRequest(r) /\ t = Tokens(j, r) /\ t = q[j]
  BY <1>1, TextsType DEF AreRequests
<1>5. Len(t) \in Nat /\ Len(t) >= 2
  <2>1. OfRequest(t, j)
    BY <1>4, TextOf
  <2> QED
    BY <2>1 DEF OfRequest
<1>6. Start(q, j) \in Nat /\ Len(Joint(q, j)) = Start(q, j) + Len(q[j])
  <2>1. j \in 1..Len(q)
    BY <1>3
  <2> QED
    BY <1>2, <2>1, JointGrows DEF Grown
<1>7. Ends(rs, j - 1) = Start(q, j) /\ Ends(rs, j) = Len(Joint(q, j))
  BY <1>1 DEF Ends, SentBy, Start
<1> QED
  BY <1>4, <1>5, <1>6, <1>7

LEMMA NothingSent == ASSUME NEW rs, AreRequests(rs) PROVE SentBy(rs, 0) = <<>> /\ Ends(rs, 0) = 0
<1>1. PICK q : q = Texts(rs)
  OBVIOUS
<1>2. PICK S : q \in Seq(Seq(S))
  BY <1>1, TextsType
<1>3. Joint(q, 0) = <<>>
  BY <1>2, JointNext
<1> QED
  BY <1>1, <1>3 DEF Ends, SentBy

\* What is sent is a sequence, and grows with every request.
LEMMA SentMore ==
    ASSUME NEW rs, AreRequests(rs), NEW a \in 0..Len(rs)
    PROVE  /\ Ends(rs, a) \in Nat /\ \E S : SentBy(rs, a) \in Seq(S)
           /\ a < Len(rs) => SentBy(rs, a + 1) = SentBy(rs, a) \o Tokens(a + 1, rs[a + 1])
<1>1. PICK q : q = Texts(rs)
  OBVIOUS
<1>2. PICK S : q \in Seq(Seq(S))
  BY <1>1, TextsType
<1>3. PICK L \in Nat : L = Len(rs) /\ L = Len(q) /\ a \in 0..L
  BY <1>1, TextsType
<1>4. a \in 0..Len(q)
  BY <1>3
<1>5. Joint(q, a) \in Seq(S) /\ Len(Joint(q, a)) \in Nat /\ (a < Len(q) => Joint(q, a + 1) = Joint(q, a) \o q[a + 1])
  BY <1>2, <1>4, JointNext
<1>6. a < L => q[a + 1] = Tokens(a + 1, rs[a + 1])
  <2>1. a < L => a + 1 \in 1..Len(rs)
    BY <1>3
  <2>2. \A j \in 1..Len(rs) : q[j] = Tokens(j, rs[j])
    BY <1>1, TextsType
  <2> QED
    BY <2>1, <2>2
<1> QED
  BY <1>1, <1>3, <1>5, <1>6 DEF Ends, SentBy

LEMMA EndsGrow ==
    ASSUME NEW rs, AreRequests(rs), NEW a \in 0..Len(rs), NEW i \in 0..a
    PROVE  Ends(rs, i) \in Nat /\ Ends(rs, a) \in Nat /\ Ends(rs, i) <= Ends(rs, a)
<1>1. PICK L \in Nat : L = Len(rs) /\ a \in 0..L
  BY DEF AreRequests
<1>2. i \in 0..Len(rs)
  BY <1>1
<1>3. Ends(rs, i) \in Nat /\ Ends(rs, a) \in Nat
  BY <1>2, SentMore
<1>4. CASE i = 0
  BY <1>3, <1>4, NothingSent
<1>5. CASE i # 0
  <2>1. PICK q : q = Texts(rs)
    OBVIOUS
  <2>2. PICK S : q \in Seq(Seq(S))
    BY <2>1, TextsType
  <2>3. i \in 1..a /\ a \in 0..Len(q)
    BY <1>5, <2>1, TextsType
  <2>4. Len(Joint(q, i)) <= Len(Joint(q, a))
    BY <2>2, <2>3, JointAt
  <2> QED
    BY <1>3, <2>1, <2>4 DEF Ends, SentBy
<1> QED
  BY <1>4, <1>5

\* The y-th token of the i-th request.
LEMMA TokenAt ==
    ASSUME NEW rs, AreRequests(rs), NEW a \in 0..Len(rs), NEW i \in 1..a,
           NEW y \in 1..Len(Tokens(i, rs[i])), NEW x, x = Ends(rs, i - 1) + y
    PROVE  x \in 1..Ends(rs, a) /\ SentBy(rs, a)[x] = Tokens(i, rs[i])[y]
<1>1. PICK L \in Nat : L = Len(rs) /\ a \in 0..L
  BY DEF AreRequests
<1>2. i \in 1..Len(rs) /\ i \in 0..a
  BY <1>1
<1>3. PICK s \in Nat, n \in Nat, e \in Nat, z \in Nat :
          /\ s = Ends(rs, i - 1) /\ n = Len(Tokens(i, rs[i])) /\ e = Ends(rs, i) /\ z = Ends(rs, a)
          /\ e = s + n
  BY <1>2, EndsNext, SentMore
<1>4. e <= z
  <2>1. Ends(rs, i) <= Ends(rs, a)
    BY <1>2, EndsGrow
  <2> QED
    BY <1>3, <2>1
<1>5. x \in 1..z
  <2>1. y \in 1..n /\ x = s + y
    BY <1>3
  <2>2. s \in Nat /\ n \in Nat /\ z \in Nat /\ s + n <= z
    BY <1>3, <1>4
  <2> QED
    BY <2>1, <2>2
<1>6. SentBy(rs, a)[x] = Tokens(i, rs[i])[y]
  <2>1. PICK q : q = Texts(rs)
    OBVIOUS
  <2>2. PICK S : q \in Seq(Seq(S))
    BY <2>1, TextsType
  <2>3. a \in 0..Len(q) /\ q[i] = Tokens(i, rs[i])
    BY <1>2, <2>1, TextsType
  <2>4. \A m \in 1..Len(q[i]) : Joint(q, a)[Start(q, i) + m] = q[i][m]
    BY <2>2, <2>3, JointAt
  <2>5. Joint(q, a)[Start(q, i) + y] = q[i][y]
    BY <2>3, <2>4
  <2>6. Start(q, i) = Ends(rs, i - 1)
    BY <2>1 DEF Start, Ends, SentBy
  <2> QED
    BY <2>1, <2>3, <2>5, <2>6 DEF SentBy
<1> QED
  BY <1>3, <1>5, <1>6

LEMMA TokenIs ==
    ASSUME NEW rs, AreRequests(rs), NEW a \in 0..Len(rs), NEW x \in 1..Ends(rs, a)
    PROVE  \E i \in 1..a : \E y \in 1..Len(Tokens(i, rs[i])) : x = Ends(rs, i - 1) + y
<1>1. PICK q : q = Texts(rs)
  OBVIOUS
<1>2. PICK S : q \in Seq(Seq(S))
  BY <1>1, TextsType
<1>3. PICK L \in Nat : L = Len(rs) /\ L = Len(q) /\ a \in 0..L
  BY <1>1, TextsType
<1>4. a \in 0..Len(q) /\ x \in 1..Len(Joint(q, a))
  BY <1>1, <1>3 DEF Ends, SentBy
<1>5. PICK i \in 1..a : \E m \in 1..Len(q[i]) : x = Start(q, i) + m
  BY <1>2, <1>4, JointOf
<1>6. PICK m \in 1..Len(q[i]) : x = Start(q, i) + m
  BY <1>5
<1>7. q[i] = Tokens(i, rs[i])
  <2>1. i \in 1..Len(rs)
    BY <1>3
  <2> QED
    BY <1>1, <2>1, TextsType
<1>8. Start(q, i) = Ends(rs, i - 1)
  BY <1>1 DEF Start, Ends, SentBy
<1> QED
  BY <1>6, <1>7, <1>8

-----------------------------------------------------------------------------
(* What the decoder is told of a request *)

Telling(kind, content, end) == [kind |-> kind, content |-> content, end |-> end]

Valid(r) == Absolute(r.url, r.method) => ValidUrl(r.url)

\* The events but for the content of the headers.
IsEvents(E, r) ==
    IF ~Valid(r) THEN E = <<>>
    ELSE /\ Len(E) = (IF HasBody(r) THEN Len(r.body) + 2 ELSE 1)
         /\ E = UpTo(E, Len(E))
         /\ E[1] = Telling("headers", E[1].content, ~HasBody(r))
         /\ HasBody(r) => /\ \A k \in 1..Len(r.body) : E[k + 1] = Telling("data", <<r.body[k]>>, FALSE)
                          /\ E[Len(r.body) + 2] = Telling("data", <<>>, TRUE)

Spread(E, a, s, b, n) ==
    /\ n \in Nat /\ s = [i \in 1..n |-> s[i]] /\ E = <<a>> \o s \o <<b>>

LEMMA SpreadAt ==
    ASSUME NEW E, NEW a, NEW s, NEW b, NEW n, Spread(E, a, s, b, n)
    PROVE  /\ Len(E) = n + 2 /\ E = UpTo(E, Len(E)) /\ E[1] = a /\ E[n + 2] = b
           /\ \A k \in 1..n : E[k + 1] = s[k]
<1>1. PICK S : S = {a, b} \cup {s[i] : i \in 1..n}
  OBVIOUS
<1>2. n \in Nat /\ s = [i \in 1..n |-> s[i]]
  BY DEF Spread
<1>3. s \in Seq(S) /\ Len(s) = n
  <2>1. s \in [1..n -> S]
    BY <1>1, <1>2
  <2>2. \A f \in [1..n -> S] : f \in Seq(S) /\ Len(f) = n
    BY <1>2
  <2> QED
    BY <2>1, <2>2
<1>4. PICK x \in Seq(S), z \in Seq(S) : x = <<a>> /\ Len(x) = 1 /\ x[1] = a /\ z = <<b>> /\ Len(z) = 1 /\ z[1] = b
  <2>1. <<a>> \in Seq(S) /\ <<b>> \in Seq(S)
    BY <1>1
  <2>2. Len(<<a>>) = 1 /\ <<a>>[1] = a /\ Len(<<b>>) = 1 /\ <<b>>[1] = b
    OBVIOUS
  <2> QED
    BY <2>1, <2>2
<1>5. E = (x \o s) \o z
  BY <1>4 DEF Spread
<1>6. PICK w \in Seq(S) : w = x \o s
  <2>1. x \o s \in Seq(S)
    BY <1>3
  <2> QED
    BY <2>1
<1>7. Len(w) = 1 + n /\ \A k \in 1..(1 + n) : w[k] = IF k <= 1 THEN x[k] ELSE s[k - 1]
  BY <1>3, <1>4, <1>6, ConcatProperties
<1>8. E \in Seq(S) /\ Len(E) = (1 + n) + 1
      /\ \A k \in 1..((1 + n) + 1) : E[k] = IF k <= 1 + n THEN w[k] ELSE z[k - (1 + n)]
  <2>1. E = w \o z
    BY <1>5, <1>6
  <2>2. w \o z \in Seq(S)
    OBVIOUS
  <2> QED
    BY <1>4, <1>7, <2>1, <2>2, ConcatProperties
<1>9. E[1] = a
  <2>1. 1 \in 1..((1 + n) + 1) /\ 1 <= 1 + n /\ 1 \in 1..(1 + n)
    BY <1>2
  <2> QED
    BY <1>4, <1>7, <1>8, <2>1
<1>10. E[n + 2] = b
  <2>1. n + 2 \in 1..((1 + n) + 1) /\ ~(n + 2 <= 1 + n) /\ (n + 2) - (1 + n) = 1
    BY <1>2
  <2> QED
    BY <1>4, <1>8, <2>1
<1>11. ASSUME NEW k \in 1..n PROVE E[k + 1] = s[k]
  <2>1. k + 1 \in 1..((1 + n) + 1) /\ k + 1 <= 1 + n /\ k + 1 \in 1..(1 + n) /\ ~(k + 1 <= 1) /\ (k + 1) - 1 = k
    BY <1>2
  <2> QED
    BY <1>7, <1>8, <2>1
<1>12. E = UpTo(E, Len(E)) /\ Len(E) = n + 2
  <2>1. E = [i \in 1..Len(E) |-> E[i]]
    BY <1>8
  <2>2. Len(E) = n + 2
    BY <1>2, <1>8
  <2> QED
    BY <2>1, <2>2 DEF UpTo
<1> QED
  BY <1>9, <1>10, <1>11, <1>12

\* The list of a request, as the events say it.
WholeList(r) ==
    (IF Absolute(r.url, r.method)
     THEN Replaced1(Listed(r.headers, Len(r.headers)), HostName, <<r.url[2]>>)
     ELSE Listed(r.headers, Len(r.headers)))
    \o <<<<PathName, PathOf(r.url, r.method)>>, <<MethodName, r.method>>>>

LEMMA EventsAre ==
    ASSUME NEW r, IsRequest(r), NEW E, E = RequestEvents(r)
    PROVE  IsEvents(E, r) /\ (Valid(r) => E # <<>> /\ E[1].content = WholeList(r))
<1>1. PICK all : all = WholeList(r)
  OBVIOUS
<1>2. E = IF Absolute(r.url, r.method) /\ ~ValidUrl(r.url) THEN <<>>
          ELSE IF HasBody(r)
          THEN <<Telling("headers", all, FALSE)>>
               \o [i \in DOMAIN r.body |-> Telling("data", <<r.body[i]>>, FALSE)]
               \o <<Telling("data", <<>>, TRUE)>>
          ELSE <<Telling("headers", all, TRUE)>>
  BY <1>1 DEF RequestEvents, WholeList, PathOf, Telling
<1>3. CASE ~Valid(r)
  BY <1>2, <1>3 DEF Valid, IsEvents
<1>4. CASE Valid(r) /\ HasBody(r)
  <2>1. PICK n \in Nat : n = Len(r.body) /\ DOMAIN r.body = 1..n
    BY DEF IsRequest, IsText
  <2>2. PICK a : a = Telling("headers", all, FALSE)
    OBVIOUS
  <2>3. PICK b : b = Telling("data", <<>>, TRUE)
    OBVIOUS
  <2>4. PICK s : s = [i \in 1..n |-> Telling("data", <<r.body[i]>>, FALSE)]
    OBVIOUS
  <2>5. Spread(E, a, s, b, n)
    <3>1. E = <<a>> \o s \o <<b>>
      BY <1>2, <1>4, <2>1, <2>2, <2>3, <2>4 DEF Valid
    <3>2. s = [i \in 1..n |-> s[i]]
      BY <2>4
    <3> QED
      BY <3>1, <3>2 DEF Spread
  <2>6. /\ Len(E) = n + 2 /\ E = UpTo(E, Len(E)) /\ E[1] = a /\ E[n + 2] = b
        /\ \A k \in 1..n : E[k + 1] = s[k]
    BY <2>5, SpreadAt
  <2>7. \A k \in 1..n : E[k + 1] = Telling("data", <<r.body[k]>>, FALSE)
    BY <2>4, <2>6
  <2>8. a.content = all
    BY <2>2 DEF Telling
  <2>9. (~HasBody(r)) = FALSE
    BY <1>4
  <2>10. E # <<>>
    <3>1. Len(E) # 0
      BY <2>1, <2>6
    <3>2. Len(<<>>) = 0
      OBVIOUS
    <3> QED
      BY <3>1, <3>2
  <2>11. E[1] = Telling("headers", E[1].content, ~HasBody(r))
    BY <2>2, <2>6, <2>8, <2>9
  <2>12. IsEvents(E, r)
    BY <1>4, <2>1, <2>3, <2>6, <2>7, <2>11 DEF IsEvents
  <2> QED
    BY <1>1, <2>6, <2>8, <2>10, <2>12
<1>5. CASE Valid(r) /\ ~HasBody(r)
  <2>1. PICK a : a = Telling("headers", all, TRUE)
    OBVIOUS
  <2>2. E = <<a>>
    BY <1>2, <1>5, <2>1 DEF Valid
  <2>3. Len(E) = 1 /\ E[1] = a /\ E # <<>> /\ E = [i \in 1..1 |-> E[i]]
    BY <2>2
  <2>4. a.content = all
    BY <2>1 DEF Telling
  <2>5. (~HasBody(r)) = TRUE
    BY <1>5
  <2>6. E[1] = Telling("headers", E[1].content, ~HasBody(r))
    BY <2>1, <2>3, <2>4, <2>5
  <2>7. E = UpTo(E, Len(E))
    BY <2>3 DEF UpTo
  <2>8. IsEvents(E, r)
    BY <1>5, <2>3, <2>6, <2>7 DEF IsEvents
  <2> QED
    BY <1>1, <2>3, <2>4, <2>8
<1> QED
  BY <1>3, <1>4, <1>5

\* The list is what the map holds when all the headers are in it.
LEMMA WholeListIs ==
    ASSUME NEW r, NEW l, l = Listed(r.headers, Len(r.headers)), Proper(l)
    PROVE  WholeList(r) = FullList(l, r.url, r.method)
<1>1. PICK S : l \in Seq(S)
  BY DEF Proper
<1>2. PICK w : w = WithHost(l, r.url, r.method)
  OBVIOUS
<1>3. \E U : w \in Seq(U)
  <2>1. CASE ~Absolute(r.url, r.method)
    BY <1>1, <1>2, <2>1 DEF WithHost
  <2>2. CASE Absolute(r.url, r.method)
    <3>1. PICK v : v = <<r.url[2]>>
      OBVIOUS
    <3>2. w = Replaced1(l, HostName, v)
      BY <1>2, <2>2, <3>1 DEF WithHost
    <3>3. CASE HostName \in Names1(l)
      <4>1. PICK n \in Nat : n = Len(l) /\ DOMAIN l = 1..n
        BY <1>1, LenProperties
      <4>2. w = [i \in 1..n |-> IF l[i][1] = HostName THEN <<HostName, v>> ELSE l[i]]
        BY <3>2, <3>3, <4>1 DEF Replaced1
      <4>3. PICK U : U = {w[i] : i \in 1..n}
        OBVIOUS
      <4>4. w \in [1..n -> U]
        BY <4>2, <4>3
      <4>5. \A f \in [1..n -> U] : f \in Seq(U)
        BY <4>1
      <4> QED
        BY <4>4, <4>5
    <3>4. CASE HostName \notin Names1(l)
      <4>1. w = Plus(l, HostName, v)
        BY <3>2, <3>4 DEF Replaced1, Plus
      <4> QED
        BY <1>1, <4>1, PlusNames
    <3> QED
      BY <3>3, <3>4
  <2> QED
    BY <2>1, <2>2
<1>4. PICK U : w \in Seq(U)
  BY <1>3
<1>5. PICK p : p = PathOf(r.url, r.method)
  OBVIOUS
<1>6. Plus(Plus(w, PathName, p), MethodName, r.method) = w \o <<<<PathName, p>>, <<MethodName, r.method>>>>
  BY <1>4, TwoMore
<1>7. WholeList(r) = w \o <<<<PathName, p>>, <<MethodName, r.method>>>>
  BY <1>2, <1>5 DEF WholeList, WithHost
<1> QED
  BY <1>2, <1>5, <1>6, <1>7 DEF FullList

-----------------------------------------------------------------------------
(* A request that is being parsed *)

\* y tokens of the request i have come, the last of them before its headersEnd.
HeadAt(i, r, y, f, q, ev) ==
    \E k \in 0..Len(r.url) : \E x \in 0..Len(AllHeaders(i, r.headers)) :
        /\ y = 1 + k + x /\ (x # 0 => k = Len(r.url))
        /\ IsOwn(q.url) /\ q.url.text = UpTo(r.url, k) /\ "url" \in DOMAIN q
        /\ FieldsAt(i, f, r.headers, x) /\ f.deferred = NoMap
        /\ ev = <<>>

\* The last of them is its headersEnd, or comes after it.
BodyAt(E, i, r, y, f, ev) ==
    \E k \in 0..Len(r.body) : \E x \in 0..Len(AllHeaders(i, r.trailers)) :
        /\ y = HeadLen(i, r) + 1 + k + x /\ (x # 0 => k = Len(r.body))
        /\ DOMAIN f = FieldNames /\ f.state = "Done" /\ E # <<>>
        /\ IF HasBody(r) THEN f.deferred = NoMap /\ ev = UpTo(E, 1 + k)
           ELSE f.deferred # NoMap /\ ev = <<>> /\ Content(f.deferred) = E[1].content

LEMMA HeaderKinds ==
    ASSUME NEW i, NEW hs, AreHeaders(hs), NEW x \in 1..Len(AllHeaders(i, hs))
    PROVE  AllHeaders(i, hs)[x].kind \in {"field", "value"}
<1>1. PICK q : q = HeaderSeq(i, hs)
  OBVIOUS
<1>2. PICK S : q \in Seq(Seq(S))
  BY <1>1, HeaderSeqType
<1>3. PICK L \in Nat : L = Len(hs) /\ Len(q) = L /\ Joint(q, L) = AllHeaders(i, hs)
  BY <1>1, HeaderSeqType
<1>4. L \in 0..Len(q) /\ x \in 1..Len(Joint(q, L))
  BY <1>3
<1>5. PICK j \in 1..L : \E m \in 1..Len(q[j]) : x = Start(q, j) + m
  BY <1>2, <1>4, JointOf
<1>6. PICK m \in 1..Len(q[j]) : x = Start(q, j) + m
  BY <1>5
<1>7. PICK h : h = hs[j] /\ IsHeader(h) /\ q[j] = HeaderTokens(i, h)
  <2>1. j \in 1..Len(hs)
    BY <1>3
  <2> QED
    BY <1>1, <2>1, HeaderSeqType
<1>8. AllHeaders(i, hs)[x] = q[j][m]
  <2>1. \A z \in 1..Len(q[j]) : Joint(q, L)[Start(q, j) + z] = q[j][z]
    BY <1>2, <1>4, JointAt
  <2> QED
    BY <1>3, <1>6, <2>1
<1>9. PICK t : t = q[j]
  OBVIOUS
<1>10. PICK N \in Nat, M \in Nat \ {0} : N = Len(h.name) /\ M = ValueCuts(h.value)
  BY <1>7, HeaderTokensAt DEF IsHeader
<1>11. /\ Len(t) = N + M
       /\ \A y \in 1..N : t[y] = Token(i, "field", <<h.name[y]>>)
       /\ \A y \in 1..M : t[N + y] = Token(i, "value", PieceAt(h.value, y))
  <2>1. IsText(h.name) /\ IsText(h.value) /\ t = HeaderTokens(i, h)
    BY <1>7, <1>9 DEF IsHeader
  <2> QED
    BY <1>10, <2>1, HeaderTokensAt
<1>12. CASE m <= N
  <2>1. m \in 1..N
    BY <1>9, <1>11, <1>12
  <2>2. t[m] = Token(i, "field", <<h.name[m]>>)
    BY <1>11, <2>1
  <2> QED
    BY <1>8, <1>9, <2>2 DEF Token
<1>13. CASE ~(m <= N)
  <2>1. PICK y \in 1..M : m = N + y
    <3>1. m \in 1..(N + M)
      BY <1>9, <1>11
    <3>2. m - N \in 1..M /\ m = N + (m - N)
      BY <1>10, <1>13, <3>1
    <3> QED
      BY <3>2
  <2>2. t[m] = Token(i, "value", PieceAt(h.value, y))
    BY <1>11, <2>1
  <2> QED
    BY <1>8, <1>9, <2>2 DEF Token
<1> QED
  BY <1>12, <1>13

\* Neither callback for headers touches what is deferred.
LEMMA DeferredStays ==
    ASSUME NEW f, DOMAIN f = FieldNames, NEW text
    PROVE  /\ CompleteLastHeader(f).deferred = f.deferred /\ DOMAIN CompleteLastHeader(f) = FieldNames
           /\ OnHeaderField(f, text).deferred = f.deferred
           /\ OnHeaderValue(f, text).deferred = f.deferred
           /\ f.state = "Done" => OnHeaderField(f, text) = f /\ OnHeaderValue(f, text) = f
<1>1. PICK c : c = CompleteLastHeader(f)
  OBVIOUS
<1>2. c.deferred = f.deferred /\ DOMAIN c = FieldNames
  <2>1. PICK r : r = InsertByKey(f.map, LowerCase(f.field), f.value)
    OBVIOUS
  <2>2. PICK g : g = IF IsEmpty(f.field) THEN f
                     ELSE [f EXCEPT !.map = r.map, !.field = r.key, !.value = r.value]
    OBVIOUS
  <2>3. DOMAIN g = FieldNames /\ g.deferred = f.deferred
    BY <2>2 DEF FieldNames
  <2>4. PICK b : b = (g.sound /\ IsEmpty(g.field) /\ IsEmpty(g.value))
    OBVIOUS
  <2>5. c = [g EXCEPT !.state = "Field", !.sound = b]
    BY <1>1, <2>1, <2>2, <2>4 DEF CompleteLastHeader
  <2> QED
    BY <2>3, <2>5 DEF FieldNames
<1>3. OnHeaderField(f, text).deferred = f.deferred
  <2>1. PICK g : g = IF f.state = "Value" THEN c ELSE f
    OBVIOUS
  <2>2. DOMAIN g = FieldNames /\ g.deferred = f.deferred
    BY <1>2, <2>1
  <2>3. PICK s : s = AppendTo(g.field, text)
    OBVIOUS
  <2>4. OnHeaderField(f, text) = IF f.state = "Done" THEN f ELSE [g EXCEPT !.field = s]
    BY <1>1, <2>1, <2>3 DEF OnHeaderField
  <2>5. [g EXCEPT !.field = s].deferred = g.deferred
    BY <2>2 DEF FieldNames
  <2> QED
    BY <2>2, <2>4, <2>5
<1>4. OnHeaderValue(f, text).deferred = f.deferred
  <2>1. PICK s : s = AppendTo(f.value, text)
    OBVIOUS
  <2>2. OnHeaderValue(f, text) = IF f.state = "Done" THEN f ELSE [f EXCEPT !.state = "Value", !.value = s]
    BY <2>1 DEF OnHeaderValue
  <2>3. [f EXCEPT !.state = "Value", !.value = s].deferred = f.deferred
    BY DEF FieldNames
  <2> QED
    BY <2>2, <2>3
<1>5. f.state = "Done" => OnHeaderField(f, text) = f /\ OnHeaderValue(f, text) = f
  BY DEF OnHeaderField, OnHeaderValue
<1> QED
  BY <1>1, <1>2, <1>3, <1>4, <1>5

LEMMA FieldsDomain ==
    ASSUME NEW i, NEW f, NEW hs, NEW x, FieldsAt(i, f, hs, x)
    PROVE  DOMAIN f = FieldNames /\ f.state # "Done"
BY DEF FieldsAt, Fresh, HeaderAt, Collects

LEMMA CutAt ==
    ASSUME NEW i, NEW kind, NEW text, IsText(text)
    PROVE  /\ Len(Cut(i, kind, text)) = Len(text)
           /\ \A k \in 1..Len(text) : Cut(i, kind, text)[k] = Token(i, kind, <<text[k]>>)
<1>1. PICK n \in Nat : n = Len(text) /\ DOMAIN text = 1..n
  BY DEF IsText
<1>2. PICK T : T = {Token(i, kind, <<text[k]>>) : k \in 1..n}
  OBVIOUS
<1>3. PICK s : s = [k \in 1..n |-> Token(i, kind, <<text[k]>>)]
  OBVIOUS
<1>4. s \in [1..n -> T] /\ \A k \in 1..n : s[k] = Token(i, kind, <<text[k]>>)
  BY <1>2, <1>3
<1>5. Len(s) = n
  <2>1. \A f \in [1..n -> T] : Len(f) = n
    BY <1>1
  <2> QED
    BY <1>4, <2>1
<1>6. Cut(i, kind, text) = s
  BY <1>1, <1>3 DEF Cut
<1> QED
  BY <1>1, <1>4, <1>5, <1>6

\* What the next token before the headersEnd, and the headersEnd, find.
TakesHead(i, r, y, f, q, ev, t) ==
    \/ t.kind = "url" /\ \A u : u = AppendTo(q.url, t.arg) => HeadAt(i, r, y + 1, f, [q EXCEPT !.url = u], ev)
    \/ t.kind = "field" /\ HeadAt(i, r, y + 1, OnHeaderField(f, t.arg), q, ev)
    \/ t.kind = "value" /\ HeadAt(i, r, y + 1, OnHeaderValue(f, t.arg), q, ev)
    \/ /\ t.kind = "headersEnd" /\ t.arg = r /\ y + 1 = HeadLen(i, r) + 1 /\ ev = <<>>
       /\ IsOwn(q.url) /\ q.url.text = r.url
       /\ Fresh(CompleteLastHeader(f), Listed(r.headers, Len(r.headers)))
       /\ CompleteLastHeader(f).deferred = NoMap

LEMMA UrlWhole ==
    ASSUME NEW u, IsText(u), NEW k, k = Len(u)
    PROVE  UpTo(u, k) = u
BY DEF UpTo, IsText

LEMMA HeadNext ==
    ASSUME NEW i, NEW r, IsRequest(r), NEW y, NEW f, NEW q, NEW ev, HeadAt(i, r, y, f, q, ev),
           NEW t, t = Tokens(i, r)[y + 1]
    PROVE  TakesHead(i, r, y, f, q, ev, t)
<1>1. PICK w : w = Tokens(i, r)
  OBVIOUS
<1>2. PICK U \in Nat, H \in Nat : U = Len(r.url) /\ H = Len(AllHeaders(i, r.headers))
  BY TokensAt
<1>3. /\ Embeds(w, Cut(i, "url", r.url), 1) /\ Embeds(w, AllHeaders(i, r.headers), 1 + Len(r.url))
      /\ w[HeadLen(i, r) + 1] = Token(i, "headersEnd", r)
  BY <1>1, TokensAt
<1>4. PICK k \in 0..U, x \in 0..H :
        /\ y = 1 + k + x /\ (x # 0 => k = U)
        /\ IsOwn(q.url) /\ q.url.text = UpTo(r.url, k) /\ "url" \in DOMAIN q
        /\ FieldsAt(i, f, r.headers, x) /\ f.deferred = NoMap
        /\ ev = <<>>
  BY <1>2 DEF HeadAt
<1>5. IsText(r.url) /\ AreHeaders(r.headers)
  BY DEF IsRequest
<1>6. DOMAIN f = FieldNames
  BY <1>4, FieldsDomain
<1>7. CASE k < U
  <2>1. x = 0 /\ k + 1 \in 1..U /\ y + 1 = 1 + (k + 1) /\ k \in Nat
    BY <1>4, <1>7
  <2>2. PICK c : c = Cut(i, "url", r.url)
    OBVIOUS
  <2>3. Len(c) = U /\ c[k + 1] = Token(i, "url", <<r.url[k + 1]>>)
    BY <1>2, <1>5, <2>1, <2>2, CutAt
  <2>4. w[1 + (k + 1)] = c[k + 1]
    BY <1>3, <2>1, <2>2, <2>3 DEF Embeds
  <2>5. t = Token(i, "url", <<r.url[k + 1]>>)
    BY <1>1, <2>1, <2>3, <2>4
  <2>6. t.kind = "url" /\ t.arg = <<r.url[k + 1]>>
    BY <2>5 DEF Token
  <2>7. ASSUME NEW u, u = AppendTo(q.url, t.arg) PROVE HeadAt(i, r, y + 1, f, [q EXCEPT !.url = u], ev)
    <3>1. IsOwn(u) /\ u.text = q.url.text \o <<r.url[k + 1]>>
      BY <1>4, <2>6, <2>7, AppendedText
    <3>2. u.text = UpTo(r.url, k + 1)
      BY <1>4, <2>1, <3>1, UpToMore
    <3>3. PICK g : g = [q EXCEPT !.url = u]
      OBVIOUS
    <3>4. g.url = u /\ "url" \in DOMAIN g
      BY <1>4, <3>3
    <3>5. PICK a \in 0..U : a = k + 1
      BY <2>1
    <3>6. y + 1 = 1 + a + x /\ (x # 0 => a = U)
      BY <2>1, <3>5
    <3>7. HeadAt(i, r, y + 1, f, g, ev)
      BY <1>2, <1>4, <3>1, <3>2, <3>4, <3>5, <3>6 DEF HeadAt
    <3> QED
      BY <3>3, <3>7
  <2> QED
    BY <2>6, <2>7 DEF TakesHead
<1>8. CASE k = U /\ x < H
  <2>1. x + 1 \in 1..H /\ y + 1 = 1 + U + (x + 1) /\ x \in Nat
    BY <1>4, <1>8
  <2>2. t = AllHeaders(i, r.headers)[x + 1]
    <3>1. w[(1 + U) + (x + 1)] = AllHeaders(i, r.headers)[x + 1]
      BY <1>2, <1>3, <2>1 DEF Embeds
    <3> QED
      BY <1>1, <2>1, <3>1
  <2>3. TakesNext(i, f, r.headers, x, t)
    <3>1. x < Len(AllHeaders(i, r.headers))
      BY <1>2, <1>8
    <3> QED
      BY <1>4, <1>5, <2>1, <2>2, <3>1, FieldsNext
  <2>4. ASSUME NEW g, FieldsAt(i, g, r.headers, x + 1), g.deferred = f.deferred PROVE HeadAt(i, r, y + 1, g, q, ev)
    <3>1. PICK a \in 0..H : a = x + 1
      BY <2>1
    <3>2. y + 1 = 1 + k + a /\ (a # 0 => k = U)
      BY <1>8, <2>1, <3>1
    <3>3. FieldsAt(i, g, r.headers, a) /\ g.deferred = NoMap
      BY <1>4, <2>4, <3>1
    <3> QED
      BY <1>2, <1>4, <3>1, <3>2, <3>3 DEF HeadAt
  <2>5. PICK a : a = OnHeaderField(f, t.arg)
    OBVIOUS
  <2>6. PICK b : b = OnHeaderValue(f, t.arg)
    OBVIOUS
  <2>7. a.deferred = f.deferred /\ b.deferred = f.deferred
    BY <1>6, <2>5, <2>6, DeferredStays
  <2>8. \/ t.kind = "field" /\ FieldsAt(i, a, r.headers, x + 1)
        \/ t.kind = "value" /\ FieldsAt(i, b, r.headers, x + 1)
    BY <2>3, <2>5, <2>6 DEF TakesNext
  <2>9. \/ t.kind = "field" /\ HeadAt(i, r, y + 1, a, q, ev)
        \/ t.kind = "value" /\ HeadAt(i, r, y + 1, b, q, ev)
    BY <2>4, <2>7, <2>8
  <2> QED
    BY <2>5, <2>6, <2>9 DEF TakesHead
<1>9. CASE k = U /\ x = H
  <2>1. y + 1 = HeadLen(i, r) + 1
    BY <1>2, <1>4, <1>9 DEF HeadLen
  <2>2. t = Token(i, "headersEnd", r)
    BY <1>1, <1>3, <2>1
  <2>3. t.kind = "headersEnd" /\ t.arg = r
    BY <2>2 DEF Token
  <2>4. q.url.text = r.url
    BY <1>2, <1>4, <1>5, <1>9, UrlWhole
  <2>5. PICK g : g = CompleteLastHeader(f)
    OBVIOUS
  <2>6. g.deferred = NoMap
    BY <1>4, <1>6, <2>5, DeferredStays
  <2>7. Fresh(g, Listed(r.headers, Len(r.headers)))
    BY <1>2, <1>4, <1>5, <1>9, <2>5, FieldsDone
  <2> QED
    BY <1>4, <2>1, <2>3, <2>4, <2>5, <2>6, <2>7 DEF TakesHead
<1>10. k < U \/ (k = U /\ x < H) \/ (k = U /\ x = H)
  BY <1>4
<1> QED
  BY <1>7, <1>8, <1>9, <1>10

\* What the next token behind the headersEnd does, and what the events are at the end.
TakesBody(E, i, r, y, f, ev, t) ==
    \/ t.kind = "body" /\ \A e : e = Append(ev, Telling("data", t.arg, FALSE)) => BodyAt(E, i, r, y + 1, f, e)
    \/ t.kind = "field" /\ BodyAt(E, i, r, y + 1, OnHeaderField(f, t.arg), ev)
    \/ t.kind = "value" /\ BodyAt(E, i, r, y + 1, OnHeaderValue(f, t.arg), ev)
    \/ /\ t.kind = "end" /\ y + 1 = Len(Tokens(i, r))
       /\ \A e : e = (IF f.deferred # NoMap THEN Append(ev, Telling("headers", Content(f.deferred), TRUE))
                      ELSE Append(ev, Telling("data", <<>>, TRUE))) => e = E

LEMMA BodyNext ==
    ASSUME NEW i, NEW r, IsRequest(r), NEW E, IsEvents(E, r), NEW y, NEW f, NEW ev, BodyAt(E, i, r, y, f, ev),
           NEW t, t = Tokens(i, r)[y + 1]
    PROVE  TakesBody(E, i, r, y, f, ev, t)
<1>1. PICK w : w = Tokens(i, r)
  OBVIOUS
<1>2. PICK B \in Nat, T \in Nat, h \in Nat :
          B = Len(r.body) /\ T = Len(AllHeaders(i, r.trailers)) /\ h = HeadLen(i, r)
  <2>1. PICK a \in Nat, b \in Nat : a = Len(r.url) /\ b = Len(AllHeaders(i, r.headers))
    BY TokensAt
  <2>2. HeadLen(i, r) = 1 + a + b
    BY <2>1 DEF HeadLen
  <2>3. 1 + a + b \in Nat
    OBVIOUS
  <2>4. Len(r.body) \in Nat /\ Len(AllHeaders(i, r.trailers)) \in Nat
    BY TokensAt
  <2> QED
    BY <2>2, <2>3, <2>4
<1>3. /\ Embeds(w, Cut(i, "body", r.body), h + 1) /\ Embeds(w, AllHeaders(i, r.trailers), h + 1 + B)
      /\ Len(w) = h + 1 + (B + T) + 1 /\ w[Len(w)] = Token(i, "end", <<>>)
  <2>1. BodyLen(i, r) = B + T
    BY <1>2 DEF BodyLen
  <2> QED
    BY <1>1, <1>2, <2>1, TokensAt
<1>4. PICK k \in 0..B, x \in 0..T :
        /\ y = h + 1 + k + x /\ (x # 0 => k = B)
        /\ DOMAIN f = FieldNames /\ f.state = "Done" /\ E # <<>>
        /\ IF HasBody(r) THEN f.deferred = NoMap /\ ev = UpTo(E, 1 + k)
           ELSE f.deferred # NoMap /\ ev = <<>> /\ Content(f.deferred) = E[1].content
  BY <1>2 DEF BodyAt
<1>5. IsText(r.body) /\ AreHeaders(r.trailers)
  BY DEF IsRequest
<1>6. Valid(r)
  BY <1>4 DEF IsEvents
<1>7. CASE k < B
  <2>1. x = 0 /\ k + 1 \in 1..B /\ y + 1 = (h + 1) + (k + 1) /\ k \in Nat
    BY <1>4, <1>7
  <2>2. PICK c : c = Cut(i, "body", r.body)
    OBVIOUS
  <2>3. Len(c) = B /\ c[k + 1] = Token(i, "body", <<r.body[k + 1]>>)
    BY <1>2, <1>5, <2>1, <2>2, CutAt
  <2>4. w[(h + 1) + (k + 1)] = c[k + 1]
    BY <1>3, <2>1, <2>2, <2>3 DEF Embeds
  <2>5. t = Token(i, "body", <<r.body[k + 1]>>)
    BY <1>1, <2>1, <2>3, <2>4
  <2>6. t.kind = "body" /\ t.arg = <<r.body[k + 1]>>
    BY <2>5 DEF Token
  <2>7. HasBody(r)
    <3>1. r.body # <<>>
      <4>1. Len(<<>>) = 0 /\ B # 0
        BY <1>7
      <4> QED
        BY <1>2, <4>1
    <3> QED
      BY <3>1 DEF HasBody
  <2>8. ASSUME NEW e, e = Append(ev, Telling("data", t.arg, FALSE)) PROVE BodyAt(E, i, r, y + 1, f, e)
    <3>1. E[(k + 1) + 1] = Telling("data", <<r.body[k + 1]>>, FALSE)
      BY <1>2, <1>6, <2>1, <2>7 DEF IsEvents
    <3>2. PICK a \in Nat : a = 1 + k
      BY <2>1
    <3>3. E[a + 1] = Telling("data", t.arg, FALSE)
      <4>1. a + 1 = (k + 1) + 1
        BY <2>1, <3>2
      <4> QED
        BY <2>6, <3>1, <4>1
    <3>4. e = UpTo(E, a + 1)
      <4>1. PICK d : d = Telling("data", t.arg, FALSE)
        OBVIOUS
      <4>2. Append(UpTo(E, a), d) = UpTo(E, a + 1)
        BY <3>3, <4>1, UpToMore
      <4>3. ev = UpTo(E, a)
        BY <1>4, <2>7, <3>2
      <4> QED
        BY <2>8, <4>1, <4>2, <4>3
    <3>5. PICK b \in 0..B : b = k + 1
      BY <2>1
    <3>6. y + 1 = h + 1 + b + x /\ (x # 0 => b = B) /\ e = UpTo(E, 1 + b)
      BY <2>1, <3>2, <3>4, <3>5
    <3> QED
      BY <1>2, <1>4, <2>7, <3>5, <3>6 DEF BodyAt
  <2> QED
    BY <2>6, <2>8 DEF TakesBody
<1>8. CASE k = B /\ x < T
  <2>1. x + 1 \in 1..T /\ y + 1 = (h + 1 + B) + (x + 1) /\ x \in Nat
    BY <1>4, <1>8
  <2>2. t = AllHeaders(i, r.trailers)[x + 1]
    <3>1. w[(h + 1 + B) + (x + 1)] = AllHeaders(i, r.trailers)[x + 1]
      BY <1>2, <1>3, <2>1 DEF Embeds
    <3> QED
      BY <1>1, <2>1, <3>1
  <2>3. t.kind \in {"field", "value"}
    BY <1>2, <1>5, <2>1, <2>2, HeaderKinds
  <2>4. BodyAt(E, i, r, y + 1, f, ev)
    <3>1. PICK a \in 0..T : a = x + 1
      BY <2>1
    <3>2. y + 1 = h + 1 + k + a /\ (a # 0 => k = B)
      BY <1>8, <2>1, <3>1
    <3> QED
      BY <1>2, <1>4, <3>1, <3>2 DEF BodyAt
  <2>5. OnHeaderField(f, t.arg) = f /\ OnHeaderValue(f, t.arg) = f
    BY <1>4, DeferredStays
  <2> QED
    BY <2>3, <2>4, <2>5 DEF TakesBody
<1>9. CASE k = B /\ x = T
  <2>1. y + 1 = Len(w)
    BY <1>3, <1>4, <1>9
  <2>2. t.kind = "end"
    BY <1>1, <1>3, <2>1 DEF Token
  <2>3. CASE HasBody(r)
    <3>1. f.deferred = NoMap /\ ev = UpTo(E, 1 + B)
      BY <1>4, <1>9, <2>3
    <3>2. E = UpTo(E, B + 2) /\ E[B + 2] = Telling("data", <<>>, TRUE)
      BY <1>2, <1>6, <2>3 DEF IsEvents
    <3>3. PICK a \in Nat : a = 1 + B /\ a + 1 = B + 2
      OBVIOUS
    <3>4. PICK d : d = Telling("data", <<>>, TRUE)
      OBVIOUS
    <3>7. d = E[a + 1]
      BY <3>2, <3>3, <3>4
    <3>5. Append(UpTo(E, a), d) = UpTo(E, a + 1)
      BY <3>7, UpToMore
    <3>6. Append(ev, d) = E
      BY <3>1, <3>2, <3>3, <3>5
    <3> QED
      BY <1>1, <2>1, <2>2, <3>1, <3>4, <3>6 DEF TakesBody
  <2>4. CASE ~HasBody(r)
    <3>1. f.deferred # NoMap /\ ev = <<>> /\ Content(f.deferred) = E[1].content
      BY <1>4, <2>4
    <3>2. E = UpTo(E, 1) /\ E[1] = Telling("headers", E[1].content, ~HasBody(r))
      BY <1>6, <2>4 DEF IsEvents
    <3>3. (~HasBody(r)) = TRUE
      BY <2>4
    <3>4. PICK d : d = Telling("headers", Content(f.deferred), TRUE)
      OBVIOUS
    <3>5. E[1] = d
      BY <3>1, <3>2, <3>3, <3>4
    <3>6. Append(UpTo(E, 0), d) = UpTo(E, 1) /\ UpTo(E, 0) = <<>>
      <4>1. PICK z \in Nat : z = 0 /\ z + 1 = 1
        OBVIOUS
      <4>2. d = E[z + 1]
        BY <3>5, <4>1
      <4>3. Append(UpTo(E, z), d) = UpTo(E, z + 1) /\ UpTo(E, 0) = <<>>
        BY <4>2, UpToMore
      <4> QED
        BY <4>1, <4>3
    <3>7. Append(ev, d) = E
      BY <3>1, <3>2, <3>6
    <3> QED
      BY <1>1, <2>1, <2>2, <3>1, <3>4, <3>7 DEF TakesBody
  <2> QED
    BY <2>3, <2>4
<1>10. k < B \/ (k = B /\ x < T) \/ (k = B /\ x = T)
  BY <1>4
<1> QED
  BY <1>7, <1>8, <1>9, <1>10

\* The events of a request that is being parsed are a part of those it is worth.
LEMMA BodyEvents ==
    ASSUME NEW i, NEW r, IsRequest(r), NEW E, IsEvents(E, r), NEW y, NEW f, NEW ev, BodyAt(E, i, r, y, f, ev)
    PROVE  Len(E) \in Nat /\ \E m \in 0..Len(E) : m < Len(E) /\ ev = UpTo(E, m)
<1>1. PICK B \in Nat : B = Len(r.body)
  BY DEF IsRequest, IsText
<1>2. PICK k \in 0..B :
        /\ E # <<>>
        /\ IF HasBody(r) THEN ev = UpTo(E, 1 + k) ELSE ev = <<>>
  BY <1>1 DEF BodyAt
<1>3. Valid(r)
  BY <1>2 DEF IsEvents
<1>4. CASE HasBody(r)
  <2>1. Len(E) = B + 2
    BY <1>1, <1>3, <1>4 DEF IsEvents
  <2>2. 1 + k \in 0..(B + 2) /\ 1 + k < B + 2 /\ B + 2 \in Nat
    BY <1>1
  <2> QED
    BY <1>2, <1>4, <2>1, <2>2
<1>5. CASE ~HasBody(r)
  <2>1. Len(E) = 1
    BY <1>3, <1>5 DEF IsEvents
  <2>2. UpTo(E, 0) = <<>>
    BY UpToMore
  <2> QED
    BY <1>2, <1>5, <2>1, <2>2
<1> QED
  BY <1>4, <1>5

Within(d, E, i, r, y, f, q, ev) ==
    \/ d = "head" /\ HeadAt(i, r, y, f, q, ev)
    \/ d = "body" /\ BodyAt(E, i, r, y, f, ev)

RequestNames == {"n", "url", "remoteComplete", "started", "chunked"}

\* The request of stream n, of which more is to come.
Active(q, n) == DOMAIN q = RequestNames /\ q.n = n /\ n # 0 /\ q.remoteComplete = FALSE

LEMMA ActiveRequest ==
    ASSUME NEW q, NEW n, Active(q, n)
    PROVE  q # NoRequest
<1>1. NoRequest.n = 0
  BY DEF NoRequest
<1> QED
  BY <1>1 DEF Active

LEMMA WithinBound ==
    ASSUME NEW d, NEW E, NEW i, NEW r, IsRequest(r), NEW y, NEW f, NEW q, NEW ev, Within(d, E, i, r, y, f, q, ev)
    PROVE  Len(Tokens(i, r)) \in Nat /\ y \in 1..Len(Tokens(i, r)) /\ y < Len(Tokens(i, r))
<1>1. PICK U \in Nat, H \in Nat, B \in Nat, T \in Nat :
          /\ U = Len(r.url) /\ H = Len(AllHeaders(i, r.headers))
          /\ B = Len(r.body) /\ T = Len(AllHeaders(i, r.trailers))
  BY TokensAt
<1>2. PICK N \in Nat : N = (1 + U + H) + 1 + (B + T) + 1
  OBVIOUS
<1>3. Len(Tokens(i, r)) = N
  <2>1. HeadLen(i, r) = 1 + U + H /\ BodyLen(i, r) = B + T
    BY <1>1 DEF HeadLen, BodyLen
  <2>2. Len(Tokens(i, r)) = HeadLen(i, r) + 1 + BodyLen(i, r) + 1
    BY TokensAt
  <2> QED
    BY <1>2, <2>1, <2>2
<1>4. CASE HeadAt(i, r, y, f, q, ev)
  <2>1. PICK k \in 0..U, x \in 0..H : y = 1 + k + x
    BY <1>1, <1>4 DEF HeadAt
  <2> QED
    BY <1>2, <1>3, <2>1
<1>5. CASE BodyAt(E, i, r, y, f, ev)
  <2>1. PICK k \in 0..B, x \in 0..T : y = HeadLen(i, r) + 1 + k + x
    BY <1>1, <1>5 DEF BodyAt
  <2>2. y = (1 + U + H) + 1 + k + x
    BY <1>1, <2>1 DEF HeadLen
  <2> QED
    BY <1>2, <1>3, <2>2
<1> QED
  BY <1>4, <1>5 DEF Within

LEMMA EventsLength ==
    ASSUME NEW r, IsRequest(r), NEW E, IsEvents(E, r)
    PROVE  Len(E) \in Nat /\ E = UpTo(E, Len(E))
<1>1. PICK B \in Nat : B = Len(r.body)
  BY DEF IsRequest, IsText
<1>2. CASE ~Valid(r)
  BY <1>2 DEF IsEvents, UpTo
<1>3. CASE Valid(r)
  BY <1>1, <1>3 DEF IsEvents
<1> QED
  BY <1>2, <1>3

LEMMA WithinEvents ==
    ASSUME NEW d, NEW E, NEW i, NEW r, IsRequest(r), IsEvents(E, r), NEW y, NEW f, NEW q, NEW ev,
           Within(d, E, i, r, y, f, q, ev)
    PROVE  \E m \in 0..Len(E) : ev = UpTo(E, m)
<1>1. Len(E) \in Nat
  BY EventsLength
<1>2. CASE HeadAt(i, r, y, f, q, ev)
  <2>1. ev = <<>>
    BY <1>2 DEF HeadAt
  <2>2. UpTo(E, 0) = <<>>
    BY UpToMore
  <2>3. 0 \in 0..Len(E)
    BY <1>1
  <2> QED
    BY <2>1, <2>2, <2>3
<1>3. CASE BodyAt(E, i, r, y, f, ev)
  BY <1>3, BodyEvents
<1> QED
  BY <1>2, <1>3 DEF Within

\* The decoder of stream n has been told e, and not yet all of E before.
Tells(n, e, E) ==
    \/ events' = events /\ e = events[n]
    \/ events' = [events EXCEPT ![n] = e] /\ events[n] # E

LEMMA HeadersEnd ==
    ASSUME NEW r, IsRequest(r), NEW i, NEW y, NEW n \in DOMAIN events, Active(request, n), events[n] = <<>>,
           NEW E, E = RequestEvents(r), OnHeadersComplete(r),
           Absolute(request.url.text, r.method) => ValidUrl(request.url.text),
           y + 1 = HeadLen(i, r) + 1, IsOwn(request.url), request.url.text = r.url,
           Fresh(CompleteLastHeader(fields), Listed(r.headers, Len(r.headers))),
           CompleteLastHeader(fields).deferred = NoMap
    PROVE  /\ Active(request', n) /\ origin' = origin /\ \E h : GoesOn("body", FALSE, h)
           /\ \E e : Tells(n, e, E) /\ BodyAt(E, i, r, y + 1, fields', e)
<1>1. PICK f : f = CompleteLastHeader(fields)
  OBVIOUS
<1>2. PICK l : l = Listed(r.headers, Len(r.headers))
  OBVIOUS
<1>3. /\ DOMAIN f = FieldNames /\ f.deferred = NoMap /\ Linked(f.map) /\ l = Content(f.map) /\ Proper(l)
  BY <1>1, <1>2 DEF Fresh, Collects
<1>4. PICK u : u = request.url
  OBVIOUS
<1>5. DOMAIN u = StringNames /\ u.text = r.url
  BY <1>4 DEF IsOwn, StringNames
<1>6. PICK path : path = HandlePath(f.map, u, r.method)
  OBVIOUS
<1>7. PICK map : map = WithValue(path.map, MethodName, r.method)
  OBVIOUS
<1>8. Linked(map) /\ Content(map) = FullList(l, r.url, r.method)
  <2>1. PathName \notin Names1(l) /\ MethodName \notin Names1(l)
    BY <1>3 DEF Proper
  <2>2. PICK m : m = f.map /\ Linked(m) /\ l = Content(m)
    BY <1>3
  <2>3. map = WithValue(HandlePath(m, u, r.method).map, MethodName, r.method)
    BY <1>6, <1>7, <2>2
  <2>4. Linked(map) /\ Content(map) = FullList(l, u.text, r.method)
    BY <1>5, <2>1, <2>2, <2>3, FullListLinked
  <2> QED
    BY <1>5, <2>4
<1>9. Valid(r)
  BY DEF Valid
<1>10. IsEvents(E, r) /\ E # <<>> /\ E[1].content = Content(map)
  <2>1. IsEvents(E, r) /\ E # <<>> /\ E[1].content = WholeList(r)
    BY <1>9, EventsAre
  <2>2. WholeList(r) = FullList(l, r.url, r.method)
    BY <1>2, <1>3, WholeListIs
  <2> QED
    BY <1>8, <2>1, <2>2
<1>11. PICK done : done = [f EXCEPT !.map = NoMap, !.state = "Done"]
  OBVIOUS
<1>12. DOMAIN done = FieldNames /\ done.state = "Done" /\ done.deferred = NoMap
  BY <1>3, <1>11 DEF FieldNames
<1>13. request # NoRequest
  BY ActiveRequest
<1>14. PICK v : v = IF Absolute(u.text, r.method) THEN Cleared(u) ELSE path.value
  OBVIOUS
<1>15. /\ request' = [request EXCEPT !.url = v] /\ origin' = origin
       /\ GoesOn("body", FALSE, parse.http10 \/ r.http10)
       /\ IF HasBody(r)
          THEN fields' = done /\ Told(request.n, "headers", Content(map), FALSE)
          ELSE fields' = [done EXCEPT !.deferred = map] /\ UNCHANGED events
  BY <1>1, <1>4, <1>6, <1>7, <1>11, <1>13, <1>14 DEF OnHeadersComplete
<1>16. Active(request', n)
  <2>1. PICK g : g = [request EXCEPT !.url = v]
    OBVIOUS
  <2>2. DOMAIN g = RequestNames /\ g.n = request.n /\ g.remoteComplete = request.remoteComplete
    BY <2>1 DEF Active, RequestNames
  <2> QED
    BY <1>15, <2>1, <2>2 DEF Active
<1>17. ASSUME NEW g, DOMAIN g = FieldNames, g.state = "Done", NEW e,
              IF HasBody(r) THEN g.deferred = NoMap /\ e = UpTo(E, 1)
              ELSE g.deferred # NoMap /\ e = <<>> /\ Content(g.deferred) = E[1].content
       PROVE  BodyAt(E, i, r, y + 1, g, e)
  <2>1. PICK B \in Nat, T \in Nat, h \in Nat :
            B = Len(r.body) /\ T = Len(AllHeaders(i, r.trailers)) /\ h = HeadLen(i, r)
    <3>1. PICK a \in Nat, b \in Nat : a = Len(r.url) /\ b = Len(AllHeaders(i, r.headers))
      BY TokensAt
    <3>2. HeadLen(i, r) = 1 + a + b
      BY <3>1 DEF HeadLen
    <3>3. 1 + a + b \in Nat
      OBVIOUS
    <3>4. Len(r.body) \in Nat /\ Len(AllHeaders(i, r.trailers)) \in Nat
      BY TokensAt
    <3> QED
      BY <3>2, <3>3, <3>4
  <2>2. PICK k \in 0..B, x \in 0..T : k = 0 /\ x = 0
    BY <2>1
  <2>3. y + 1 = h + 1 + k + x /\ (x # 0 => k = B) /\ 1 + k = 1
    BY <2>1, <2>2
  <2> QED
    BY <1>10, <1>17, <2>1, <2>2, <2>3 DEF BodyAt
<1>18. CASE HasBody(r)
  <2>1. PICK d : d = Telling("headers", Content(map), FALSE)
    OBVIOUS
  <2>2. events' = [events EXCEPT ![n] = Append(@, d)] /\ fields' = done
    BY <1>15, <1>18, <2>1 DEF Told, Telling, Active
  <2>3. PICK e : e = Append(<<>>, d)
    OBVIOUS
  <2>4. events' = [events EXCEPT ![n] = e]
    BY <2>2, <2>3
  <2>5. E[1] = d
    <3>1. E[1] = Telling("headers", E[1].content, ~HasBody(r))
      BY <1>9, <1>10 DEF IsEvents
    <3>2. (~HasBody(r)) = FALSE
      BY <1>18
    <3> QED
      BY <1>10, <2>1, <3>1, <3>2
  <2>6. e = UpTo(E, 1)
    <3>1. PICK z \in Nat : z = 0 /\ z + 1 = 1
      OBVIOUS
    <3>2. d = E[z + 1]
      BY <2>5, <3>1
    <3>3. Append(UpTo(E, z), d) = UpTo(E, z + 1) /\ UpTo(E, 0) = <<>>
      BY <3>2, UpToMore
    <3> QED
      BY <2>3, <3>1, <3>3
  <2>7. BodyAt(E, i, r, y + 1, done, e)
    BY <1>12, <1>17, <1>18, <2>6
  <2>8. Tells(n, e, E)
    BY <1>10, <2>4 DEF Tells
  <2> QED
    BY <1>15, <1>16, <2>2, <2>7, <2>8
<1>19. CASE ~HasBody(r)
  <2>1. PICK g : g = [done EXCEPT !.deferred = map]
    OBVIOUS
  <2>2. DOMAIN g = FieldNames /\ g.state = "Done" /\ g.deferred = map
    BY <1>12, <2>1 DEF FieldNames
  <2>3. map # NoMap
    <3>1. DOMAIN map = {"list", "inline", "asserts"}
      BY <1>8 DEF Linked, MapHolds
    <3>2. DOMAIN <<>> = {}
      OBVIOUS
    <3>3. "list" \in DOMAIN map
      BY <3>1
    <3> QED
      BY <3>2, <3>3 DEF NoMap
  <2>4. fields' = g /\ events' = events
    BY <1>15, <1>19, <2>1
  <2>5. PICK e : e = <<>>
    OBVIOUS
  <2>6. BodyAt(E, i, r, y + 1, g, e)
    BY <1>10, <1>17, <1>19, <2>2, <2>3, <2>5
  <2>7. Tells(n, e, E)
    BY <2>4, <2>5 DEF Tells
  <2> QED
    BY <1>15, <1>16, <2>4, <2>6, <2>7
<1> QED
  BY <1>18, <1>19

\* What a callback in the middle of a request does to what is known of it.
Moves(n, E, i, r, y) ==
    \E d \in {"head", "body"} : \E h : \E e :
        /\ GoesOn(d, FALSE, h) /\ Active(request', n) /\ Tells(n, e, E)
        /\ Within(d, E, i, r, y + 1, fields', request', e)

Finishes(n, E, i, r, y) ==
    /\ y + 1 = Len(Tokens(i, r)) /\ \E h : GoesOn("begin", TRUE, h)
    /\ events' = [events EXCEPT ![n] = E] /\ events[n] # E
    /\ fields'.deferred = NoMap

LEMMA CallbackWithin ==
    ASSUME Callback, NEW n \in DOMAIN events, Active(request, n), NEW i, NEW r, IsRequest(r),
           NEW E, E = RequestEvents(r), NEW y, Within(parse.expects, E, i, r, y, fields, request, events[n]),
           Head(parse.slice) = Tokens(i, r)[y + 1]
    PROVE  origin' = origin /\ (Moves(n, E, i, r, y) \/ Finishes(n, E, i, r, y))
<1>1. PICK t : t = Head(parse.slice) /\ t = Tokens(i, r)[y + 1]
  OBVIOUS
<1>2. PICK f, q, ev : f = fields /\ q = request /\ ev = events[n]
  OBVIOUS
<1>3. /\ Fits1(t) /\ ~Refused(t)
      /\ \/ t.kind = "begin" /\ OnMessageBegin(t.of)
         \/ t.kind = "url" /\ OnUrl(t.arg)
         \/ t.kind = "field" /\ OnHeader(OnHeaderField(fields, t.arg))
         \/ t.kind = "value" /\ OnHeader(OnHeaderValue(fields, t.arg))
         \/ t.kind = "headersEnd" /\ OnHeadersComplete(t.arg)
         \/ t.kind = "body" /\ OnBody(t.arg)
         \/ t.kind = "end" /\ OnMessageComplete
  BY <1>1 DEF Callback
<1>4. IsEvents(E, r)
  BY EventsAre
<1>5. request # NoRequest
  BY ActiveRequest
<1>6. Tells(n, ev, E) \/ events' # events
  BY <1>2 DEF Tells
<1>7. CASE parse.expects = "head" /\ HeadAt(i, r, y, f, q, ev)
  <2>1. TakesHead(i, r, y, f, q, ev, t)
    BY <1>1, <1>7, HeadNext
  <2>2. CASE t.kind = "url" /\ \A u : u = AppendTo(q.url, t.arg) => HeadAt(i, r, y + 1, f, [q EXCEPT !.url = u], ev)
    <3>1. OnUrl(t.arg)
      BY <1>3, <2>2
    <3>2. PICK u : u = AppendTo(q.url, t.arg)
      OBVIOUS
    <3>3. PICK g : g = [q EXCEPT !.url = u]
      OBVIOUS
    <3>4. /\ GoesOn("head", FALSE, parse.http10) /\ request' = g /\ fields' = f /\ events' = events /\ origin' = origin
      BY <1>2, <1>5, <3>1, <3>2, <3>3 DEF OnUrl
    <3>5. HeadAt(i, r, y + 1, f, g, ev)
      BY <2>2, <3>2, <3>3
    <3>6. Active(g, n)
      <4>1. DOMAIN g = DOMAIN q /\ g.n = q.n /\ g.remoteComplete = q.remoteComplete
        BY <1>2, <3>3 DEF Active, RequestNames
      <4> QED
        BY <1>2, <4>1 DEF Active
    <3>7. Within("head", E, i, r, y + 1, fields', request', ev)
      BY <3>4, <3>5 DEF Within
    <3> QED
      BY <1>6, <3>4, <3>6, <3>7 DEF Moves
  <2>3. ASSUME NEW g, OnHeader(g), HeadAt(i, r, y + 1, g, q, ev) PROVE origin' = origin /\ Moves(n, E, i, r, y)
    <3>1. /\ GoesOn("head", FALSE, parse.http10) /\ request' = q /\ fields' = g /\ events' = events /\ origin' = origin
      BY <1>2, <1>7, <2>3 DEF OnHeader
    <3>2. Within("head", E, i, r, y + 1, fields', request', ev)
      BY <2>3, <3>1 DEF Within
    <3>3. Active(request', n)
      BY <1>2, <3>1
    <3> QED
      BY <1>6, <3>1, <3>2, <3>3 DEF Moves
  <2>4. CASE t.kind = "field" /\ HeadAt(i, r, y + 1, OnHeaderField(f, t.arg), q, ev)
    <3>1. PICK g : g = OnHeaderField(f, t.arg)
      OBVIOUS
    <3>2. OnHeader(g)
      BY <1>2, <1>3, <2>4, <3>1
    <3> QED
      BY <2>3, <2>4, <3>1, <3>2
  <2>5. CASE t.kind = "value" /\ HeadAt(i, r, y + 1, OnHeaderValue(f, t.arg), q, ev)
    <3>1. PICK g : g = OnHeaderValue(f, t.arg)
      OBVIOUS
    <3>2. OnHeader(g)
      BY <1>2, <1>3, <2>5, <3>1
    <3> QED
      BY <2>3, <2>5, <3>1, <3>2
  <2>6. CASE /\ t.kind = "headersEnd" /\ t.arg = r /\ y + 1 = HeadLen(i, r) + 1 /\ ev = <<>>
             /\ IsOwn(q.url) /\ q.url.text = r.url
             /\ Fresh(CompleteLastHeader(f), Listed(r.headers, Len(r.headers)))
             /\ CompleteLastHeader(f).deferred = NoMap
    <3>1. OnHeadersComplete(r)
      BY <1>3, <2>6
    <3>2. Absolute(request.url.text, r.method) => ValidUrl(request.url.text)
      BY <1>3, <1>5, <2>6 DEF Refused
    <3>3. /\ Active(request', n) /\ origin' = origin /\ \E h : GoesOn("body", FALSE, h)
          /\ \E e : Tells(n, e, E) /\ BodyAt(E, i, r, y + 1, fields', e)
      BY <1>2, <2>6, <3>1, <3>2, HeadersEnd
    <3>4. PICK h, e : GoesOn("body", FALSE, h) /\ Tells(n, e, E) /\ BodyAt(E, i, r, y + 1, fields', e)
      BY <3>3
    <3>5. Within("body", E, i, r, y + 1, fields', request', e)
      BY <3>4 DEF Within
    <3> QED
      BY <3>3, <3>4, <3>5 DEF Moves
  <2> QED
    BY <2>1, <2>2, <2>4, <2>5, <2>6 DEF TakesHead
<1>8. CASE parse.expects = "body" /\ BodyAt(E, i, r, y, f, ev)
  <2>1. TakesBody(E, i, r, y, f, ev, t)
    BY <1>1, <1>4, <1>8, BodyNext
  <2>2. ev # E
    <3>1. PICK m \in 0..Len(E) : m < Len(E) /\ ev = UpTo(E, m)
      BY <1>4, <1>8, BodyEvents
    <3>2. Len(E) \in Nat
      BY <1>4, EventsLength
    <3>3. PICK k \in Nat : k = m /\ k # Len(E)
      BY <3>1, <3>2
    <3>4. Len(UpTo(E, k)) = k
      BY UpToMore
    <3> QED
      BY <3>1, <3>3, <3>4
  <2>3. CASE t.kind = "body" /\ \A e : e = Append(ev, Telling("data", t.arg, FALSE)) => BodyAt(E, i, r, y + 1, f, e)
    <3>1. OnBody(t.arg)
      BY <1>3, <2>3
    <3>2. PICK e : e = Append(ev, Telling("data", t.arg, FALSE))
      OBVIOUS
    <3>3. /\ GoesOn("body", FALSE, parse.http10) /\ request' = q /\ fields' = f /\ origin' = origin
          /\ Told(n, "data", t.arg, FALSE)
      BY <1>2, <1>5, <3>1 DEF OnBody, Active
    <3>4. events' = [events EXCEPT ![n] = e]
      BY <1>2, <3>2, <3>3 DEF Told, Telling
    <3>5. Tells(n, e, E)
      BY <1>2, <2>2, <3>4 DEF Tells
    <3>6. Within("body", E, i, r, y + 1, fields', request', e)
      BY <2>3, <3>2, <3>3 DEF Within
    <3>7. Active(request', n)
      BY <1>2, <3>3
    <3> QED
      BY <3>3, <3>5, <3>6, <3>7 DEF Moves
  <2>4. ASSUME NEW g, OnHeader(g), BodyAt(E, i, r, y + 1, g, ev) PROVE origin' = origin /\ Moves(n, E, i, r, y)
    <3>1. /\ GoesOn("body", FALSE, parse.http10) /\ request' = q /\ fields' = g /\ events' = events /\ origin' = origin
      BY <1>2, <1>8, <2>4 DEF OnHeader
    <3>2. Within("body", E, i, r, y + 1, fields', request', ev)
      BY <2>4, <3>1 DEF Within
    <3>3. Active(request', n)
      BY <1>2, <3>1
    <3> QED
      BY <1>6, <3>1, <3>2, <3>3 DEF Moves
  <2>5. CASE t.kind = "field" /\ BodyAt(E, i, r, y + 1, OnHeaderField(f, t.arg), ev)
    <3>1. PICK g : g = OnHeaderField(f, t.arg)
      OBVIOUS
    <3>2. OnHeader(g)
      BY <1>2, <1>3, <2>5, <3>1
    <3> QED
      BY <2>4, <2>5, <3>1, <3>2
  <2>6. CASE t.kind = "value" /\ BodyAt(E, i, r, y + 1, OnHeaderValue(f, t.arg), ev)
    <3>1. PICK g : g = OnHeaderValue(f, t.arg)
      OBVIOUS
    <3>2. OnHeader(g)
      BY <1>2, <1>3, <2>6, <3>1
    <3> QED
      BY <2>4, <2>6, <3>1, <3>2
  <2>7. CASE /\ t.kind = "end" /\ y + 1 = Len(Tokens(i, r))
             /\ \A e : e = (IF f.deferred # NoMap THEN Append(ev, Telling("headers", Content(f.deferred), TRUE))
                            ELSE Append(ev, Telling("data", <<>>, TRUE))) => e = E
    <3>1. OnMessageComplete
      BY <1>3, <2>7
    <3>2. PICK e : e = (IF f.deferred # NoMap THEN Append(ev, Telling("headers", Content(f.deferred), TRUE))
                        ELSE Append(ev, Telling("data", <<>>, TRUE)))
      OBVIOUS
    <3>3. e = E
      BY <2>7, <3>2
    <3>4. /\ GoesOn("begin", TRUE, parse.http10) /\ origin' = origin /\ fields' = [f EXCEPT !.deferred = NoMap]
          /\ IF f.deferred # NoMap THEN Told(n, "headers", Content(f.deferred), TRUE) ELSE Told(n, "data", <<>>, TRUE)
      BY <1>2, <1>5, <3>1 DEF OnMessageComplete, Active
    <3>5. events' = [events EXCEPT ![n] = e]
      BY <1>2, <3>2, <3>4 DEF Told, Telling
    <3>6. fields'.deferred = NoMap
      <4>1. DOMAIN f = FieldNames
        BY <1>8 DEF BodyAt
      <4> QED
        BY <3>4, <4>1 DEF FieldNames
    <3> QED
      BY <1>2, <2>2, <2>7, <3>3, <3>4, <3>5, <3>6 DEF Finishes
  <2> QED
    BY <2>1, <2>3, <2>5, <2>6, <2>7 DEF TakesBody
<1> QED
  BY <1>2, <1>7, <1>8 DEF Within

-----------------------------------------------------------------------------
(* What the decoders have been told and what is left *)

\* RequestEvents() of a build that allows absolute urls or does not.
EventsFor(b, r) ==
    LET listed == Listed(r.headers, Len(r.headers))
        abs == /\ b /\ r.method # <<"CONNECT">>
               /\ r.url[1] # "/" /\ ~(r.url[1] = "*" /\ r.method = <<"OPTIONS">>)
        path == IF abs THEN UrlPath(r.url) ELSE r.url
        all == (IF abs THEN Replaced1(listed, HostName, <<r.url[2]>>) ELSE listed)
               \o <<<<PathName, path>>, <<MethodName, r.method>>>>
    IN  IF abs /\ ~ValidUrl(r.url) THEN <<>>
        ELSE IF HasBody(r)
        THEN <<Telling("headers", all, FALSE)>>
             \o [i \in DOMAIN r.body |-> Telling("data", <<r.body[i]>>, FALSE)]
             \o <<Telling("data", <<>>, TRUE)>>
        ELSE <<Telling("headers", all, TRUE)>>

LEMMA EventsForIs == ASSUME NEW r PROVE RequestEvents(r) = EventsFor(settings, r)
<1>1. PICK abs \in BOOLEAN : abs = Absolute(r.url, r.method)
  BY DEF Absolute
<1>2. abs = (/\ settings /\ r.method # <<"CONNECT">>
             /\ r.url[1] # "/" /\ ~(r.url[1] = "*" /\ r.method = <<"OPTIONS">>))
  BY <1>1 DEF Absolute
<1> QED
  BY <1>1, <1>2 DEF RequestEvents, EventsFor, Telling

\* The request at which a position is, and those that end before it.
LEMMA NoEnd ==
    ASSUME NEW rs, AreRequests(rs), NEW a \in 0..Len(rs), NEW i \in 1..a, NEW y \in Nat,
           y + 1 < Len(Tokens(i, rs[i])), NEW p, p = Ends(rs, i - 1) + y,
           NEW j \in 1..a, Ends(rs, j) <= p + 1
    PROVE  Ends(rs, j) <= p
<1>1. PICK L \in Nat : L = Len(rs) /\ a \in 0..L
  BY DEF AreRequests
<1>2. i \in 1..Len(rs) /\ i - 1 \in 0..Len(rs) /\ j \in 0..Len(rs) /\ i \in 0..Len(rs)
  BY <1>1
<1>3. PICK s \in Nat, n \in Nat, e \in Nat, z \in Nat :
          /\ s = Ends(rs, i - 1) /\ n = Len(Tokens(i, rs[i])) /\ e = Ends(rs, i) /\ z = Ends(rs, j)
          /\ e = s + n
  BY <1>2, EndsNext, SentMore
<1>7. y + 1 < n /\ p = s + y
  BY <1>3
<1>8. z <= p + 1
  BY <1>3
<1>9. p \in Nat
  BY <1>7
<1>4. CASE j < i
  <2>1. PICK o \in 0..Len(rs) : o = i - 1
    BY <1>2
  <2>2. j \in 0..o
    BY <1>1, <1>4, <2>1
  <2>3. z <= s
    BY <1>3, <2>1, <2>2, EndsGrow
  <2>4. z <= p
    BY <1>7, <2>3
  <2> QED
    BY <1>3, <2>4
<1>5. CASE ~(j < i)
  <2>1. PICK o \in 0..Len(rs) : o = j
    BY <1>2
  <2>2. i \in 0..o
    BY <1>1, <1>5, <2>1
  <2>3. e <= z
    BY <1>3, <2>1, <2>2, EndsGrow
  <2>4. e = s + n
    BY <1>3
  <2>5. z <= p
    BY <1>7, <1>8, <2>3, <2>4
  <2> QED
    BY <1>3, <2>5
<1> QED
  BY <1>4, <1>5

LEMMA OneEnd ==
    ASSUME NEW rs, AreRequests(rs), NEW a \in 0..Len(rs), NEW i \in 1..a, NEW p \in Nat, p + 1 = Ends(rs, i),
           NEW j \in 1..a, Ends(rs, j) <= p + 1
    PROVE  j = i \/ Ends(rs, j) <= p
<1>1. PICK L \in Nat : L = Len(rs) /\ a \in 0..L
  BY DEF AreRequests
<1>2. i \in 1..Len(rs) /\ i - 1 \in 0..Len(rs) /\ j \in 0..Len(rs) /\ i \in 0..Len(rs) /\ j \in 1..Len(rs)
  BY <1>1
<1>3. PICK s \in Nat, n \in Nat, e \in Nat, z \in Nat :
          /\ s = Ends(rs, i - 1) /\ n = Len(Tokens(i, rs[i])) /\ e = Ends(rs, i) /\ z = Ends(rs, j)
          /\ e = s + n /\ n >= 2
  BY <1>2, EndsNext, SentMore
<1>4. CASE j < i
  <2>1. PICK o \in 0..Len(rs) : o = i - 1
    BY <1>2
  <2>2. j \in 0..o
    BY <1>1, <1>4, <2>1
  <2>3. z <= s
    BY <1>3, <2>1, <2>2, EndsGrow
  <2> QED
    BY <1>3, <2>3
<1>5. CASE i < j
  <2>1. PICK o \in 0..Len(rs) : o = j - 1
    BY <1>2
  <2>2. i \in 0..o
    BY <1>1, <1>5, <2>1
  <2>3. PICK v \in Nat, m \in Nat : v = Ends(rs, o) /\ m >= 2 /\ z = v + m
    BY <1>2, <1>3, <2>1, EndsNext
  <2>4. e <= v
    BY <1>3, <2>1, <2>2, <2>3, EndsGrow
  <2>5. z <= p + 1 /\ e = p + 1
    BY <1>3
  <2>6. z = v + m /\ m >= 2 /\ m \in Nat /\ v \in Nat
    BY <2>3
  <2> QED
    BY <2>4, <2>5, <2>6
<1>6. j < i \/ i < j \/ j = i
  BY <1>1
<1> QED
  BY <1>4, <1>5, <1>6

\* Behind the end of a request are tokens of later ones, and a request that ends is ended by
\* a token of its own.
LEMMA LaterToken ==
    ASSUME NEW rs, AreRequests(rs), NEW a \in 0..Len(rs), NEW i \in 1..a,
           NEW x \in 1..Ends(rs, a), x > Ends(rs, i)
    PROVE  SentBy(rs, a)[x].of \in 1..a /\ SentBy(rs, a)[x].of > i
<1>1. PICK L \in Nat : L = Len(rs) /\ a \in 0..L
  BY DEF AreRequests
<1>0. PICK j \in 1..a : \E y \in 1..Len(Tokens(j, rs[j])) : x = Ends(rs, j - 1) + y
  BY TokenIs
<1>2. PICK y \in 1..Len(Tokens(j, rs[j])) : x = Ends(rs, j - 1) + y
  BY <1>0
<1>3. SentBy(rs, a)[x] = Tokens(j, rs[j])[y]
  BY <1>2, TokenAt
<1>4. j \in 1..Len(rs) /\ i \in 0..Len(rs) /\ j \in 0..Len(rs)
  BY <1>1
<1>5. Tokens(j, rs[j])[y].of = j
  <2>1. PICK r, t : r = rs[j] /\ IsRequest(r) /\ t = Tokens(j, r)
    BY <1>4 DEF AreRequests
  <2>2. OfRequest(t, j)
    BY <2>1, TextOf
  <2> QED
    BY <2>1, <2>2 DEF OfRequest
<1>6. j > i
  <2> SUFFICES ASSUME ~(j > i) PROVE FALSE
    OBVIOUS
  <2>1. PICK s \in Nat, n \in Nat, e \in Nat, z \in Nat :
            /\ s = Ends(rs, j - 1) /\ n = Len(Tokens(j, rs[j])) /\ e = Ends(rs, j) /\ z = Ends(rs, i)
            /\ e = s + n
    BY <1>4, EndsNext, SentMore
  <2>2. PICK o \in 0..Len(rs) : o = i
    BY <1>4
  <2>3. j \in 0..o
    BY <1>1, <2>2
  <2>4. e <= z
    BY <2>1, <2>2, <2>3, EndsGrow
  <2>5. y \in 1..n /\ x = s + y
    BY <1>2, <2>1
  <2>6. x > z
    BY <2>1
  <2>7. e = s + n
    BY <2>1
  <2> QED
    BY <2>4, <2>5, <2>6, <2>7
<1> QED
  BY <1>3, <1>5, <1>6

LEMMA LastToken ==
    ASSUME NEW rs, AreRequests(rs), NEW a \in 0..Len(rs), NEW j \in 1..a
    PROVE  Ends(rs, j) \in 1..Ends(rs, a) /\ SentBy(rs, a)[Ends(rs, j)].of = j
<1>1. PICK L \in Nat : L = Len(rs) /\ a \in 0..L
  BY DEF AreRequests
<1>2. j \in 1..Len(rs)
  BY <1>1
<1>3. PICK r, t : r = rs[j] /\ IsRequest(r) /\ t = Tokens(j, r)
  BY <1>2 DEF AreRequests
<1>4. PICK y \in Nat : y = Len(t) /\ y >= 2 /\ t[y].of = j
  <2>1. OfRequest(t, j)
    BY <1>3, TextOf
  <2>2. Len(t) \in Nat /\ Len(t) >= 2
    BY <2>1 DEF OfRequest
  <2>3. Len(t) \in 1..Len(t)
    BY <2>2
  <2>4. t[Len(t)].of = j
    BY <2>1, <2>3 DEF OfRequest
  <2> QED
    BY <2>2, <2>4
<1>5. Ends(rs, j) = Ends(rs, j - 1) + y
  BY <1>2, <1>3, <1>4, EndsNext
<1>6. y \in 1..Len(Tokens(j, rs[j]))
  BY <1>3, <1>4
<1>7. PICK x : x = Ends(rs, j - 1) + y
  OBVIOUS
<1>8. x \in 1..Ends(rs, a) /\ SentBy(rs, a)[x] = Tokens(j, rs[j])[y]
  BY <1>6, <1>7, TokenAt
<1> QED
  BY <1>3, <1>4, <1>5, <1>7, <1>8

\* Where a request begins.
LEMMA BeginsAt ==
    ASSUME NEW rs, AreRequests(rs), NEW a \in 0..Len(rs), NEW p \in Nat, p + 1 \in 1..Ends(rs, a),
           SentBy(rs, a)[p + 1].kind = "begin"
    PROVE  \E i \in 1..a : p = Ends(rs, i - 1) /\ SentBy(rs, a)[p + 1].of = i
<1>1. PICK L \in Nat : L = Len(rs) /\ a \in 0..L
  BY DEF AreRequests
<1>0. PICK j \in 1..a : \E y \in 1..Len(Tokens(j, rs[j])) : p + 1 = Ends(rs, j - 1) + y
  BY TokenIs
<1>2. PICK y \in 1..Len(Tokens(j, rs[j])) : p + 1 = Ends(rs, j - 1) + y
  BY <1>0
<1>3. SentBy(rs, a)[p + 1] = Tokens(j, rs[j])[y]
  BY <1>2, TokenAt
<1>4. j \in 1..Len(rs)
  BY <1>1
<1>5. PICK r, t : r = rs[j] /\ IsRequest(r) /\ t = Tokens(j, r)
  BY <1>4 DEF AreRequests
<1>6. OfRequest(t, j)
  BY <1>5, TextOf
<1>7. y = 1 /\ t[y].of = j
  BY <1>2, <1>3, <1>5, <1>6 DEF OfRequest
<1>8. PICK s \in Nat : s = Ends(rs, j - 1)
  BY <1>4, EndsNext
<1>9. p = s
  BY <1>2, <1>7, <1>8
<1> QED
  BY <1>3, <1>5, <1>7, <1>8, <1>9

\* What has arrived and not been given to the codec.
Left == firstRequestBuffer \o incoming

Decoded(j) == \E n \in Streams1 : origin[n] = j /\ events[n] = EventsFor(settings, requests[j])

\* Each decoder has been told a part of what its request is worth.
EventsInv ==
    /\ DOMAIN events = Numbers
    /\ \A n \in Numbers :
          IF n \in Streams1
          THEN /\ origin[n] \in 1..asked
               /\ \E m \in 0..Len(EventsFor(settings, requests[origin[n]])) :
                     events[n] = UpTo(EventsFor(settings, requests[origin[n]]), m)
          ELSE events[n] = <<>>

\* What is pending is what the client has sent but for the first p tokens.
LeftAt(p) ==
    /\ Ends(requests, asked) = p + Len(Pending)
    /\ \A k \in 1..Len(Pending) : Pending[k] = SentBy(requests, asked)[p + k]

\* What has become of the requests that end among them.
Account(p) == \A j \in 1..asked : Ends(requests, j) <= p => Decoded(j) \/ j \in dropped

OneOf(s, j) == \A k \in 1..Len(s) : s[k].of = j

\* A client that does not pipeline has one request on its way, while the codec may have the
\* rest of another.
OwnersInv ==
    /\ pipelined \in BOOLEAN
    /\ ~pipelined => (\E j : OneOf(parse.slice, j)) /\ OneOf(Left, asked)

DropsInv == \A j \in dropped : j > 1 /\ pipelined

\* Where the parser is in a request, so are the fields, the request and what was told.
StageInv(p) ==
    \/ parse.expects = "begin" /\ fields.deferred = NoMap
    \/ \E n \in Streams1 : \E y \in Nat :
          /\ Active(request, n) /\ p = Ends(requests, origin[n] - 1) + y
          /\ Within(parse.expects, EventsFor(settings, requests[origin[n]]), origin[n],
                    requests[origin[n]], y, fields, request, events[n])

OrderInv(p) == LeftAt(p) /\ Account(p) /\ OwnersInv /\ DropsInv /\ StageInv(p)

DecodeInv ==
    \/ requests = <<>>
    \/ /\ speaks = "Http1" /\ EventsInv
       /\ resetCalled \in BOOLEAN /\ (resetCalled => request = NoRequest)
       /\ parse.at = "failed" \/ resetCalled \/ \E p \in Nat : OrderInv(p)

LEMMA EventsStay ==
    ASSUME EventsInv, UNCHANGED <<events, origin, requests, settings>>, 1..asked \subseteq 1..(asked')
    PROVE  EventsInv' /\ \A j : Decoded(j) => Decoded(j)'
<1>1. Streams1' = Streams1 /\ Numbers' = Numbers
  BY DEF Streams1, Numbers
<1>2. EventsInv'
  BY <1>1 DEF EventsInv
<1>3. ASSUME NEW j, Decoded(j) PROVE Decoded(j)'
  BY <1>1, <1>3 DEF Decoded
<1> QED
  BY <1>2, <1>3

\* A decoder is told more.
LEMMA EventsTold ==
    ASSUME EventsInv, UNCHANGED <<origin, requests, settings, asked>>,
           NEW n \in Streams1, NEW E, E = EventsFor(settings, requests[origin[n]]),
           NEW e, Tells(n, e, E), \E m \in 0..Len(E) : e = UpTo(E, m)
    PROVE  /\ EventsInv' /\ events'[n] = e /\ \A j : Decoded(j) => Decoded(j)'
<1>1. Streams1' = Streams1 /\ Numbers' = Numbers
  BY DEF Streams1, Numbers
<1>2. n \in Numbers
  BY DEF Streams1
<1>3. CASE events' = events /\ e = events[n]
  <2>1. UNCHANGED <<events, origin, requests, settings>> /\ 1..asked \subseteq 1..(asked')
    BY <1>3
  <2> QED
    BY <1>3, <2>1, EventsStay
<1>4. CASE events' = [events EXCEPT ![n] = e] /\ events[n] # E
  <2>1. /\ DOMAIN events' = DOMAIN events /\ events'[n] = e
        /\ \A k \in Numbers : k # n => events'[k] = events[k]
    BY <1>2, <1>4 DEF EventsInv
  <2>2. ASSUME NEW k \in Numbers
        PROVE  IF k \in Streams1
               THEN /\ origin[k] \in 1..asked
                    /\ \E m \in 0..Len(EventsFor(settings, requests[origin[k]])) :
                          events'[k] = UpTo(EventsFor(settings, requests[origin[k]]), m)
               ELSE events'[k] = <<>>
    <3>1. CASE k = n
      <4>1. origin[n] \in 1..asked
        BY <1>2 DEF EventsInv
      <4> QED
        BY <2>1, <3>1, <4>1
    <3>2. CASE k # n
      <4>1. events'[k] = events[k]
        BY <2>1, <3>2
      <4> QED
        BY <4>1 DEF EventsInv
    <3> QED
      BY <3>1, <3>2
  <2>3. EventsInv'
    BY <1>1, <2>1, <2>2 DEF EventsInv
  <2>4. ASSUME NEW j, Decoded(j) PROVE Decoded(j)'
    <3>1. PICK k \in Streams1 : origin[k] = j /\ events[k] = EventsFor(settings, requests[j])
      BY <2>4 DEF Decoded
    <3>2. k # n
      BY <1>4, <3>1
    <3>3. events'[k] = events[k]
      BY <2>1, <3>2 DEF Streams1
    <3> QED
      BY <1>1, <3>1, <3>3 DEF Decoded
  <2> QED
    BY <2>1, <2>3, <2>4
<1> QED
  BY <1>3, <1>4 DEF Tells

\* A stream is opened.
LEMMA EventsOpened ==
    ASSUME EventsInv, UNCHANGED <<events, requests, settings, asked>>, NEW c \in Nat, DOMAIN origin = Numbers,
           Streams1 = 1..c, Streams1' = 1..(c + 1), c + 1 \in Numbers,
           NEW i \in 1..asked, origin' = [origin EXCEPT ![c + 1] = i], IsRequest(requests[i])
    PROVE  /\ EventsInv' /\ events'[c + 1] = <<>> /\ origin'[c + 1] = i /\ \A j : Decoded(j) => Decoded(j)'
<1>1. Numbers' = Numbers
  BY DEF Numbers
<1>2. origin'[c + 1] = i /\ \A k \in Numbers : k # c + 1 => origin'[k] = origin[k]
  OBVIOUS
<1>3. c + 1 \notin Streams1 /\ (\A k \in 1..(c + 1) : k # c + 1 => k \in Streams1) /\ \A k \in Streams1 : k \in 1..(c + 1) /\ k # c + 1
  OBVIOUS
<1>4. events'[c + 1] = <<>>
  BY <1>3 DEF EventsInv
<1>5. ASSUME NEW k \in Numbers
      PROVE  IF k \in 1..(c + 1)
             THEN /\ origin'[k] \in 1..asked
                  /\ \E m \in 0..Len(EventsFor(settings, requests[origin'[k]])) :
                        events[k] = UpTo(EventsFor(settings, requests[origin'[k]]), m)
             ELSE events[k] = <<>>
  <2>1. CASE k = c + 1
    <3>1. k \in 1..(c + 1) /\ origin'[k] = i /\ events[k] = <<>>
      BY <1>2, <1>4, <2>1
    <3>2. PICK E : E = EventsFor(settings, requests[i])
      OBVIOUS
    <3>3. UpTo(E, 0) = <<>>
      BY UpToMore
    <3>4. 0 \in 0..Len(E)
      <4>1. PICK r : r = requests[i] /\ IsRequest(r)
        OBVIOUS
      <4>2. E = RequestEvents(r)
        BY <3>2, <4>1, EventsForIs
      <4>3. IsEvents(E, r)
        BY <4>1, <4>2, EventsAre
      <4>4. Len(E) \in Nat
        BY <4>1, <4>3, EventsLength
      <4> QED
        BY <4>4
    <3> QED
      BY <3>1, <3>2, <3>3, <3>4
  <2>2. CASE k # c + 1
    <3>1. k \in 1..(c + 1) <=> k \in Streams1
      BY <1>3, <2>2
    <3>2. origin'[k] = origin[k]
      BY <1>2, <2>2
    <3> QED
      BY <3>1, <3>2 DEF EventsInv
  <2> QED
    BY <2>1, <2>2
<1>6. EventsInv'
  BY <1>1, <1>5 DEF EventsInv
<1>7. ASSUME NEW j, Decoded(j) PROVE Decoded(j)'
  <2>1. PICK k \in Streams1 : origin[k] = j /\ events[k] = EventsFor(settings, requests[j])
    BY <1>7 DEF Decoded
  <2>2. k \in Numbers /\ k # c + 1 /\ k \in 1..(c + 1)
    BY <1>3, <2>1 DEF Streams1
  <2>3. origin'[k] = j
    BY <1>2, <2>1, <2>2
  <2> QED
    BY <2>1, <2>2, <2>3 DEF Decoded
<1> QED
  BY <1>2, <1>4, <1>6, <1>7

LEMMA RequestsAre ==
    ASSUME NEW c \in Nat, ReadInv(c), requests # <<>>
    PROVE  /\ AreRequests(requests) /\ asked \in 0..Len(requests) /\ Len(requests) \in Nat
           /\ \A i \in 1..asked : IsRequest(requests[i])
<1>1. requests \in Conversations
  BY DEF ReadInv
<1>2. PICK L \in Nat : L = Len(requests) /\ DOMAIN requests = 1..L
  BY <1>1, SessionAssumption DEF IsText
<1>3. ASSUME NEW i \in 1..L PROVE IsRequest(requests[i])
  BY <1>1, <1>2, SessionAssumption DEF IsRequest
<1>4. asked \in 0..L
  BY <1>2 DEF ReadInv
<1> QED
  BY <1>2, <1>3, <1>4 DEF AreRequests

LEMMA LeftSame ==
    ASSUME NEW p \in Nat, LeftAt(p), UNCHANGED <<requests, asked>>, Pending' = Pending
    PROVE  LeftAt(p)'
BY DEF LeftAt

\* The token that a callback takes, and those behind it in the slice.
LEMMA LeftNext ==
    ASSUME NEW c \in Nat, ReadInv(c), requests # <<>>, parse.slice # <<>>, UNCHANGED sessionVars,
           NEW p \in Nat, LeftAt(p)
    PROVE  /\ p + 1 \in 1..Ends(requests, asked) /\ Head(parse.slice) = SentBy(requests, asked)[p + 1]
           /\ parse'.slice = Tail(parse.slice) => LeftAt(p + 1)'
           /\ \E z \in Nat :
                 /\ DOMAIN Tail(parse.slice) = 1..z /\ p + 1 + z \in 0..Ends(requests, asked)
                 /\ \A k \in 1..z : Tail(parse.slice)[k] = SentBy(requests, asked)[p + 1 + k]
                 /\ parse'.slice = <<>> => LeftAt(p + 1 + z)'
<1>1. PICK T : \E t \in T, x \in Seq(T), y \in Seq(T) :
              /\ t = Head(parse.slice) /\ x = Tail(parse.slice)
              /\ Pending = <<t>> \o (x \o y) /\ Pending = parse.slice \o y
              /\ parse'.slice = Tail(parse.slice) => Pending' = x \o y
              /\ parse'.slice = <<>> => Pending' = y
  BY SlicePending
<1>2. PICK t \in T, x \in Seq(T), y \in Seq(T) :
              /\ t = Head(parse.slice) /\ x = Tail(parse.slice)
              /\ Pending = <<t>> \o (x \o y)
              /\ parse'.slice = Tail(parse.slice) => Pending' = x \o y
              /\ parse'.slice = <<>> => Pending' = y
  BY <1>1
<1>3. PICK X \in Nat, Y \in Nat : X = Len(x) /\ DOMAIN x = 1..X /\ Y = Len(y)
  BY LenProperties
<1>4. PICK v \in Seq(T) : v = x \o y
  <2>1. x \o y \in Seq(T)
    OBVIOUS
  <2> QED
    BY <2>1
<1>5. Len(v) = X + Y /\ \A k \in 1..(X + Y) : v[k] = IF k <= X THEN x[k] ELSE y[k - X]
  BY <1>3, <1>4, ConcatProperties
<1>6. PICK g \in Seq(T) : g = <<t>> /\ Len(g) = 1 /\ g[1] = t
  <2>1. <<t>> \in Seq(T) /\ Len(<<t>>) = 1 /\ <<t>>[1] = t
    OBVIOUS
  <2> QED
    BY <2>1
<1>7. PICK w : w = Pending /\ w = g \o v
  BY <1>2, <1>4, <1>6
<1>8. PICK N \in Nat : N = 1 + X + Y
  OBVIOUS
<1>9. Len(w) = N /\ w[1] = t /\ \A k \in 1..(X + Y) : w[1 + k] = v[k]
  <2>1. Len(w) = 1 + (X + Y) /\ \A k \in 1..(1 + (X + Y)) : w[k] = IF k <= 1 THEN g[k] ELSE v[k - 1]
    BY <1>5, <1>6, <1>7, ConcatProperties
  <2>2. Len(w) = N
    BY <1>8, <2>1
  <2>3. w[1] = t
    <3>1. 1 \in 1..(1 + (X + Y)) /\ 1 <= 1
      OBVIOUS
    <3> QED
      BY <1>6, <2>1, <3>1
  <2>4. ASSUME NEW k \in 1..(X + Y) PROVE w[1 + k] = v[k]
    <3>1. 1 + k \in 1..(1 + (X + Y)) /\ ~(1 + k <= 1) /\ (1 + k) - 1 = k
      OBVIOUS
    <3> QED
      BY <2>1, <3>1
  <2> QED
    BY <2>2, <2>3, <2>4
<1>10. PICK s, e : s = SentBy(requests, asked) /\ e = Ends(requests, asked)
  OBVIOUS
<1>11. e = p + N /\ \A k \in 1..N : w[k] = s[p + k]
  BY <1>7, <1>9, <1>10 DEF LeftAt
<1>12. s' = s /\ e' = e /\ SentBy(requests, asked)' = s /\ Ends(requests, asked)' = e
  BY <1>10 DEF sessionVars
<1>13. p + 1 \in 1..e /\ t = s[p + 1]
  <2>1. 1 \in 1..N /\ p + 1 \in 1..(p + N)
    BY <1>8
  <2> QED
    BY <1>9, <1>11, <2>1
<1>14. ASSUME NEW k \in 1..(X + Y) PROVE v[k] = s[p + 1 + k]
  <2>1. 1 + k \in 1..N /\ p + (1 + k) = p + 1 + k
    BY <1>8
  <2>2. w[1 + k] = s[p + (1 + k)]
    BY <1>11, <2>1
  <2> QED
    BY <1>9, <2>1, <2>2
<1>15. ASSUME parse'.slice = Tail(parse.slice) PROVE LeftAt(p + 1)'
  <2>1. Pending' = v
    BY <1>2, <1>4, <1>15
  <2>2. e = (p + 1) + (X + Y)
    BY <1>8, <1>11
  <2>3. \A k \in 1..(X + Y) : v[k] = s[(p + 1) + k]
    BY <1>14
  <2> QED
    BY <1>5, <1>12, <2>1, <2>2, <2>3 DEF LeftAt
<1>16. p + 1 + X \in 0..e
  BY <1>8, <1>11
<1>17. ASSUME NEW k \in 1..X PROVE x[k] = s[p + 1 + k]
  <2>1. k \in 1..(X + Y) /\ k <= X
    OBVIOUS
  <2>2. v[k] = x[k]
    BY <1>5, <2>1
  <2> QED
    BY <1>14, <2>1, <2>2
<1>18. ASSUME parse'.slice = <<>> PROVE LeftAt(p + 1 + X)'
  <2>1. Pending' = y
    BY <1>2, <1>18
  <2>2. e = (p + 1 + X) + Y
    BY <1>8, <1>11
  <2>3. ASSUME NEW k \in 1..Y PROVE y[k] = s[(p + 1 + X) + k]
    <3>1. X + k \in 1..(X + Y) /\ ~(X + k <= X) /\ (X + k) - X = k /\ p + 1 + (X + k) = (p + 1 + X) + k
      OBVIOUS
    <3>2. v[X + k] = y[k]
      BY <1>5, <3>1
    <3>3. v[X + k] = s[p + 1 + (X + k)]
      BY <1>14, <3>1
    <3> QED
      BY <3>1, <3>2, <3>3
  <2> QED
    BY <1>3, <1>12, <2>1, <2>2, <2>3 DEF LeftAt
<1> QED
  BY <1>2, <1>3, <1>10, <1>13, <1>15, <1>16, <1>17, <1>18

LEMMA NoHeadersLinked == Linked(NoHeaders) /\ Content(NoHeaders) = <<>> /\ Proper(<<>>)
<1>1. PICK m : m = NoHeaders
  OBVIOUS
<1>2. /\ DOMAIN m = {"list", "inline", "asserts"} /\ m.asserts = TRUE /\ m.list = <<>>
      /\ m.inline = [n \in Inlines |-> 0]
  BY <1>1 DEF NoHeaders
<1>3. m.list \in Seq({0}) /\ Len(m.list) = 0 /\ 1..Len(m.list) = {}
  BY <1>2
<1>4. DOMAIN m.inline = Inlines /\ \A n \in Inlines : m.inline[n] = 0
  BY <1>2
<1>5. Linked(m)
  <2>1. MapHolds(m)
    BY <1>2 DEF MapHolds
  <2> QED
    BY <1>3, <1>4, <2>1 DEF Linked
<1>6. Content(m) = <<>>
  <2>1. DOMAIN m.list = {}
    BY <1>2
  <2>2. Content(m) = [i \in {} |-> <<m.list[i].key.text, m.list[i].value.text>>]
    BY <2>1 DEF Content
  <2> QED
    BY <2>2
<1>7. Proper(<<>>)
  <2>1. Names1(<<>>) = {}
    BY DEF Names1
  <2>2. <<>> \in Seq({0})
    OBVIOUS
  <2> QED
    BY <2>1, <2>2 DEF Proper
<1> QED
  BY <1>1, <1>5, <1>6, <1>7

\* Behind the first token of a request.
LEMMA BeginWithin ==
    ASSUME FieldsHold(fields, "begin"), fields.deferred = NoMap,
           fields' = [fields EXCEPT !.map = NoHeaders, !.state = "Field"],
           NEW n, n # 0, request' = [NoRequest EXCEPT !.n = n], NEW i, NEW r, IsRequest(r), NEW E
    PROVE  Active(request', n) /\ Within("head", E, i, r, 1, fields', request', <<>>)
<1>1. PICK f, q : f = fields' /\ q = request'
  OBVIOUS
<1>2. /\ DOMAIN f = FieldNames /\ f.map = NoHeaders /\ f.state = "Field"
      /\ f.field = fields.field /\ f.value = fields.value /\ f.deferred = NoMap
  BY <1>1 DEF FieldsHold, FieldNames
<1>3. /\ IsOwn(f.field) /\ IsOwn(f.value) /\ f.field.text = <<>> /\ f.value.text = <<>>
  BY <1>2 DEF FieldsHold, IsString, IsEmpty
<1>4. Fresh(f, <<>>)
  <2>1. Collects(f, <<>>)
    BY <1>2, <1>3, NoHeadersLinked DEF Collects
  <2> QED
    BY <1>2, <1>3, <2>1 DEF Fresh
<1>5. FieldsAt(i, f, r.headers, 0)
  BY <1>4 DEF FieldsAt
<1>6. /\ DOMAIN q = RequestNames /\ q.n = n /\ q.remoteComplete = FALSE /\ q.url = EmptyString
  BY <1>1 DEF NoRequest, RequestNames
<1>7. IsOwn(q.url) /\ q.url.text = <<>>
  BY <1>6 DEF EmptyString, Str, IsOwn
<1>8. UpTo(r.url, 0) = <<>>
  BY UpToMore
<1>9. Len(r.url) \in Nat /\ Len(AllHeaders(i, r.headers)) \in Nat
  BY TokensAt
<1>10. HeadAt(i, r, 1, f, q, <<>>)
  <2>1. PICK k \in 0..Len(r.url), x \in 0..Len(AllHeaders(i, r.headers)) : k = 0 /\ x = 0
    BY <1>9
  <2>2. 1 = 1 + k + x /\ (x # 0 => k = Len(r.url))
    BY <2>1
  <2>3. q.url.text = UpTo(r.url, k) /\ FieldsAt(i, f, r.headers, x) /\ "url" \in DOMAIN q
    BY <1>5, <1>6, <1>7, <1>8, <2>1 DEF RequestNames
  <2> QED
    BY <1>2, <1>7, <2>2, <2>3 DEF HeadAt
<1> QED
  BY <1>1, <1>6, <1>10 DEF Active, Within

\* The account at another position.
LEMMA AccountMoves ==
    ASSUME NEW p, NEW o, Account(p), UNCHANGED <<requests, asked>>,
           \A j : Decoded(j) => Decoded(j)', dropped \subseteq dropped',
           \A j \in 1..asked : Ends(requests, j) <= o => Ends(requests, j) <= p \/ Decoded(j)' \/ j \in dropped'
    PROVE  Account(o)'
<1>1. PICK a : a = asked /\ a = asked'
  OBVIOUS
<1>2. ASSUME NEW j \in 1..a, Ends(requests', j) <= o PROVE Decoded(j)' \/ j \in dropped'
  <2>1. Ends(requests, j) <= o
    BY <1>2
  <2>2. CASE Ends(requests, j) <= p
    <3>1. Decoded(j) \/ j \in dropped
      BY <1>1, <2>2 DEF Account
    <3> QED
      BY <3>1
  <2> QED
    BY <1>1, <2>1, <2>2
<1> QED
  BY <1>1, <1>2 DEF Account

\* There is less of the slice.
LEMMA OwnersLess ==
    ASSUME NEW c \in Nat, ReadInv(c), parse.slice # <<>>, OwnersInv, UNCHANGED sessionVars,
           parse'.slice = Tail(parse.slice) \/ parse'.slice = <<>>
    PROVE  OwnersInv'
<1>1. PICK T : parse.slice \in Seq(T)
  BY DEF ReadInv
<1>2. PICK s \in Seq(T) : s = parse.slice /\ s # <<>>
  BY <1>1
<1>3. PICK L \in Nat : L = Len(s) /\ L # 0
  BY <1>2, EmptySeq, LenProperties
<1>4. PICK t \in Seq(T) : t = Tail(s) /\ Len(t) = L - 1 /\ \A k \in 1..(L - 1) : t[k] = s[k + 1]
  <2>1. Tail(s) \in Seq(T) /\ Len(Tail(s)) = L - 1 /\ \A k \in 1..(L - 1) : Tail(s)[k] = s[k + 1]
    BY <1>3
  <2> QED
    BY <2>1
<1>5. UNCHANGED <<pipelined, asked, firstRequestBuffer, incoming>>
  BY DEF sessionVars
<1>6. ASSUME NEW j, OneOf(parse.slice, j) PROVE OneOf(parse'.slice, j)
  <2>1. OneOf(t, j)
    <3>1. ASSUME NEW k \in 1..(L - 1) PROVE t[k].of = j
      <4>1. k + 1 \in 1..L
        BY <1>3
      <4>2. s[k + 1].of = j
        BY <1>2, <1>3, <1>6, <4>1 DEF OneOf
      <4> QED
        BY <1>4, <4>2
    <3> QED
      BY <1>4, <3>1 DEF OneOf
  <2>2. OneOf(<<>>, j)
    BY DEF OneOf
  <2> QED
    BY <1>2, <1>4, <2>1, <2>2
<1>7. Left' = Left
  BY <1>5 DEF Left
<1>8. ASSUME ~pipelined' PROVE (\E j : OneOf(parse'.slice, j)) /\ OneOf(Left', asked')
  <2>1. (\E j : OneOf(parse.slice, j)) /\ OneOf(Left, asked)
    BY <1>5, <1>8 DEF OwnersInv
  <2> QED
    BY <1>5, <1>6, <1>7, <2>1
<1> QED
  BY <1>5, <1>8 DEF OwnersInv, OneOf

\* A callback that begins a request.
LEMMA BeginOrder ==
    ASSUME NEW c \in Nat, ReadInv(c), HeadersInv, requests # <<>>, EventsInv, resetCalled = FALSE,
           NEW p \in Nat, OrderInv(p), parse.expects = "begin", parse.slice # <<>>,
           Head(parse.slice).kind = "begin", OnMessageBegin(Head(parse.slice).of),
           UNCHANGED <<sessionVars, settings>>
    PROVE  EventsInv' /\ \E o \in Nat : OrderInv(o)'
<1>1. PICK rs, a : rs = requests /\ a = asked /\ rs = requests' /\ a = asked'
  BY DEF sessionVars
<1>2. AreRequests(rs) /\ a \in 0..Len(rs) /\ \A i \in 1..a : IsRequest(rs[i])
  BY <1>1, RequestsAre
<1>3. LeftAt(p) /\ Account(p) /\ OwnersInv /\ DropsInv /\ StageInv(p)
  BY DEF OrderInv
<1>4. PICK t : t = Head(parse.slice)
  OBVIOUS
<1>5. p + 1 \in 1..Ends(rs, a) /\ t = SentBy(rs, a)[p + 1] /\ (parse'.slice = Tail(parse.slice) => LeftAt(p + 1)')
  BY <1>1, <1>3, <1>4, LeftNext
<1>6. PICK i \in 1..a : p = Ends(rs, i - 1) /\ t.of = i
  BY <1>2, <1>4, <1>5, BeginsAt
<1>7. /\ c + 1 \in Numbers /\ ReadInv(c + 1)' /\ request' = [NoRequest EXCEPT !.n = c + 1]
  BY BeginRead
<1>8. PICK n : n = Cardinality(Streams1) + 1
  OBVIOUS
<1>9. /\ GoesOn("head", FALSE, parse.http10) /\ events' = events
      /\ fields' = [fields EXCEPT !.map = NoHeaders, !.state = "Field"]
      /\ request' = [NoRequest EXCEPT !.n = n] /\ origin' = [origin EXCEPT ![n] = i]
  BY <1>4, <1>6, <1>8 DEF OnMessageBegin
<1>10. n = c + 1
  <2>1. [NoRequest EXCEPT !.n = n].n = n /\ [NoRequest EXCEPT !.n = c + 1].n = c + 1
    BY DEF NoRequest
  <2> QED
    BY <1>7, <1>9, <2>1
<1>11. /\ DOMAIN origin = Numbers /\ Streams1 = 1..c /\ Streams1' = 1..(c + 1)
  BY <1>7 DEF ReadInv
<1>12. IsRequest(requests[i]) /\ i \in 1..asked
  BY <1>1, <1>2
<1>13. /\ EventsInv' /\ events'[c + 1] = <<>> /\ origin'[c + 1] = i /\ \A j : Decoded(j) => Decoded(j)'
  <2>1. UNCHANGED <<events, requests, settings, asked>>
    BY <1>1, <1>9
  <2>2. origin' = [origin EXCEPT ![c + 1] = i]
    BY <1>9, <1>10
  <2> QED
    BY <1>7, <1>11, <1>12, <2>1, <2>2, EventsOpened
<1>14. parse'.slice = Tail(parse.slice) /\ parse'.expects = "head" /\ dropped' = dropped
  BY <1>9 DEF GoesOn
<1>15. LeftAt(p + 1)'
  BY <1>5, <1>14
<1>16. PICK r : r = rs[i] /\ IsRequest(r)
  BY <1>2
<1>17. Account(p + 1)'
  <2>1. ASSUME NEW j \in 1..a, Ends(rs, j) <= p + 1 PROVE Ends(rs, j) <= p
    <3>1. PICK y \in Nat : y = 0 /\ y + 1 < Len(Tokens(i, rs[i])) /\ p = Ends(rs, i - 1) + y
      <4>1. i \in 1..Len(rs)
        BY <1>2 DEF AreRequests
      <4>2. Len(Tokens(i, rs[i])) \in Nat /\ Len(Tokens(i, rs[i])) >= 2 /\ Ends(rs, i - 1) \in Nat
        BY <1>2, <4>1, EndsNext
      <4> QED
        BY <1>6, <4>2
    <3> QED
      BY <1>2, <2>1, <3>1, NoEnd
  <2>2. dropped \subseteq dropped'
    BY <1>14
  <2>3. UNCHANGED <<requests, asked>>
    BY <1>1
  <2> QED
    BY <1>1, <1>3, <1>13, <2>1, <2>2, <2>3, AccountMoves
<1>18. OwnersInv'
  <2>1. UNCHANGED sessionVars
    OBVIOUS
  <2> QED
    BY <1>3, <1>14, <2>1, OwnersLess
<1>19. DropsInv'
  <2>1. pipelined' = pipelined
    BY DEF sessionVars
  <2> QED
    BY <1>3, <1>14, <2>1 DEF DropsInv
<1>20. StageInv(p + 1)'
  <2>1. PICK k : k = c + 1
    OBVIOUS
  <2>2. k # 0 /\ k \in Streams1'
    BY <1>11, <2>1
  <2>3. FieldsHold(fields, "begin")
    BY DEF HeadersInv
  <2>4. fields.deferred = NoMap
    <3>1. ASSUME NEW d, NEW E, NEW j, NEW u, NEW y, NEW f, NEW q, NEW ev,
                 Within(d, E, j, u, y, f, q, ev), d = "begin" PROVE FALSE
      BY <3>1 DEF Within
    <3>2. ~ \E m \in Streams1 : \E y \in Nat :
              Within(parse.expects, EventsFor(settings, requests[origin[m]]), origin[m],
                    requests[origin[m]], y, fields, request, events[m])
      BY <3>1
    <3> QED
      BY <1>3, <3>2 DEF StageInv
  <2>5. PICK E : E = EventsFor(settings', requests'[origin'[k]])
    OBVIOUS
  <2>6. Active(request', k) /\ Within("head", E, i, r, 1, fields', request', <<>>)
    <3>1. request' = [NoRequest EXCEPT !.n = k]
      BY <1>7, <2>1
    <3> QED
      BY <1>9, <1>16, <2>2, <2>3, <2>4, <3>1, BeginWithin
  <2>7. origin'[k] = i /\ events'[k] = <<>> /\ requests'[i] = r
    BY <1>1, <1>13, <1>16, <2>1
  <2>8. p + 1 = Ends(requests', origin'[k] - 1) + 1
    BY <1>1, <1>6, <2>7
  <2> QED
    BY <1>14, <2>2, <2>5, <2>6, <2>7, <2>8 DEF StageInv
<1>21. OrderInv(p + 1)' /\ p + 1 \in Nat
  BY <1>15, <1>17, <1>18, <1>19, <1>20 DEF OrderInv
<1> QED
  BY <1>13, <1>21

\* A callback in the middle of a request.
LEMMA MovesOrder ==
    ASSUME NEW c \in Nat, ReadInv(c), requests # <<>>, EventsInv, NEW p \in Nat, OrderInv(p),
           parse.slice # <<>>, UNCHANGED <<sessionVars, settings, origin>>,
           NEW n \in Streams1, NEW y \in Nat, NEW i \in 1..asked, i = origin[n],
           NEW r, r = requests[i], IsRequest(r), p = Ends(requests, i - 1) + y,
           NEW E, E = EventsFor(settings, r), Moves(n, E, i, r, y)
    PROVE  EventsInv' /\ OrderInv(p + 1)'
<1>1. PICK rs, a : rs = requests /\ a = asked /\ rs = requests' /\ a = asked'
  BY DEF sessionVars
<1>2. AreRequests(rs) /\ a \in 0..Len(rs)
  BY <1>1, RequestsAre
<1>3. LeftAt(p) /\ Account(p) /\ OwnersInv /\ DropsInv
  BY DEF OrderInv
<1>4. PICK d \in {"head", "body"} : \E h : \E e :
         /\ GoesOn(d, FALSE, h) /\ Active(request', n) /\ Tells(n, e, E)
         /\ Within(d, E, i, r, y + 1, fields', request', e)
  BY DEF Moves
<1>5. PICK h, e :
         /\ GoesOn(d, FALSE, h) /\ Active(request', n) /\ Tells(n, e, E)
         /\ Within(d, E, i, r, y + 1, fields', request', e)
  BY <1>4
<1>6. parse'.slice = Tail(parse.slice) /\ parse'.expects = d /\ dropped' = dropped
  BY <1>5 DEF GoesOn
<1>7. LeftAt(p + 1)'
  BY <1>3, <1>6, LeftNext
<1>8. EventsInv' /\ events'[n] = e /\ \A j : Decoded(j) => Decoded(j)'
  <2>1. UNCHANGED <<origin, requests, settings, asked>>
    BY <1>1
  <2>2. E = RequestEvents(r)
    BY EventsForIs
  <2>3. IsEvents(E, r)
    BY <2>2, EventsAre
  <2>4. \E m \in 0..Len(E) : e = UpTo(E, m)
    BY <1>5, <2>3, WithinEvents
  <2>5. E = EventsFor(settings, requests[origin[n]])
    OBVIOUS
  <2> QED
    BY <1>5, <2>1, <2>4, <2>5, EventsTold
<1>9. Account(p + 1)'
  <2>1. Len(Tokens(i, rs[i])) \in Nat /\ y + 1 < Len(Tokens(i, rs[i]))
    BY <1>1, <1>5, WithinBound
  <2>2. ASSUME NEW j \in 1..a, Ends(rs, j) <= p + 1 PROVE Ends(rs, j) <= p
    <3>1. p = Ends(rs, i - 1) + y /\ i \in 1..a
      BY <1>1
    <3> QED
      BY <1>2, <2>1, <2>2, <3>1, NoEnd
  <2>3. dropped \subseteq dropped'
    BY <1>6
  <2>4. UNCHANGED <<requests, asked>>
    BY <1>1
  <2> QED
    BY <1>1, <1>3, <1>8, <2>2, <2>3, <2>4, AccountMoves
<1>10. OwnersInv'
  <2>1. UNCHANGED sessionVars
    OBVIOUS
  <2> QED
    BY <1>3, <1>6, <2>1, OwnersLess
<1>11. DropsInv'
  <2>1. pipelined' = pipelined
    BY DEF sessionVars
  <2> QED
    BY <1>3, <1>6, <2>1 DEF DropsInv
<1>12. StageInv(p + 1)'
  <2>1. n \in Streams1'
    BY DEF Streams1, Numbers
  <2>2. origin'[n] = i /\ requests'[i] = r /\ EventsFor(settings', r) = E
    BY <1>1
  <2>3. p + 1 = Ends(requests', origin'[n] - 1) + (y + 1) /\ y + 1 \in Nat
    <3>1. PICK s : s = Ends(requests, i - 1) /\ s = Ends(requests', origin'[n] - 1)
      BY <1>1, <2>2
    <3>2. s \in Nat
      <4>1. i \in 1..Len(rs)
        BY <1>1, <1>2 DEF AreRequests
      <4> QED
        BY <1>1, <1>2, <3>1, <4>1, EndsNext
    <3> QED
      BY <3>1, <3>2
  <2>4. PICK k \in Nat : k = y + 1
    BY <2>3
  <2>5. Within(parse'.expects, EventsFor(settings', requests'[origin'[n]]), origin'[n],
               requests'[origin'[n]], k, fields', request', events'[n])
    BY <1>5, <1>6, <1>8, <2>2, <2>4
  <2>6. p + 1 = Ends(requests', origin'[n] - 1) + k
    BY <2>3, <2>4
  <2> QED
    BY <1>5, <2>1, <2>5, <2>6 DEF StageInv
<1> QED
  BY <1>7, <1>8, <1>9, <1>10, <1>11, <1>12 DEF OrderInv

LEMMA WithinSum ==
    ASSUME NEW b \in Nat, NEW g \in Nat, NEW z \in Nat, NEW k \in 1..z, b + z <= g
    PROVE  b + k \in 1..g /\ b + k > b /\ b + k \in Nat
OBVIOUS

\* The callback that ends a request, behind which the rest of the slice is dropped.
LEMMA FinishesOrder ==
    ASSUME NEW c \in Nat, ReadInv(c), requests # <<>>, EventsInv, NEW p \in Nat, OrderInv(p),
           parse.slice # <<>>, UNCHANGED <<sessionVars, settings, origin>>,
           NEW n \in Streams1, NEW y \in Nat, NEW i \in 1..asked, i = origin[n],
           NEW r, r = requests[i], IsRequest(r), p = Ends(requests, i - 1) + y,
           NEW E, E = EventsFor(settings, r), Finishes(n, E, i, r, y)
    PROVE  EventsInv' /\ \E o \in Nat : OrderInv(o)'
<1>1. PICK rs, a : rs = requests /\ a = asked /\ rs = requests' /\ a = asked'
  BY DEF sessionVars
<1>2. AreRequests(rs) /\ a \in 0..Len(rs)
  BY <1>1, RequestsAre
<1>3. LeftAt(p) /\ Account(p) /\ OwnersInv /\ DropsInv
  BY DEF OrderInv
<1>4. PICK h :
         /\ y + 1 = Len(Tokens(i, r)) /\ GoesOn("begin", TRUE, h)
         /\ events' = [events EXCEPT ![n] = E] /\ events[n] # E
         /\ fields'.deferred = NoMap
  BY DEF Finishes
<1>5. PICK w : w = Tail(parse.slice)
  OBVIOUS
<1>6. /\ parse'.slice = <<>> /\ parse'.expects = "begin"
      /\ dropped' = dropped \cup {w[k].of : k \in DOMAIN w}
  BY <1>4, <1>5 DEF GoesOn
<1>7. PICK t, s : t = Head(parse.slice) /\ s = SentBy(rs, a)
  OBVIOUS
<1>8. PICK z \in Nat :
         /\ DOMAIN w = 1..z /\ p + 1 + z \in 0..Ends(rs, a)
         /\ \A k \in 1..z : w[k] = s[p + 1 + k]
         /\ LeftAt(p + 1 + z)'
  <2>1. /\ p + 1 \in 1..Ends(requests, asked) /\ Head(parse.slice) = SentBy(requests, asked)[p + 1]
        /\ \E z \in Nat :
              /\ DOMAIN Tail(parse.slice) = 1..z /\ p + 1 + z \in 0..Ends(requests, asked)
              /\ \A k \in 1..z : Tail(parse.slice)[k] = SentBy(requests, asked)[p + 1 + k]
              /\ parse'.slice = <<>> => LeftAt(p + 1 + z)'
    <3>1. UNCHANGED sessionVars
      OBVIOUS
    <3> QED
      BY <1>3, <3>1, LeftNext
  <2> QED
    BY <1>1, <1>5, <1>6, <1>7, <2>1
<1>9. PICK e \in Nat : e = p + 1 /\ e = Ends(rs, i)
  <2>1. i \in 1..Len(rs)
    BY <1>1, <1>2 DEF AreRequests
  <2>2. PICK x \in Nat, l \in Nat : x = Ends(rs, i - 1) /\ l = Len(Tokens(i, rs[i])) /\ Ends(rs, i) = x + l
    BY <1>2, <2>1, EndsNext
  <2>3. p = x + y /\ y + 1 = l
    BY <1>1, <1>4, <2>2
  <2>4. p + 1 = x + l /\ p + 1 \in Nat
    BY <2>3
  <2> QED
    BY <2>2, <2>4
<1>10. EventsInv' /\ events'[n] = E /\ \A j : Decoded(j) => Decoded(j)'
  <2>1. UNCHANGED <<origin, requests, settings, asked>>
    BY <1>1
  <2>2. E = RequestEvents(r)
    BY EventsForIs
  <2>3. IsEvents(E, r)
    BY <2>2, EventsAre
  <2>4. \E m \in 0..Len(E) : E = UpTo(E, m)
    <3>1. Len(E) \in Nat /\ E = UpTo(E, Len(E))
      BY <2>3, EventsLength
    <3>2. Len(E) \in 0..Len(E)
      BY <3>1
    <3> QED
      BY <3>1, <3>2
  <2>5. E = EventsFor(settings, requests[origin[n]])
    OBVIOUS
  <2>6. Tells(n, E, E)
    BY <1>4 DEF Tells
  <2> QED
    BY <2>1, <2>4, <2>5, <2>6, EventsTold
<1>11. PICK o \in Nat : o = p + 1 + z
  OBVIOUS
<1>12. Account(o)'
  <2>1. Decoded(i)'
    <3>1. n \in Streams1'
      BY DEF Streams1, Numbers
    <3>2. origin'[n] = i /\ events'[n] = EventsFor(settings', requests'[i])
      BY <1>1, <1>10
    <3> QED
      BY <3>1, <3>2 DEF Decoded
  <2>2. ASSUME NEW j \in 1..a, Ends(rs, j) <= o
        PROVE  Ends(rs, j) <= p \/ Decoded(j)' \/ j \in dropped'
    <3>1. PICK u \in Nat : u = Ends(rs, j) /\ s[u].of = j
      <4>1. Ends(rs, j) \in 1..Ends(rs, a) /\ SentBy(rs, a)[Ends(rs, j)].of = j
        BY <1>2, LastToken
      <4> QED
        BY <1>7, <4>1
    <3>2. CASE u <= p + 1
      <4>1. p + 1 = Ends(rs, i) /\ i \in 1..a /\ Ends(rs, j) <= p + 1
        BY <1>1, <1>9, <3>1, <3>2
      <4>2. j = i \/ Ends(rs, j) <= p
        BY <1>2, <4>1, OneEnd
      <4> QED
        BY <2>1, <4>2
    <3>3. CASE u > p + 1
      <4>1. PICK k \in 1..z : u = p + 1 + k
        <5>1. u <= p + 1 + z
          BY <1>11, <2>2, <3>1
        <5>2. PICK k \in Nat : k = u - (p + 1)
          BY <3>3
        <5>3. u = p + 1 + k
          BY <5>2
        <5>4. k <= z
          BY <5>1, <5>3
        <5>5. k >= 1
          BY <3>3, <5>3
        <5>6. k \in 1..z
          BY <5>4, <5>5
        <5> QED
          BY <5>3, <5>6
      <4>2. w[k].of = j
        BY <1>8, <3>1, <4>1
      <4>3. j \in {w[x].of : x \in DOMAIN w}
        BY <1>8, <4>2
      <4> QED
        BY <1>6, <4>3
    <3> QED
      BY <3>1, <3>2, <3>3
  <2>3. dropped \subseteq dropped'
    BY <1>6
  <2>4. UNCHANGED <<requests, asked>>
    BY <1>1
  <2> QED
    BY <1>1, <1>3, <1>10, <2>2, <2>3, <2>4, AccountMoves
<1>13. OwnersInv'
  <2>1. UNCHANGED sessionVars
    OBVIOUS
  <2> QED
    BY <1>3, <1>6, <2>1, OwnersLess
<1>14. DropsInv'
  <2>1. pipelined' = pipelined
    BY DEF sessionVars
  <2>2. ASSUME NEW j \in dropped' PROVE j > 1 /\ pipelined
    <3>1. CASE j \in dropped
      BY <1>3, <3>1 DEF DropsInv
    <3>2. CASE j \notin dropped
      <4>1. PICK k \in 1..z : w[k].of = j
        BY <1>6, <1>8, <3>2
      <4>2. PICK x \in Nat : x = p + 1 + k /\ x \in 1..Ends(rs, a) /\ x > Ends(rs, i)
        <5>1. PICK g \in Nat : g = Ends(rs, a)
          BY <1>2, SentMore
        <5>2. p + 1 + z <= g
          BY <1>8, <5>1
        <5>3. p + 1 + k \in 1..g /\ p + 1 + k > p + 1 /\ p + 1 + k \in Nat
          <6>1. PICK b \in Nat : b = p + 1
            OBVIOUS
          <6>2. b + z <= g
            BY <5>2, <6>1
          <6>3. b + k \in 1..g /\ b + k > b /\ b + k \in Nat
            BY <6>2, WithinSum, Zenon
          <6> QED
            BY <6>1, <6>3, Zenon
        <5>4. p + 1 + k > Ends(rs, i)
          BY <1>9, <5>3
        <5> QED
          BY <5>1, <5>3, <5>4
      <4>3. s[x].of = j
        BY <1>8, <4>1, <4>2
      <4>4. j \in 1..a /\ j > i
        <5>1. i \in 1..a
          BY <1>1
        <5>2. SentBy(rs, a)[x].of \in 1..a /\ SentBy(rs, a)[x].of > i
          BY <1>2, <4>2, <5>1, LaterToken
        <5> QED
          BY <1>7, <4>3, <5>2
      <4>5. j > 1 /\ j # i
        <5>1. a \in Nat
          BY <1>2 DEF AreRequests
        <5>2. i \in 1..a
          BY <1>1
        <5> QED
          BY <4>4, <5>1, <5>2
      <4>6. ASSUME ~pipelined PROVE FALSE
        <5>1. PICK m : OneOf(parse.slice, m)
          BY <1>3, <4>6 DEF OwnersInv
        <5>2. t.of = i
          <6>1. PICK q : q = Tokens(i, r) /\ Len(q) \in Nat /\ y + 1 \in 1..Len(q) /\ OfRequest(q, i)
            <7>1. PICK q : q = Tokens(i, r) /\ OfRequest(q, i)
              BY TextOf
            <7>2. PICK l \in Nat : l = Len(q) /\ l >= 2
              BY <7>1 DEF OfRequest
            <7>3. y + 1 \in 1..l
              BY <1>4, <7>1, <7>2
            <7> QED
              BY <7>1, <7>2, <7>3
          <6>2. q[y + 1].of = i
            BY <6>1 DEF OfRequest
          <6>3. t = s[p + 1]
            BY <1>1, <1>3, <1>7, LeftNext
          <6>4. SentBy(rs, a)[p + 1] = Tokens(i, rs[i])[y + 1]
            <7>1. i \in 1..a /\ y + 1 \in 1..Len(Tokens(i, rs[i]))
              BY <1>1, <6>1
            <7>2. p + 1 = Ends(rs, i - 1) + (y + 1)
              <8>1. i \in 1..Len(rs)
                BY <1>1, <1>2 DEF AreRequests
              <8>2. PICK v \in Nat : v = Ends(rs, i - 1)
                BY <1>2, <8>1, EndsNext
              <8>3. p = v + y
                BY <1>1, <8>2
              <8> QED
                BY <8>2, <8>3
            <7>3. PICK v, z1 : v = y + 1 /\ z1 = p + 1
              OBVIOUS
            <7>4. v \in 1..Len(Tokens(i, rs[i])) /\ z1 = Ends(rs, i - 1) + v
              BY <7>1, <7>2, <7>3
            <7>5. SentBy(rs, a)[z1] = Tokens(i, rs[i])[v]
              <8>1. AreRequests(rs) /\ a \in 0..Len(rs) /\ i \in 1..a
                BY <1>2, <7>1
              <8> QED
                BY <7>4, <8>1, TokenAt
            <7> QED
              BY <7>3, <7>5
          <6> QED
            BY <1>1, <1>7, <6>1, <6>2, <6>3, <6>4
        <5>3. PICK T : parse.slice \in Seq(T)
          BY DEF ReadInv
        <5>4. PICK q \in Seq(T) : q = parse.slice /\ q # <<>>
          BY <5>3
        <5>5. PICK L \in Nat : L = Len(q) /\ L # 0
          BY <5>4, EmptySeq, LenProperties
        <5>6. t = q[1] /\ w \in Seq(T) /\ Len(w) = L - 1 /\ \A g \in 1..(L - 1) : w[g] = q[g + 1]
          BY <1>5, <1>7, <5>4, <5>5
        <5>7. z = L - 1
          <6>1. PICK v \in Nat : v = Len(w) /\ DOMAIN w = 1..v
            BY <5>6, LenProperties
          <6>2. v = z
            BY <1>8, <6>1
          <6> QED
            BY <5>6, <6>1, <6>2
        <5>8. q[1].of = m /\ q[k + 1].of = m
          <6>1. 1 \in 1..L /\ k + 1 \in 1..L
            BY <5>5, <5>7
          <6> QED
            BY <5>1, <5>4, <5>5, <6>1 DEF OneOf
        <5>9. w[k].of = m
          BY <5>6, <5>7, <5>8
        <5> QED
          BY <4>1, <4>5, <5>2, <5>6, <5>8, <5>9
      <4>7. pipelined
        BY <1>3, <4>6 DEF OwnersInv
      <4> QED
        BY <4>5, <4>7
    <3> QED
      BY <3>1, <3>2
  <2> QED
    BY <2>1, <2>2 DEF DropsInv
<1>15. StageInv(o)'
  BY <1>4, <1>6 DEF StageInv
<1>16. LeftAt(o)'
  BY <1>8, <1>11
<1>17. OrderInv(o)'
  BY <1>12, <1>13, <1>14, <1>15, <1>16 DEF OrderInv
<1> QED
  BY <1>10, <1>17

LEMMA WithinOrder ==
    ASSUME NEW c \in Nat, ReadInv(c), requests # <<>>, EventsInv, NEW p \in Nat, OrderInv(p),
           parse.slice # <<>>, UNCHANGED <<sessionVars, settings>>, Callback, parse.expects # "begin"
    PROVE  EventsInv' /\ \E o \in Nat : OrderInv(o)'
<1>1. StageInv(p) /\ LeftAt(p)
  BY DEF OrderInv
<1>2. PICK n \in Streams1 : \E y \in Nat :
          /\ Active(request, n) /\ p = Ends(requests, origin[n] - 1) + y
          /\ Within(parse.expects, EventsFor(settings, requests[origin[n]]), origin[n],
                    requests[origin[n]], y, fields, request, events[n])
  BY <1>1 DEF StageInv
<1>3. PICK y \in Nat :
          /\ Active(request, n) /\ p = Ends(requests, origin[n] - 1) + y
          /\ Within(parse.expects, EventsFor(settings, requests[origin[n]]), origin[n],
                    requests[origin[n]], y, fields, request, events[n])
  BY <1>2
<1>4. n \in DOMAIN events /\ origin[n] \in 1..asked
  BY DEF EventsInv, Streams1
<1>5. PICK i \in 1..asked : i = origin[n]
  BY <1>4
<1>6. PICK r : r = requests[i] /\ IsRequest(r)
  BY RequestsAre
<1>7. PICK E : E = EventsFor(settings, r) /\ E = RequestEvents(r)
  BY EventsForIs
<1>8. Within(parse.expects, E, i, r, y, fields, request, events[n])
  BY <1>3, <1>5, <1>6, <1>7
<1>9. p = Ends(requests, i - 1) + y
  BY <1>3, <1>5
<1>10. AreRequests(requests) /\ asked \in 0..Len(requests)
  BY RequestsAre
<1>11. Head(parse.slice) = Tokens(i, r)[y + 1]
  <2>1. y \in 1..Len(Tokens(i, r)) /\ Len(Tokens(i, r)) \in Nat /\ y < Len(Tokens(i, r))
    BY <1>6, <1>8, WithinBound
  <2>2. PICK v, x : v = y + 1 /\ x = p + 1
    OBVIOUS
  <2>3. v \in 1..Len(Tokens(i, requests[i]))
    BY <1>6, <2>1, <2>2
  <2>4. x = Ends(requests, i - 1) + v
    <3>1. i \in 1..Len(requests)
      BY <1>10 DEF AreRequests
    <3>2. PICK u \in Nat : u = Ends(requests, i - 1)
      BY <1>10, <3>1, EndsNext
    <3>3. p = u + y
      BY <1>9, <3>2
    <3> QED
      BY <2>2, <3>2, <3>3
  <2>5. SentBy(requests, asked)[x] = Tokens(i, requests[i])[v]
    BY <1>10, <2>3, <2>4, TokenAt
  <2>6. UNCHANGED sessionVars
    OBVIOUS
  <2>7. Head(parse.slice) = SentBy(requests, asked)[p + 1]
    BY <1>1, <2>6, LeftNext
  <2> QED
    BY <1>6, <2>2, <2>5, <2>7
<1>12. origin' = origin /\ (Moves(n, E, i, r, y) \/ Finishes(n, E, i, r, y))
  BY <1>3, <1>4, <1>6, <1>7, <1>8, <1>11, CallbackWithin
<1>13. UNCHANGED <<sessionVars, settings, origin>>
  BY <1>12
<1>14. CASE Moves(n, E, i, r, y)
  <2>1. EventsInv' /\ OrderInv(p + 1)'
    BY <1>5, <1>6, <1>7, <1>9, <1>13, <1>14, MovesOrder
  <2>2. p + 1 \in Nat
    OBVIOUS
  <2> QED
    BY <2>1, <2>2
<1>15. CASE Finishes(n, E, i, r, y)
  BY <1>5, <1>6, <1>7, <1>9, <1>13, <1>15, FinishesOrder
<1> QED
  BY <1>12, <1>14, <1>15

\* After a reset there is no request, and nothing is told any more.
LEMMA CallbackSilent ==
    ASSUME Callback, request = NoRequest, resetCalled = TRUE
    PROVE  UNCHANGED <<events, origin, request>>
<1>1. PICK t : t = Head(parse.slice)
  OBVIOUS
<1>2. \/ OnMessageBegin(t.of)
      \/ OnUrl(t.arg)
      \/ OnHeader(OnHeaderField(fields, t.arg))
      \/ OnHeader(OnHeaderValue(fields, t.arg))
      \/ OnHeadersComplete(t.arg)
      \/ OnBody(t.arg)
      \/ OnMessageComplete
  BY <1>1 DEF Callback
<1>3. CASE OnMessageBegin(t.of)
  BY <1>3 DEF OnMessageBegin
<1>4. CASE OnUrl(t.arg)
  BY <1>4 DEF OnUrl
<1>5. CASE OnHeader(OnHeaderField(fields, t.arg))
  BY <1>5 DEF OnHeader
<1>6. CASE OnHeader(OnHeaderValue(fields, t.arg))
  BY <1>6 DEF OnHeader
<1>7. CASE OnHeadersComplete(t.arg)
  BY <1>7 DEF OnHeadersComplete
<1>8. CASE OnBody(t.arg)
  BY <1>8 DEF OnBody
<1>9. CASE OnMessageComplete
  BY <1>9 DEF OnMessageComplete
<1> QED
  BY <1>2, <1>3, <1>4, <1>5, <1>6, <1>7, <1>8, <1>9

LEMMA CallbackDecodes ==
    ASSUME NEW c \in Nat, ReadInv(c), HeadersInv, DecodeInv, Callback, UNCHANGED sessionVars
    PROVE  DecodeInv'
<1>1. requests' = requests /\ speaks' = speaks /\ asked' = asked
  BY DEF sessionVars
<1>2. CASE requests = <<>>
  BY <1>1, <1>2 DEF DecodeInv
<1>3. CASE requests # <<>>
  <2>1. /\ speaks = "Http1" /\ EventsInv /\ resetCalled \in BOOLEAN /\ (resetCalled => request = NoRequest)
        /\ parse.at = "failed" \/ resetCalled \/ \E p \in Nat : OrderInv(p)
    BY <1>3 DEF DecodeInv
  <2>2. parse.at = "parse" /\ settings' = settings /\ resetCalled' = resetCalled
    BY DEF Callback
  <2>3. parse.slice # <<>> /\ parse.at # "failed"
    BY <2>2 DEF ReadInv
  <2>4. CASE resetCalled
    <3>1. request = NoRequest /\ resetCalled = TRUE
      BY <2>1, <2>4
    <3>2. UNCHANGED <<events, origin, request>>
      BY <3>1, CallbackSilent
    <3>3. UNCHANGED <<events, origin, requests, settings>> /\ 1..asked \subseteq 1..(asked')
      BY <1>1, <2>2, <3>2
    <3>4. EventsInv'
      BY <2>1, <3>3, EventsStay
    <3>5. request' = NoRequest /\ resetCalled' = TRUE
      BY <2>2, <3>1, <3>2
    <3> QED
      BY <1>1, <2>1, <3>4, <3>5 DEF DecodeInv
  <2>5. CASE ~resetCalled
    <3>1. resetCalled = FALSE
      BY <2>1, <2>5
    <3>2. PICK p \in Nat : OrderInv(p)
      BY <2>1, <2>3, <2>5
    <3>3. EventsInv' /\ \E o \in Nat : OrderInv(o)'
      <4>1. UNCHANGED <<sessionVars, settings>>
        BY <2>2
      <4>2. CASE parse.expects = "begin"
        <5>1. Head(parse.slice).kind = "begin" /\ OnMessageBegin(Head(parse.slice).of)
          BY <4>2 DEF Callback, Fits1
        <5> QED
          BY <1>3, <2>1, <2>3, <3>1, <3>2, <4>1, <4>2, <5>1, BeginOrder
      <4>3. CASE parse.expects # "begin"
        BY <1>3, <2>1, <2>3, <3>2, <4>1, <4>3, WithinOrder
      <4> QED
        BY <4>2, <4>3
    <3>4. resetCalled' = FALSE
      BY <2>2, <3>1
    <3> QED
      BY <1>1, <2>1, <3>3, <3>4 DEF DecodeInv
  <2> QED
    BY <2>1, <2>4, <2>5
<1> QED
  BY <1>2, <1>3

-----------------------------------------------------------------------------
(* The other steps *)

\* The request s is still the request q, where more of it is to come.
Keeps(q, s) == \A n : Active(q, n) => Active(s, n) /\ s.url = q.url

LEMMA WithinKept ==
    ASSUME NEW d, NEW E, NEW i, NEW r, NEW y, NEW f, NEW q, NEW ev, Within(d, E, i, r, y, f, q, ev),
           NEW n, Active(q, n), NEW s, Keeps(q, s)
    PROVE  Active(s, n) /\ Within(d, E, i, r, y, f, s, ev)
<1>1. Active(s, n) /\ s.url = q.url /\ "url" \in DOMAIN s
  BY DEF Keeps, Active, RequestNames
<1>2. ASSUME HeadAt(i, r, y, f, q, ev) PROVE HeadAt(i, r, y, f, s, ev)
  <2>1. PICK k \in 0..Len(r.url) : \E x \in 0..Len(AllHeaders(i, r.headers)) :
          /\ y = 1 + k + x /\ (x # 0 => k = Len(r.url))
          /\ IsOwn(q.url) /\ q.url.text = UpTo(r.url, k) /\ "url" \in DOMAIN q
          /\ FieldsAt(i, f, r.headers, x) /\ f.deferred = NoMap
          /\ ev = <<>>
    BY <1>2 DEF HeadAt
  <2>2. PICK u : u = q.url /\ u = s.url
    BY <1>1
  <2>3. \E x \in 0..Len(AllHeaders(i, r.headers)) :
          /\ y = 1 + k + x /\ (x # 0 => k = Len(r.url))
          /\ IsOwn(s.url) /\ s.url.text = UpTo(r.url, k) /\ "url" \in DOMAIN s
          /\ FieldsAt(i, f, r.headers, x) /\ f.deferred = NoMap
          /\ ev = <<>>
    BY <1>1, <2>1, <2>2
  <2> QED
    BY <2>3 DEF HeadAt
<1> QED
  BY <1>1, <1>2 DEF Within

LEMMA StageStays ==
    ASSUME NEW p, StageInv(p), Keeps(request, request'), parse'.expects = parse.expects,
           UNCHANGED <<requests, fields, origin, events, settings>>
    PROVE  StageInv(p)'
<1>1. Streams1' = Streams1
  BY DEF Streams1, Numbers
<1>2. ASSUME NEW n \in Streams1, NEW y \in Nat, Active(request, n), p = Ends(requests, origin[n] - 1) + y,
             Within(parse.expects, EventsFor(settings, requests[origin[n]]), origin[n],
                    requests[origin[n]], y, fields, request, events[n])
      PROVE  StageInv(p)'
  <2>1. PICK i, r, E, ev, d, f : i = origin[n] /\ r = requests[i] /\ E = EventsFor(settings, r) /\ ev = events[n]
                           /\ d = parse.expects /\ f = fields
    OBVIOUS
  <2>2. Within(d, E, i, r, y, f, request, ev)
    BY <1>2, <2>1
  <2>3. PICK s : s = request'
    OBVIOUS
  <2>4. Active(s, n) /\ Within(d, E, i, r, y, f, s, ev)
    BY <1>2, <2>2, <2>3, WithinKept
  <2>5. /\ Active(request', n) /\ p = Ends(requests', origin'[n] - 1) + y
        /\ Within(parse'.expects, EventsFor(settings', requests'[origin'[n]]), origin'[n],
                  requests'[origin'[n]], y, fields', request', events'[n])
    BY <1>2, <2>1, <2>3, <2>4
  <2> QED
    BY <1>1, <2>5 DEF StageInv
<1> QED
  BY <1>2 DEF StageInv

\* Where no token is taken by the parser, nor sent.
LEMMA OrderStays ==
    ASSUME NEW p \in Nat, OrderInv(p), EventsInv, Pending' = Pending, Keeps(request, request'),
           UNCHANGED <<requests, asked, pipelined, fields, origin, events, settings, dropped>>,
           parse'.expects = parse.expects, OwnersInv'
    PROVE  EventsInv' /\ OrderInv(p)'
<1>1. LeftAt(p) /\ Account(p) /\ DropsInv /\ StageInv(p)
  BY DEF OrderInv
<1>2. UNCHANGED <<events, origin, requests, settings>> /\ 1..asked \subseteq 1..(asked')
  OBVIOUS
<1>3. EventsInv' /\ \A j : Decoded(j) => Decoded(j)'
  BY <1>2, EventsStay
<1>4. LeftAt(p)'
  <2>1. UNCHANGED <<requests, asked>>
    OBVIOUS
  <2> QED
    BY <1>1, <2>1, LeftSame
<1>5. Account(p)'
  BY <1>1, <1>3 DEF Account
<1>6. DropsInv'
  BY <1>1 DEF DropsInv
<1>7. StageInv(p)'
  <2>1. UNCHANGED <<requests, fields, origin, events, settings>>
    OBVIOUS
  <2> QED
    BY <1>1, <2>1, StageStays
<1> QED
  BY <1>3, <1>4, <1>5, <1>6, <1>7 DEF OrderInv

LEMMA KeepsSame == ASSUME NEW q PROVE Keeps(q, q)
BY DEF Keeps

\* What an encoder does with the request.
LEMMA KeepsEnded ==
    ASSUME NEW q, NEW s, DOMAIN s = DOMAIN q, s.n = q.n, s.url = q.url, s.remoteComplete = q.remoteComplete,
           NEW e
    PROVE  Keeps(q, IF e THEN Ended(s) ELSE s)
<1>1. ASSUME NEW n, Active(q, n) PROVE Ended(s) = s /\ Active(s, n)
  BY <1>1 DEF Active, Ended
<1> QED
  BY <1>1 DEF Keeps

LEMMA EncodesDecode ==
    ASSUME DecodeInv, UNCHANGED <<sessionVars, parserVars>>, Keeps(request, request'),
           resetCalled => request' = request
    PROVE  DecodeInv'
<1>1. /\ UNCHANGED <<requests, asked, pipelined, fields, origin, events, settings, dropped>>
      /\ speaks' = speaks /\ parse' = parse /\ resetCalled' = resetCalled
      /\ firstRequestBuffer' = firstRequestBuffer /\ incoming' = incoming
  BY DEF sessionVars, parserVars
<1>2. CASE requests = <<>>
  BY <1>1, <1>2 DEF DecodeInv
<1>3. CASE requests # <<>>
  <2>1. /\ speaks = "Http1" /\ EventsInv /\ resetCalled \in BOOLEAN /\ (resetCalled => request = NoRequest)
        /\ parse.at = "failed" \/ resetCalled \/ \E p \in Nat : OrderInv(p)
    BY <1>3 DEF DecodeInv
  <2>2. EventsInv'
    <3>1. UNCHANGED <<events, origin, requests, settings>> /\ 1..asked \subseteq 1..(asked')
      BY <1>1
    <3> QED
      BY <2>1, <3>1, EventsStay
  <2>3. ASSUME NEW p \in Nat, OrderInv(p) PROVE OrderInv(p)'
    <3>1. Pending' = Pending
      BY <1>1, SamePending
    <3>2. OwnersInv'
      <4>1. Left' = Left
        BY <1>1 DEF Left
      <4>2. OwnersInv
        BY <2>3 DEF OrderInv
      <4> QED
        BY <1>1, <4>1, <4>2 DEF OwnersInv, OneOf
    <3>3. UNCHANGED <<requests, asked, pipelined, fields, origin, events, settings, dropped>>
      BY <1>1
    <3>4. parse'.expects = parse.expects
      BY <1>1
    <3> QED
      BY <2>1, <2>3, <3>1, <3>2, <3>3, <3>4, OrderStays
  <2>4. resetCalled' \in BOOLEAN /\ (resetCalled' => request' = NoRequest) /\ speaks' = "Http1"
    BY <1>1, <2>1
  <2>5. parse'.at = "failed" \/ resetCalled' \/ \E p \in Nat : OrderInv(p)'
    BY <1>1, <2>1, <2>3
  <2> QED
    BY <2>2, <2>4, <2>5 DEF DecodeInv
<1> QED
  BY <1>2, <1>3

\* A step after which nothing is to be accounted for any more.
LEMMA LostDecode ==
    ASSUME DecodeInv, UNCHANGED sessionVars, UNCHANGED <<settings, events, origin>>,
           resetCalled' \in BOOLEAN, resetCalled' => request' = NoRequest,
           parse'.at = "failed" \/ resetCalled'
    PROVE  DecodeInv'
<1>1. UNCHANGED <<requests, asked, speaks>>
  BY DEF sessionVars
<1>2. CASE requests = <<>>
  BY <1>1, <1>2 DEF DecodeInv
<1>3. CASE requests # <<>>
  <2>1. speaks = "Http1" /\ EventsInv
    BY <1>3 DEF DecodeInv
  <2>2. UNCHANGED <<events, origin, requests, settings>> /\ 1..asked \subseteq 1..(asked')
    BY <1>1
  <2>3. EventsInv'
    BY <2>1, <2>2, EventsStay
  <2> QED
    BY <1>1, <2>1, <2>3 DEF DecodeInv
<1> QED
  BY <1>2, <1>3

LEMMA Http1Decodes ==
    ASSUME NEW c \in Nat, ReadInv(c), WireInv(c), HeadersInv, DecodeInv, Http1Next, UNCHANGED sessionVars
    PROVE  DecodeInv'
<1>1. CASE requests = <<>>
  <2>1. requests' = <<>>
    BY <1>1 DEF sessionVars
  <2> QED
    BY <2>1 DEF DecodeInv
<1>2. CASE requests # <<>>
  <2>1. resetCalled \in BOOLEAN /\ (resetCalled => request = NoRequest)
    BY <1>2 DEF DecodeInv
  <2>2. CASE Callback
    BY <2>2, CallbackDecodes
  <2>3. CASE ProtocolError
    <3>1. parse'.at = "failed"
      BY <2>3 DEF ProtocolError, ReadInv
    <3>2. UNCHANGED <<settings, events, origin>> /\ resetCalled' = resetCalled /\ request' = request
      BY <2>3 DEF ProtocolError
    <3> QED
      BY <2>1, <3>1, <3>2, LostDecode
  <2>4. CASE ResetStream1
    BY <2>4, LostDecode DEF ResetStream1
  <2>5. ASSUME request # NoRequest
        PROVE  /\ DOMAIN request = RequestNames /\ ~resetCalled
    <3>1. Serves(request, given[c], wire1, c)
      BY <2>5 DEF WireInv, EncoderInv
    <3> QED
      BY <2>1, <2>5, <3>1 DEF Serves, RequestNames
  <2>6. ASSUME NEW piece, NEW end, EncodeData1(piece, end) PROVE DecodeInv'
    <3>1. /\ request # NoRequest /\ UNCHANGED parserVars
          /\ request' = IF end THEN Ended(request) ELSE request
      BY <2>6 DEF EncodeData1, MayEncode
    <3>2. Keeps(request, request')
      <4>1. PICK q : q = request
        OBVIOUS
      <4>2. Keeps(q, IF end THEN Ended(q) ELSE q)
        BY KeepsEnded
      <4> QED
        BY <3>1, <4>1, <4>2
    <3> QED
      BY <2>5, <3>1, <3>2, EncodesDecode
  <2>7. CASE EncodeTrailers1
    BY <2>6, <2>7 DEF EncodeTrailers1
  <2>8. ASSUME NEW kind, NEW end, EncodeHeaders1(kind, end) PROVE DecodeInv'
    <3>1. PICK k : k = (kind = "plain" /\ ~end /\ ~parse.http10)
      OBVIOUS
    <3>2. PICK s : s = [request EXCEPT !.started = TRUE, !.chunked = k]
      OBVIOUS
    <3>3. /\ request # NoRequest /\ UNCHANGED parserVars
          /\ request' = IF end THEN Ended(s) ELSE s
      BY <2>8, <3>1, <3>2 DEF EncodeHeaders1, MayEncode
    <3>4. DOMAIN request = RequestNames /\ ~resetCalled
      BY <2>5, <3>3
    <3>5. DOMAIN s = DOMAIN request /\ s.n = request.n /\ s.url = request.url /\ s.remoteComplete = request.remoteComplete
      BY <3>2, <3>4 DEF RequestNames
    <3>6. Keeps(request, request')
      <4>1. PICK q : q = request
        OBVIOUS
      <4>2. Keeps(q, IF end THEN Ended(s) ELSE s)
        BY <3>5, <4>1, KeepsEnded
      <4> QED
        BY <3>3, <4>1, <4>2
    <3> QED
      BY <3>3, <3>4, <3>6, EncodesDecode
  <2> QED
    BY <2>2, <2>3, <2>4, <2>6, <2>7, <2>8 DEF Http1Next
<1> QED
  BY <1>1, <1>2

\* The part of what was left, and of what is left after a read.
LEMMA PartsOne ==
    ASSUME NEW T, NEW x \in Seq(T), NEW y \in Seq(T), NEW j, OneOf(x \o y, j)
    PROVE  OneOf(x, j) /\ OneOf(y, j)
<1>1. PICK X \in Nat, Y \in Nat : X = Len(x) /\ Y = Len(y)
  BY LenProperties
<1>2. PICK v \in Seq(T) : v = x \o y
  <2>1. x \o y \in Seq(T)
    OBVIOUS
  <2> QED
    BY <2>1
<1>3. Len(v) = X + Y /\ \A k \in 1..(X + Y) : v[k] = IF k <= X THEN x[k] ELSE y[k - X]
  BY <1>1, <1>2, ConcatProperties
<1>4. \A k \in 1..(X + Y) : v[k].of = j
  BY <1>2, <1>3 DEF OneOf
<1>5. ASSUME NEW k \in 1..X PROVE x[k].of = j
  <2>1. k \in 1..(X + Y) /\ k <= X
    OBVIOUS
  <2>2. v[k] = x[k]
    BY <1>3, <2>1
  <2> QED
    BY <1>4, <2>1, <2>2
<1>6. ASSUME NEW k \in 1..Y PROVE y[k].of = j
  <2>1. X + k \in 1..(X + Y) /\ ~(X + k <= X) /\ (X + k) - X = k
    OBVIOUS
  <2>2. v[X + k] = y[k]
    BY <1>3, <2>1
  <2> QED
    BY <1>4, <2>1, <2>2
<1> QED
  BY <1>1, <1>5, <1>6 DEF OneOf

LEMMA WaitDecodes ==
    ASSUME NEW c \in Nat, ReadInv(c), DecodeInv, NEW n, ReadAndWait(n)
    PROVE  DecodeInv'
<1>1. PICK T : firstRequestBuffer \in Seq(T) /\ incoming \in Seq(T)
  BY DEF ReadInv
<1>2. Takes(n) /\ firstRequestBuffer' = Collected(n)
  BY DEF ReadAndWait
<1>3. /\ UNCHANGED <<requests, asked, pipelined, fields, origin, events, settings, dropped>>
      /\ UNCHANGED <<speaks, parse, resetCalled, request>>
  BY DEF ReadAndWait, Takes, http1Vars, parserVars
<1>4. Left' = Left
  BY <1>1, <1>2, TakesParts DEF Left
<1>5. Pending' = Pending
  <2>1. Pending = parse.slice \o Left /\ Pending' = parse'.slice \o Left'
    BY DEF Pending, Left
  <2> QED
    BY <1>3, <1>4, <2>1
<1>6. CASE requests = <<>>
  BY <1>3, <1>6 DEF DecodeInv
<1>7. CASE requests # <<>>
  <2>1. /\ speaks = "Http1" /\ EventsInv /\ resetCalled \in BOOLEAN /\ (resetCalled => request = NoRequest)
        /\ parse.at = "failed" \/ resetCalled \/ \E p \in Nat : OrderInv(p)
    BY <1>7 DEF DecodeInv
  <2>2. EventsInv'
    <3>1. UNCHANGED <<events, origin, requests, settings>> /\ 1..asked \subseteq 1..(asked')
      BY <1>3
    <3> QED
      BY <2>1, <3>1, EventsStay
  <2>3. ASSUME NEW p \in Nat, OrderInv(p) PROVE OrderInv(p)'
    <3>1. OwnersInv'
      <4>1. OwnersInv
        BY <2>3 DEF OrderInv
      <4> QED
        BY <1>3, <1>4, <4>1 DEF OwnersInv, OneOf
    <3>2. UNCHANGED <<requests, asked, pipelined, fields, origin, events, settings, dropped>>
      BY <1>3
    <3>3. parse'.expects = parse.expects /\ Keeps(request, request')
      BY <1>3, KeepsSame
    <3> QED
      BY <1>5, <2>1, <2>3, <3>1, <3>2, <3>3, OrderStays
  <2>4. resetCalled' \in BOOLEAN /\ (resetCalled' => request' = NoRequest) /\ speaks' = "Http1"
    BY <1>3, <2>1
  <2>5. parse'.at = "failed" \/ resetCalled' \/ \E p \in Nat : OrderInv(p)'
    BY <1>3, <2>1, <2>3
  <2> QED
    BY <2>2, <2>4, <2>5 DEF DecodeInv
<1> QED
  BY <1>6, <1>7

\* The slice of a dispatch() comes from the front of what was left.
LEMMA DispatchDecodes ==
    ASSUME NEW c \in Nat, ReadInv(c), SpeaksInv, DecodeInv, NEW n, ReadAndDispatch(n)
    PROVE  DecodeInv'
<1>1. UNCHANGED <<requests, asked, pipelined, speaks>> /\ firstRequestBuffer' = <<>>
  BY DEF ReadAndDispatch, Takes
<1>2. CASE requests = <<>>
  BY <1>1, <1>2 DEF DecodeInv
<1>3. CASE requests # <<>>
  <2>1. /\ speaks = "Http1" /\ EventsInv /\ resetCalled \in BOOLEAN /\ (resetCalled => request = NoRequest)
        /\ parse.at = "failed" \/ resetCalled \/ \E p \in Nat : OrderInv(p)
    BY <1>3 DEF DecodeInv
  <2>2. codec' = "Http1"
    BY <2>1, KnowsProtocol
  <2>3. Dispatch(Collected(n))
    BY <2>2 DEF ReadAndDispatch
  <2>4. /\ parse.at = "rest" /\ parse'.slice = Collected(n) /\ parse'.expects = parse.expects
        /\ UNCHANGED <<settings, fields, request, resetCalled, events, origin, dropped>>
    BY <2>3 DEF Dispatch, ReadInv
  <2>5. EventsInv'
    <3>1. UNCHANGED <<events, origin, requests, settings>> /\ 1..asked \subseteq 1..(asked')
      BY <1>1, <2>4
    <3> QED
      BY <2>1, <3>1, EventsStay
  <2>6. PICK T : \E x \in Seq(T), y \in Seq(T) :
              /\ Pending = x \o y /\ x = Collected(n) /\ y = incoming' /\ x # <<>>
              /\ firstRequestBuffer \o incoming = x \o y
              /\ Pending' = IF codec' = "Http1" THEN x \o y ELSE y
    BY DispatchPending
  <2>7. PICK x \in Seq(T), y \in Seq(T) :
              /\ Pending = x \o y /\ x = Collected(n) /\ y = incoming' /\ x # <<>>
              /\ firstRequestBuffer \o incoming = x \o y
              /\ Pending' = IF codec' = "Http1" THEN x \o y ELSE y
    BY <2>6
  <2>8. Pending' = Pending /\ Left = x \o y
    BY <2>2, <2>7 DEF Left
  <2>9. Left' = y
    <3>1. <<>> \o y = y
      OBVIOUS
    <3> QED
      BY <1>1, <2>7, <3>1 DEF Left
  <2>10. ASSUME NEW p \in Nat, OrderInv(p) PROVE OrderInv(p)'
    <3>1. OwnersInv'
      <4>1. OwnersInv
        BY <2>10 DEF OrderInv
      <4>2. ASSUME ~pipelined PROVE OneOf(parse'.slice, asked) /\ OneOf(Left', asked)
        <5>1. OneOf(x \o y, asked)
          BY <2>8, <4>1, <4>2 DEF OwnersInv
        <5>2. OneOf(x, asked) /\ OneOf(y, asked)
          BY <5>1, PartsOne
        <5> QED
          BY <2>4, <2>7, <2>9, <5>2
      <4>3. pipelined' \in BOOLEAN
        BY <1>1, <4>1 DEF OwnersInv
      <4> QED
        BY <1>1, <4>2, <4>3 DEF OwnersInv, OneOf
    <3>2. UNCHANGED <<requests, asked, pipelined, fields, origin, events, settings, dropped>>
      BY <1>1, <2>4
    <3>3. parse'.expects = parse.expects /\ Keeps(request, request')
      BY <2>4, KeepsSame
    <3> QED
      BY <2>1, <2>8, <2>10, <3>1, <3>2, <3>3, OrderStays
  <2>11. resetCalled' \in BOOLEAN /\ (resetCalled' => request' = NoRequest) /\ speaks' = "Http1"
    BY <1>1, <2>1, <2>4
  <2>12. parse'.at = "failed" \/ resetCalled' \/ \E p \in Nat : OrderInv(p)'
    BY <2>1, <2>4, <2>10
  <2> QED
    BY <2>5, <2>11, <2>12 DEF DecodeInv
<1> QED
  BY <1>2, <1>3

LEMMA ConcatAt ==
    ASSUME NEW S, NEW T, NEW s, s \in Seq(S), NEW t, t \in Seq(T), NEW m, m = Len(s), NEW n, n = Len(t),
           NEW d, d = s \o t
    PROVE  Len(d) = m + n /\ \A k \in 1..(m + n) : d[k] = IF k <= m THEN s[k] ELSE t[k - m]
<1>1. PICK U : S \subseteq U /\ T \subseteq U
  <2>1. S \subseteq S \cup T /\ T \subseteq S \cup T
    OBVIOUS
  <2> QED
    BY <2>1
<1>2. PICK x \in Seq(U) : x = s
  BY <1>1, Wider
<1>3. PICK y \in Seq(U) : y = t
  BY <1>1, Wider
<1>4. d = x \o y /\ m = Len(x) /\ n = Len(y)
  BY <1>2, <1>3
<1> QED
  BY <1>2, <1>3, <1>4, ConcatProperties

\* The client sends another request.
LEMMA AsksOrder ==
    ASSUME NEW c \in Nat, ReadInv(c), EventsInv, NEW p \in Nat, OrderInv(p), requests # <<>>, ClientAsks
    PROVE  OrderInv(p)'
<1>1. PICK rs : \E a \in Nat : /\ rs = requests /\ a = asked /\ rs = requests' /\ a + 1 = asked'
                              /\ a < Len(rs) /\ Len(rs) \in Nat
  BY Bounds DEF ClientAsks
<1>a. PICK a \in Nat : /\ rs = requests /\ a = asked /\ rs = requests' /\ a + 1 = asked'
                      /\ a < Len(rs) /\ Len(rs) \in Nat
  BY <1>1
<1>2. AreRequests(rs) /\ a \in 0..Len(rs) /\ a + 1 \in 1..Len(rs)
  BY <1>a, RequestsAre
<1>3. /\ UNCHANGED <<requests, fields, origin, events, settings, dropped, request, parse, firstRequestBuffer>>
      /\ incoming' = incoming \o Tokens(a + 1, rs[a + 1])
      /\ pipelined' = (pipelined \/ incoming # <<>> \/ firstRequestBuffer # <<>>)
  BY <1>a DEF ClientAsks, http1Vars, parserVars
<1>4. LeftAt(p) /\ Account(p) /\ OwnersInv /\ DropsInv /\ StageInv(p)
  BY DEF OrderInv
<1>5. PICK U : \E q \in Seq(U), u \in Seq(U) : \E r :
              /\ Pending = q /\ Pending' = q \o u
              /\ u = Tokens(asked + 1, r) /\ IsRequest(r) /\ asked + 1 \in Numbers
              /\ r = requests[asked + 1]
  BY AsksPending
<1>6. PICK t : t = Tokens(a + 1, rs[a + 1])
  OBVIOUS
<1>7. OfRequest(t, a + 1)
  <2>1. PICK r : r = rs[a + 1] /\ IsRequest(r)
    BY <1>2 DEF AreRequests
  <2> QED
    BY <1>6, <2>1, TextOf
<1>8. PICK S : SentBy(rs, a) \in Seq(S) /\ SentBy(rs, a + 1) = SentBy(rs, a) \o t
  BY <1>a, <1>2, <1>6, SentMore
<1>9. PICK e \in Nat, f \in Nat, l \in Nat : e = Ends(rs, a) /\ f = Ends(rs, a + 1) /\ l = Len(t) /\ f = e + l /\ l >= 2
  <2>1. /\ Ends(rs, (a + 1) - 1) \in Nat /\ Ends(rs, a + 1) \in Nat /\ Len(Tokens(a + 1, rs[a + 1])) \in Nat
        /\ Len(Tokens(a + 1, rs[a + 1])) >= 2
        /\ Ends(rs, a + 1) = Ends(rs, (a + 1) - 1) + Len(Tokens(a + 1, rs[a + 1]))
    BY <1>2, EndsNext
  <2>2. (a + 1) - 1 = a
    OBVIOUS
  <2> QED
    BY <1>6, <2>1, <2>2
<1>10. UNCHANGED <<events, origin, requests, settings>> /\ 1..asked \subseteq 1..(asked')
  BY <1>a, <1>3
<1>11. \A j : Decoded(j) => Decoded(j)'
  BY <1>10, EventsStay
<1>12. PICK q : q = Pending /\ e = p + Len(q) /\ (\A k \in 1..Len(q) : q[k] = SentBy(rs, a)[p + k])
  BY <1>a, <1>4, <1>9 DEF LeftAt
<1>13. Account(p)'
  <2>1. ASSUME NEW j \in 1..(a + 1), Ends(rs, j) <= p PROVE Decoded(j)' \/ j \in dropped'
    <3>1. CASE j \in 1..a
      <4>1. Decoded(j) \/ j \in dropped
        BY <1>a, <1>4, <2>1, <3>1 DEF Account
      <4> QED
        BY <1>3, <1>11, <4>1
    <3>2. CASE j = a + 1
      <4>1. PICK U1 : q \in Seq(U1)
        BY <1>5, <1>12
      <4>2. PICK n \in Nat : n = Len(q)
        BY <4>1, LenProperties
      <4>3. e = p + n /\ f <= p
        BY <1>9, <1>12, <2>1, <3>2, <4>2
      <4> QED
        BY <1>9, <4>3
    <3> QED
      BY <3>1, <3>2
  <2> QED
    BY <1>a, <2>1 DEF Account
<1>14. OwnersInv'
  <2>1. pipelined \in BOOLEAN
    BY <1>4 DEF OwnersInv
  <2>2. pipelined' \in BOOLEAN
    BY <1>3, <2>1
  <2>3. ASSUME ~pipelined' PROVE (\E j : OneOf(parse'.slice, j)) /\ OneOf(Left', a + 1)
    <3>1. ~pipelined /\ incoming = <<>> /\ firstRequestBuffer = <<>>
      BY <1>3, <2>3
    <3>2. PICK T : t \in Seq(T)
      <4>1. PICK r, A : t \in Seq(AllOf(a + 1, A))
        <5>1. PICK r : r = rs[a + 1] /\ IsRequest(r)
          BY <1>2 DEF AreRequests
        <5> QED
          BY <1>6, <5>1, TokensType
      <4> QED
        BY <4>1
    <3>3. <<>> \o t = t
      BY <3>2
    <3>4. Left' = t
      BY <1>3, <1>6, <3>1, <3>3 DEF Left
    <3>5. OneOf(t, a + 1)
      BY <1>7 DEF OneOf, OfRequest
    <3>6. \E j : OneOf(parse'.slice, j)
      BY <1>3, <1>4, <3>1 DEF OwnersInv
    <3> QED
      BY <3>4, <3>5, <3>6
  <2> QED
    BY <1>a, <2>2, <2>3 DEF OwnersInv, OneOf
<1>15. DropsInv'
  <2>1. pipelined => pipelined'
    BY <1>3
  <2> QED
    BY <1>3, <1>4, <2>1 DEF DropsInv
<1>16. StageInv(p)'
  <2>1. UNCHANGED <<requests, fields, origin, events, settings>>
    BY <1>3
  <2>2. parse'.expects = parse.expects /\ Keeps(request, request')
    BY <1>3, KeepsSame
  <2> QED
    BY <1>4, <2>1, <2>2, StageStays
<1>17. LeftAt(p)'
  <2>1. PICK v \in Seq(U), w \in Seq(U) : \E r :
              /\ Pending = v /\ Pending' = v \o w
              /\ w = Tokens(asked + 1, r) /\ IsRequest(r) /\ asked + 1 \in Numbers
              /\ r = requests[asked + 1]
    BY <1>5
  <2>2. v = q
    BY <1>12, <2>1
  <2>3. PICK n \in Nat : n = Len(q)
    BY <2>2, LenProperties
  <2>4. PICK T : t \in Seq(T)
    <3>1. PICK r : r = rs[a + 1] /\ IsRequest(r)
      BY <1>2 DEF AreRequests
    <3> QED
      BY <1>6, <3>1, TokensType
  <2>5. Pending' = q \o t
    BY <1>a, <1>6, <2>1, <2>2
  <2>6. PICK d : d = q \o t
    OBVIOUS
  <2>7. Len(d) = n + l /\ \A k \in 1..(n + l) : d[k] = IF k <= n THEN q[k] ELSE t[k - n]
    <3>1. q \in Seq(U)
      BY <2>2
    <3>2. l = Len(t)
      BY <1>9
    <3> QED
      BY <2>3, <2>4, <2>6, <3>1, <3>2, ConcatAt
  <2>8. PICK s : s = SentBy(rs, a) /\ Len(s) = e
    BY <1>9 DEF Ends
  <2>10. \A k \in 1..(e + l) : SentBy(rs, a + 1)[k] = IF k <= e THEN s[k] ELSE t[k - e]
    <3>1. PICK g : g = s \o t
      OBVIOUS
    <3>2. s \in Seq(S) /\ e = Len(s) /\ l = Len(t)
      BY <1>8, <1>9, <2>8
    <3>3. \A k \in 1..(e + l) : g[k] = IF k <= e THEN s[k] ELSE t[k - e]
      BY <2>4, <3>1, <3>2, ConcatAt
    <3> QED
      BY <1>8, <2>8, <3>1, <3>3
  <2>11. e = p + n
    BY <1>12, <2>3
  <2>12. ASSUME NEW k \in 1..(n + l) PROVE d[k] = SentBy(rs, a + 1)[p + k]
    <3>1. p + k \in 1..(e + l)
      BY <2>11
    <3>2. CASE k <= n
      <4>1. p + k <= e /\ k \in 1..n
        BY <2>11, <3>2
      <4>2. d[k] = q[k]
        BY <2>7, <3>2
      <4>3. SentBy(rs, a + 1)[p + k] = s[p + k]
        BY <2>10, <3>1, <4>1
      <4>4. q[k] = s[p + k]
        BY <1>12, <2>3, <2>8, <4>1
      <4> QED
        BY <4>2, <4>3, <4>4
    <3>3. CASE ~(k <= n)
      <4>1. ~(p + k <= e) /\ (p + k) - e = k - n
        BY <2>11, <3>3
      <4>2. d[k] = t[k - n]
        BY <2>7, <3>3
      <4>3. SentBy(rs, a + 1)[p + k] = t[(p + k) - e]
        BY <2>10, <3>1, <4>1
      <4> QED
        BY <4>1, <4>2, <4>3
    <3> QED
      BY <3>2, <3>3
  <2>13. f = p + (n + l)
    BY <1>9, <2>11
  <2> QED
    BY <1>a, <1>9, <2>5, <2>6, <2>7, <2>12, <2>13 DEF LeftAt
<1> QED
  BY <1>13, <1>14, <1>15, <1>16, <1>17 DEF OrderInv

LEMMA AsksDecodes ==
    ASSUME NEW c \in Nat, ReadInv(c), DecodeInv, ClientAsks
    PROVE  DecodeInv'
<1>1. UNCHANGED <<requests, speaks, events, origin, settings, parse, resetCalled, request>>
  BY DEF ClientAsks, http1Vars, parserVars
<1>2. CASE requests = <<>>
  BY <1>1, <1>2 DEF DecodeInv
<1>3. CASE requests # <<>>
  <2>1. /\ speaks = "Http1" /\ EventsInv /\ resetCalled \in BOOLEAN /\ (resetCalled => request = NoRequest)
        /\ parse.at = "failed" \/ resetCalled \/ \E p \in Nat : OrderInv(p)
    BY <1>3 DEF DecodeInv
  <2>2. EventsInv'
    <3>1. asked \in Nat /\ asked' = asked + 1
      BY Bounds DEF ClientAsks
    <3>2. UNCHANGED <<events, origin, requests, settings>> /\ 1..asked \subseteq 1..(asked')
      BY <1>1, <3>1
    <3> QED
      BY <2>1, <3>2, EventsStay
  <2>3. ASSUME NEW p \in Nat, OrderInv(p) PROVE OrderInv(p)'
    BY <1>3, <2>1, <2>3, AsksOrder
  <2>4. resetCalled' \in BOOLEAN /\ (resetCalled' => request' = NoRequest) /\ speaks' = "Http1"
    BY <1>1, <2>1
  <2>5. parse'.at = "failed" \/ resetCalled' \/ \E p \in Nat : OrderInv(p)'
    BY <1>1, <2>1, <2>3
  <2> QED
    BY <2>2, <2>4, <2>5 DEF DecodeInv
<1> QED
  BY <1>2, <1>3

LEMMA DecodesStep ==
    ASSUME SessionInv, HeadersInv, SpeaksInv, DecodeInv, [Next]_vars
    PROVE  DecodeInv'
<1>1. PICK c \in Nat : ReadInv(c) /\ WireInv(c)
  BY DEF SessionInv
<1>2. CASE ClientAsks
  BY <1>1, <1>2, AsksDecodes
<1>3. ASSUME NEW n, ReadAndWait(n) PROVE DecodeInv'
  BY <1>1, <1>3, WaitDecodes
<1>4. ASSUME NEW n, ReadAndDispatch(n) PROVE DecodeInv'
  BY <1>1, <1>4, DispatchDecodes
<1>5. CASE Http1Next /\ UNCHANGED sessionVars
  BY <1>1, <1>5, Http1Decodes
<1>6. CASE UNCHANGED <<http1Vars, sessionVars>>
  <2>1. UNCHANGED <<sessionVars, parserVars>> /\ request' = request /\ Keeps(request, request')
    BY <1>6, KeepsSame DEF http1Vars
  <2> QED
    BY <2>1, EncodesDecode
<1>7. CASE UNCHANGED vars
  <2>1. UNCHANGED <<http1Vars, sessionVars>>
    BY <1>7 DEF vars
  <2> QED
    BY <1>6, <2>1
<1>8. CASE Next
  <2>1. \/ ClientAsks
        \/ \E n \in DOMAIN incoming : ReadAndWait(n) \/ ReadAndDispatch(n)
        \/ Http1Next /\ UNCHANGED sessionVars
        \/ UNCHANGED <<http1Vars, sessionVars>>
    BY <1>8 DEF Next
  <2> QED
    BY <1>2, <1>3, <1>4, <1>5, <1>6, <2>1
<1> QED
  BY <1>7, <1>8

LEMMA InitDecodes == Init => DecodeInv
<1> SUFFICES ASSUME Init PROVE DecodeInv
  OBVIOUS
<1>1. CASE requests = <<>>
  BY <1>1 DEF DecodeInv
<1>2. CASE requests # <<>>
  <2>1. speaks = "Http1" /\ requests \in Conversations /\ incoming = <<>>
    BY <1>2 DEF Init
  <2>2. /\ asked = 0 /\ pipelined = FALSE /\ firstRequestBuffer = <<>>
        /\ parse.slice = <<>> /\ parse.expects = "begin" /\ fields.deferred = NoMap
        /\ request = NoRequest /\ resetCalled = FALSE /\ dropped = {}
        /\ events = [n \in Numbers |-> <<>>] /\ origin = [n \in Numbers |-> 0]
    BY DEF Init, Http1Init
  <2>3. Streams1 = {}
    BY <2>2 DEF Streams1
  <2>4. EventsInv
    BY <2>2, <2>3 DEF EventsInv
  <2>5. <<>> \o <<>> = <<>> /\ <<>> \o (<<>> \o <<>>) = <<>> /\ Len(<<>>) = 0
    OBVIOUS
  <2>6. Pending = <<>> /\ Left = <<>>
    BY <2>1, <2>2, <2>5 DEF Pending, Left
  <2>7. LeftAt(0)
    <3>1. AreRequests(requests)
      <4>1. PICK c \in Nat : ReadInv(c)
        BY InitSession DEF SessionInv
      <4> QED
        BY <1>2, <4>1, RequestsAre
    <3>2. Ends(requests, 0) = 0
      BY <3>1, NothingSent
    <3> QED
      BY <2>2, <2>5, <2>6, <3>2 DEF LeftAt
  <2>8. Account(0)
    <3>1. 1..asked = {}
      BY <2>2
    <3> QED
      BY <3>1 DEF Account
  <2>9. OwnersInv
    <3>1. 1..Len(parse.slice) = {} /\ 1..Len(Left) = {}
      BY <2>2, <2>5, <2>6
    <3> QED
      BY <2>2, <3>1 DEF OwnersInv, OneOf
  <2>10. DropsInv
    BY <2>2 DEF DropsInv
  <2>11. StageInv(0)
    BY <2>2 DEF StageInv
  <2>12. OrderInv(0)
    BY <2>7, <2>8, <2>9, <2>10, <2>11 DEF OrderInv
  <2> QED
    BY <2>1, <2>2, <2>4, <2>12 DEF DecodeInv
<1> QED
  BY <1>1, <1>2

LEMMA UpToPrefix ==
    ASSUME NEW E, Len(E) \in Nat, E = UpTo(E, Len(E)), NEW m \in 0..Len(E)
    PROVE  IsPrefix(UpTo(E, m), E)
<1>1. PICK L \in Nat : L = Len(E) /\ m \in 0..L
  OBVIOUS
<1>2. PICK S : S = {E[k] : k \in 1..L}
  OBVIOUS
<1>3. E \in Seq(S) /\ UpTo(E, m) \in Seq(S)
  <2>1. UpTo(E, L) \in [1..L -> S]
    BY <1>1, <1>2 DEF UpTo
  <2>2. UpTo(E, m) \in [1..m -> S]
    BY <1>1, <1>2 DEF UpTo
  <2>3. \A n \in Nat : \A f \in [1..n -> S] : f \in Seq(S)
    OBVIOUS
  <2> QED
    BY <1>1, <2>1, <2>2, <2>3
<1>4. PICK u \in Seq(S) : u = UpTo(E, m)
  BY <1>3
<1>5. Len(u) = m /\ \A k \in 1..m : u[k] = E[k]
  <2>1. m \in Nat
    BY <1>1
  <2>2. Len(UpTo(E, m)) = m
    BY <2>1, UpToMore
  <2> QED
    BY <1>4, <2>2 DEF UpTo
<1>6. SubSeq(u, 1, m) = SubSeq(E, 1, m)
  <2>1. \A s : SubSeq(s, 1, m) = [k \in 1..m |-> s[k]]
    BY <1>1
  <2> QED
    BY <1>5, <2>1
<1> QED
  BY <1>1, <1>4, <1>5, <1>6 DEF IsPrefix

\* Each event that was told is one of the request's, in its place.
LEMMA PrefixesHold ==
    ASSUME SessionInv, DecodeInv, NEW n \in Streams1
    PROVE  IsPrefix(events[n], RequestEvents(requests[origin[n]]))
<1>1. PICK c \in Nat : ReadInv(c)
  BY DEF SessionInv
<1>2. requests # <<>>
  <2>1. ASSUME requests = <<>> PROVE FALSE
    <3>1. Len(requests) = 0
      BY <2>1
    <3>2. c = 0
      BY <1>1, <3>1, Bounds
    <3>3. Streams1 = {}
      BY <1>1, <3>2 DEF ReadInv
    <3> QED
      BY <3>3
  <2> QED
    BY <2>1
<1>3. EventsInv
  BY <1>2 DEF DecodeInv
<1>4. origin[n] \in 1..asked /\ \E m \in 0..Len(EventsFor(settings, requests[origin[n]])) :
                     events[n] = UpTo(EventsFor(settings, requests[origin[n]]), m)
  BY <1>3 DEF EventsInv, Streams1
<1>5. PICK r : r = requests[origin[n]] /\ IsRequest(r)
  BY <1>1, <1>2, <1>4, RequestsAre
<1>6. PICK E : E = EventsFor(settings, r) /\ E = RequestEvents(r)
  BY EventsForIs
<1>7. IsEvents(E, r)
  BY <1>5, <1>6, EventsAre
<1>8. Len(E) \in Nat /\ E = UpTo(E, Len(E))
  BY <1>5, <1>7, EventsLength
<1>9. PICK m \in 0..Len(E) : events[n] = UpTo(E, m)
  BY <1>4, <1>5, <1>6
<1>10. IsPrefix(UpTo(E, m), E)
  BY <1>8, UpToPrefix
<1> QED
  BY <1>5, <1>6, <1>9, <1>10

\* A request of which the end was taken is decoded or dropped; the end of another is left.
LEMMA AccountHolds ==
    ASSUME SessionInv, DecodeInv, parse.at = "rest", ~resetCalled, NEW i \in 1..asked
    PROVE  \/ \E n \in Streams1 : origin[n] = i /\ events[n] = RequestEvents(requests[i])
           \/ \E t \in ToSet(incoming) \cup ToSet(firstRequestBuffer) : t.of = i
           \/ i \in dropped /\ i > 1 /\ pipelined
<1>1. PICK c \in Nat : ReadInv(c)
  BY DEF SessionInv
<1>2. requests # <<>>
  <2>1. ASSUME requests = <<>> PROVE FALSE
    <3>1. Len(requests) = 0
      BY <2>1
    <3>2. asked = 0
      BY <1>1, <3>1, Bounds
    <3> QED
      BY <3>2
  <2> QED
    BY <2>1
<1>3. PICK p \in Nat : OrderInv(p)
  BY <1>2 DEF DecodeInv
<1>4. LeftAt(p) /\ Account(p) /\ DropsInv
  BY <1>3 DEF OrderInv
<1>5. AreRequests(requests) /\ asked \in 0..Len(requests)
  BY <1>1, <1>2, RequestsAre
<1>6. PICK rs, a, s : rs = requests /\ a = asked /\ s = SentBy(rs, a)
  OBVIOUS
<1>7. PICK e \in Nat : e = Ends(rs, a)
  BY <1>5, <1>6, SentMore
<1>8. PICK u \in 1..e : u = Ends(rs, i) /\ s[u].of = i
  <2>1. Ends(rs, i) \in 1..Ends(rs, a) /\ SentBy(rs, a)[Ends(rs, i)].of = i
    BY <1>5, <1>6, LastToken
  <2> QED
    BY <1>6, <1>7, <2>1
<1>9. CASE u <= p
  <2>1. Decoded(i) \/ i \in dropped
    BY <1>4, <1>6, <1>8, <1>9 DEF Account
  <2>2. CASE Decoded(i)
    <3>1. PICK n \in Streams1 : origin[n] = i /\ events[n] = EventsFor(settings, requests[i])
      BY <2>2 DEF Decoded
    <3>2. events[n] = RequestEvents(requests[i])
      BY <3>1, EventsForIs
    <3> QED
      BY <3>1, <3>2
  <2>3. CASE i \in dropped
    BY <1>4, <2>3 DEF DropsInv
  <2> QED
    BY <2>1, <2>2, <2>3
<1>10. CASE ~(u <= p)
  <2>1. PICK T : parse.slice \in Seq(T) /\ firstRequestBuffer \in Seq(T) /\ incoming \in Seq(T)
    BY <1>1 DEF ReadInv
  <2>2. parse.slice = <<>>
    BY <1>1 DEF ReadInv
  <2>3. PICK x \in Seq(T) : x = firstRequestBuffer
    BY <2>1
  <2>4. PICK y \in Seq(T) : y = incoming
    BY <2>1
  <2>5. PICK v \in Seq(T) : v = x \o y
    <3>1. x \o y \in Seq(T)
      OBVIOUS
    <3> QED
      BY <3>1
  <2>6. Pending = v
    <3>1. <<>> \o v = v
      OBVIOUS
    <3> QED
      BY <2>2, <2>3, <2>4, <2>5, <3>1 DEF Pending
  <2>7. PICK X \in Nat, Y \in Nat : X = Len(x) /\ DOMAIN x = 1..X /\ Y = Len(y) /\ DOMAIN y = 1..Y
    BY LenProperties
  <2>8. Len(v) = X + Y /\ \A k \in 1..(X + Y) : v[k] = IF k <= X THEN x[k] ELSE y[k - X]
    BY <2>5, <2>7, ConcatProperties
  <2>9. e = p + (X + Y) /\ \A k \in 1..(X + Y) : v[k] = s[p + k]
    BY <1>4, <1>6, <1>7, <2>6, <2>8 DEF LeftAt
  <2>10. PICK k \in 1..(X + Y) : u = p + k
    <3>1. u - p \in 1..(X + Y) /\ u = p + (u - p)
      BY <1>10, <2>9
    <3> QED
      BY <3>1
  <2>11. v[k].of = i
    BY <1>8, <2>9, <2>10
  <2>12. CASE k <= X
    <3>1. v[k] = x[k] /\ k \in 1..X
      BY <2>8, <2>12
    <3>2. x[k] \in ToSet(firstRequestBuffer)
      BY <2>3, <2>7, <3>1 DEF ToSet
    <3> QED
      BY <2>11, <3>1, <3>2
  <2>13. CASE ~(k <= X)
    <3>1. v[k] = y[k - X] /\ k - X \in 1..Y
      BY <2>8, <2>13
    <3>2. y[k - X] \in ToSet(incoming)
      BY <2>4, <2>7, <3>1 DEF ToSet
    <3> QED
      BY <2>11, <3>1, <3>2
  <2> QED
    BY <2>12, <2>13
<1> QED
  BY <1>9, <1>10

\* The decoder of a stream is told what the client has sent, and in the order of the request,
\* however its bytes are cut by the reads and by the pauses of the parser: the headers, each
\* name in lower case and one with direct access once, the path and the method, the body, and
\* the end once and last.  What dispatch() has taken and not told is of a request which the
\* client sent while another was on its way, never of the first.
THEOREM SessionDecodes == Spec => []DecodesRequests
<1> DEFINE Inv == SessionInv /\ HeadersInv /\ SpeaksInv /\ DecodeInv
<1>1. Init => Inv
  BY InitSession, InitHeaders, InitDecodes
<1>2. Inv /\ [Next]_vars => Inv'
  <2> SUFFICES ASSUME Inv, [Next]_vars PROVE Inv'
    OBVIOUS
  <2>1. SessionInv'
    BY SessionStep
  <2>2. HeadersInv' /\ SpeaksInv'
    BY CodecStep
  <2>3. DecodeInv'
    BY DecodesStep
  <2> QED
    BY <2>1, <2>2, <2>3
<1>3. Inv => DecodesRequests
  BY PrefixesHold, AccountHolds DEF DecodesRequests
<1> HIDE DEF Inv
<1>4. Spec => []Inv
  BY <1>1, <1>2, PTL DEF Spec
<1> QED
  BY <1>3, <1>4, PTL
=============================================================================
