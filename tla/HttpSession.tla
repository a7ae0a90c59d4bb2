---------------------------- MODULE HttpSession -----------------------------
(***************************************************************************)
(* EHttpSession::read() (src/src/EHttpSession.cpp), which finds out from   *)
(* the first bytes of a connection which protocol the client speaks, with  *)
(* the codec it makes for it.                                              *)
(*                                                                         *)
(* What a client sends is a sequence of tokens: those of HTTP/1 requests   *)
(* (Http1Codec), or the magic of HTTP/2, after which its frames are        *)
(* actions of the codec.  A read returns what has arrived, cut anywhere.   *)
(***************************************************************************)
EXTENDS Http1Codec, Http2Codec

CONSTANTS
    Conversations,  \* the sequences of requests a client may send
    MagicLen        \* the tokens the magic of HTTP/2 has, and as many it takes to tell

\* There is direct access to path, host and method; what a client sends is made of texts,
\* and MaxRequests is an honest bound.
ASSUME SessionAssumption ==
    /\ {PathName, HostName, MethodName} \subseteq Inlines
    /\ PathName # HostName /\ PathName # MethodName /\ HostName # MethodName
    /\ MagicLen \in Nat \ {0} /\ MaxRequests \in Nat
    /\ \A c \in Conversations :
          /\ IsText(c) /\ Len(c) <= MaxRequests
          /\ \A i \in DOMAIN c : /\ IsText(c[i].url) /\ IsText(c[i].body)
                                /\ AreHeaders(c[i].headers) /\ AreHeaders(c[i].trailers)

VARIABLES
    speaks,    \* the protocol of the client
    incoming,  \* what has been sent and not been read
    requests,  \* the requests of the client
    asked,     \* how many of them it has sent
    pipelined, \* the client has sent a request while another was on its way
    codec,     \* codec_
    isFirstRequest,
    firstRequestBuffer

sessionVars == <<speaks, incoming, requests, asked, pipelined, codec, isFirstRequest, firstRequestBuffer>>
vars == <<http1Vars, http2Vars, sessionVars>>

Magic == [i \in 1..MagicLen |-> Token(0, "magic", <<>>)]

Init ==
    /\ Http1Init /\ Http2Init
    /\ \/ speaks = "Http1" /\ requests \in Conversations /\ incoming = <<>>
       \/ speaks = "Http2" /\ requests = <<>> /\ incoming = Magic /\ ~settings
    /\ asked = 0 /\ pipelined = FALSE
    /\ codec = "none"
    /\ isFirstRequest = TRUE /\ firstRequestBuffer = <<>>

ClientAsks ==
    /\ speaks = "Http1" /\ asked < Len(requests)
    /\ asked' = asked + 1
    /\ incoming' = incoming \o Tokens(asked + 1, requests[asked + 1])
    /\ pipelined' = (pipelined \/ incoming # <<>> \/ firstRequestBuffer # <<>>)
    /\ UNCHANGED <<http1Vars, http2Vars, speaks, requests, codec, isFirstRequest, firstRequestBuffer>>

\* What the codec gets of a read: nothing as long as the bytes are too few to tell the
\* protocol, everything there is after that.
Collected(n) == firstRequestBuffer \o SubSeq(incoming, 1, n)

Takes(n) ==
    /\ n \in DOMAIN incoming
    /\ incoming' = SubSeq(incoming, n + 1, Len(incoming))
    /\ UNCHANGED <<speaks, requests, asked, pipelined>>

ReadAndWait(n) ==
    /\ isFirstRequest /\ Takes(n)
    /\ Len(Collected(n)) < MagicLen
    /\ firstRequestBuffer' = Collected(n)
    /\ UNCHANGED <<http1Vars, http2Vars, codec, isFirstRequest>>

ReadAndDispatch(n) ==
    /\ Takes(n)
    /\ isFirstRequest => Len(Collected(n)) >= MagicLen
    /\ isFirstRequest' = FALSE /\ firstRequestBuffer' = <<>>
    /\ codec' = IF isFirstRequest
                THEN IF SubSeq(Collected(n), 1, MagicLen) = Magic THEN "Http2" ELSE "Http1"
                ELSE codec
    /\ IF codec' = "Http1" THEN Dispatch(Collected(n)) /\ UNCHANGED http2Vars
       ELSE BeginDispatch /\ UNCHANGED http1Vars

Next ==
    \/ ClientAsks
    \/ \E n \in DOMAIN incoming : ReadAndWait(n) \/ ReadAndDispatch(n)
    \/ codec = "Http1" /\ Http1Next /\ UNCHANGED <<http2Vars, sessionVars>>
    \/ codec = "Http2" /\ Http2Next /\ UNCHANGED <<http1Vars, sessionVars>>

Spec == Init /\ [][Next]_vars

-----------------------------------------------------------------------------
CodecsTypeOK ==
    /\ Http1TypeOK /\ Http2TypeOK
    /\ Len(firstRequestBuffer) < MagicLen
    /\ isFirstRequest <=> codec = "none"
    /\ codec \in {"none", speaks}

\* The decoder of a stream is told what the client has sent, however the bytes were cut:
\* every header with its name in lower case, one with direct access once, path and method,
\* the body in order, no trailers, and the end of the stream once and last.  A request that
\* has been read and is not decoded was cut off by the one before it, of a client that
\* pipelines, or is too short for the protocol to be known.
DecodesRequests ==
    /\ \A n \in Streams1 :
          LET all == RequestEvents(requests[origin[n]])
          IN  IsPrefix(events[n], all)
    /\ parse.at = "rest" /\ ~resetCalled =>
          \A i \in 1..asked :
              \/ \E n \in Streams1 : origin[n] = i /\ events[n] = RequestEvents(requests[i])
              \/ \E t \in ToSet(incoming) \cup ToSet(firstRequestBuffer) : t.of = i
              \/ i \in dropped /\ i > 1 /\ pipelined

\* On the wire are the responses, each byte once and in order: the headers, which are put
\* into a buffer that is used again, the framing that tells the client where the body
\* ends, and the body; nothing gets into the middle of a response.
ResponseBytesOnce ==
    /\ \A n \in Streams1 : Written(wire1, n) = ResponseItems(given[n])
    /\ \A i, k \in DOMAIN wire1 : i < k /\ wire1[i].n = wire1[k].n =>
          \A j \in i..k : wire1[j].n = wire1[i].n
=============================================================================
