----------------------------- MODULE Http1Codec -----------------------------
(***************************************************************************)
(* The HTTP/1 server codec: Http1::ServerConnectionImpl with its           *)
(* ConnectionImpl and encoders (src/http/source/http1/codec_impl.cc).      *)
(*                                                                         *)
(* The http_parser is external.  What it makes of the bytes of a client is *)
(* a sequence of tokens, each of which it hands over with one callback: a  *)
(* name, a value or a url comes in as many calls as it has pieces, since   *)
(* it may be cut by the end of a read.  A callback is one action, and so   *)
(* is a call of the encoder with everything it writes.                     *)
(***************************************************************************)
EXTENDS HeaderEntries

CONSTANTS
    PathName, HostName, MethodName,  \* the names of :path, :authority and :method
    Lower,        \* the lower case of every piece of a name
    MaxRequests,  \* bound: requests on a connection
    BodyPieces    \* the pieces of a response body, in their order

VARIABLES
    settings,     \* codec_settings_.allow_absolute_url_
    parse,        \* at: "rest", "parse" in dispatch(), "failed" after it threw; slice: what
                  \* it has still to parse; expects: what the parser takes next; http10
    fields,       \* current_header_map_, _field_, _value_, header_parsing_state_, the
                  \* deferred_end_stream_headers_, and whether every assertion held
    request,      \* active_request_
    resetCalled,  \* reset_stream_called_
    reserved,     \* reserved_iovec_
    wire1,        \* what was written to the connection
    events,       \* events[n]: what the decoder of stream n was told
    origin,       \* origin[n]: which request of the client stream n is
    given,        \* given[n]: what the encoder of stream n was given
    dropped       \* the requests of which dispatch() has dropped tokens

parserVars == <<settings, parse, fields, resetCalled, events, origin, dropped>>
encoderVars == <<reserved, wire1, given>>
http1Vars == <<parserVars, encoderVars, request>>

Numbers == 1..MaxRequests
Streams1 == {n \in Numbers : origin[n] # 0}

\* A header map pointer that is null, which is no map.
NoMap == <<>>

NoRequest == [n |-> 0, url |-> EmptyString, remoteComplete |-> FALSE, started |-> FALSE, chunked |-> TRUE]

Http1Init ==
    /\ settings \in BOOLEAN
    /\ parse = [at |-> "rest", slice |-> <<>>, expects |-> "begin", http10 |-> FALSE]
    /\ fields = [map |-> NoMap, state |-> "Field", field |-> EmptyString, value |-> EmptyString,
                 deferred |-> NoMap, sound |-> TRUE]
    /\ request = NoRequest
    /\ resetCalled = FALSE
    /\ reserved = [content |-> <<>>, pos |-> 0, limit |-> 0]
    /\ wire1 = <<>>
    /\ events = [n \in Numbers |-> <<>>]
    /\ origin = [n \in Numbers |-> 0]
    /\ given = [n \in Numbers |-> [interim |-> FALSE, headers |-> "none", http10 |-> FALSE,
                                   pieces |-> <<>>, ended |-> FALSE]]
    /\ dropped = {}

-----------------------------------------------------------------------------
(* The tokens of the i-th request of a client *)

Token(i, kind, arg) == [of |-> i, kind |-> kind, arg |-> arg]
Cut(i, kind, text) == [j \in DOMAIN text |-> Token(i, kind, <<text[j]>>)]
HeaderTokens(i, h) ==
    Cut(i, "field", h.name) \o (IF h.value = <<>> THEN <<Token(i, "value", <<>>)>> ELSE Cut(i, "value", h.value))
AllHeaders(i, hs) == FlattenSeq([j \in DOMAIN hs |-> HeaderTokens(i, hs[j])])

\* A request that is chunked may have trailers.
HasBody(r) == r.chunked \/ r.body # <<>>

Tokens(i, r) ==
    <<Token(i, "begin", <<>>)>> \o Cut(i, "url", r.url) \o AllHeaders(i, r.headers)
    \o <<Token(i, "headersEnd", r)>> \o Cut(i, "body", r.body) \o AllHeaders(i, r.trailers)
    \o <<Token(i, "end", <<>>)>>

-----------------------------------------------------------------------------
(* The callbacks for headers *)

Lowered(text) == [i \in DOMAIN text |-> Lower[text[i]]]
LowerCase(s) == [s EXCEPT !.text = Lowered(s.text)]

\* Mutant of CompleteLastHeader: the strings are copied into the map and not moved.
CopyLastHeader(f) ==
    LET r == InsertByKey(f.map, LowerCase(f.field), f.value)
        g == IF IsEmpty(f.field) THEN f ELSE [f EXCEPT !.map = r.map]
    IN  [g EXCEPT !.state = "Field", !.sound = @ /\ IsEmpty(g.field) /\ IsEmpty(g.value)]

CompleteLastHeader(f) ==
    LET r == InsertByKey(f.map, LowerCase(f.field), f.value)
        g == IF IsEmpty(f.field) THEN f ELSE [f EXCEPT !.map = r.map, !.field = r.key, !.value = r.value]
    IN  [g EXCEPT !.state = "Field", !.sound = @ /\ IsEmpty(g.field) /\ IsEmpty(g.value)]

\* Trailers are ignored.
OnHeaderField(f, text) ==
    LET g == IF f.state = "Value" THEN CompleteLastHeader(f) ELSE f
    IN  IF f.state = "Done" THEN f ELSE [g EXCEPT !.field = AppendTo(@, text)]

\* Mutant of OnHeaderValue: a value that is cut keeps its last piece only.
OnHeaderValueLast(f, text) ==
    IF f.state = "Done" THEN f ELSE [f EXCEPT !.state = "Value", !.value = SetCopy(@, text)]

OnHeaderValue(f, text) ==
    IF f.state = "Done" THEN f ELSE [f EXCEPT !.state = "Value", !.value = AppendTo(@, text)]

\* handlePath() with the url u.  When absolute urls are allowed, the host of the url wins
\* over the Host header, and an absolute url without a path is for "/".
Absolute(u, method) ==
    /\ settings /\ method # <<"CONNECT">>
    /\ u[1] # "/" /\ ~(u[1] = "*" /\ method = <<"OPTIONS">>)
ValidUrl(u) == u[1] = "http:" /\ Len(u) >= 2
UrlPath(u) == IF Len(u) > 2 THEN SubSeq(u, 3, Len(u)) ELSE <<"/">>

HandlePath(m, url, method) ==
    LET u == url.text
    IN  IF Absolute(u, method)
        THEN InsertByKey(WithValue(m, HostName, <<u[2]>>), RefTo(PathName), SetCopy(EmptyString, UrlPath(u)))
        ELSE InsertByKey(m, RefTo(PathName), url)

-----------------------------------------------------------------------------
(* The callbacks, one for each token *)

Told(n, kind, content, end) ==
    events' = [events EXCEPT ![n] = Append(@, [kind |-> kind, content |-> content, end |-> end])]
Content(m) == [i \in DOMAIN m.list |-> <<m.list[i].key.text, m.list[i].value.text>>]

\* The parser goes on with the slice; a parser that is paused leaves the rest of it, and
\* so does dispatch().
GoesOn(expects, paused, http10) ==
    LET rest == Tail(parse.slice)
    IN  /\ parse' = [at |-> IF paused \/ rest = <<>> THEN "rest" ELSE "parse",
                     slice |-> IF paused THEN <<>> ELSE rest,
                     expects |-> expects, http10 |-> http10]
        /\ dropped' = IF paused THEN dropped \cup {rest[i].of : i \in DOMAIN rest} ELSE dropped

\* onMessageBegin(): a request that is still active is replaced (a build with assertions
\* stops here).
OnMessageBegin(i) ==
    LET n == Cardinality(Streams1) + 1
    IN  /\ GoesOn("head", FALSE, parse.http10)
        /\ fields' = [fields EXCEPT !.map = NoHeaders, !.state = "Field"]
        /\ IF resetCalled THEN UNCHANGED <<request, origin>>
           ELSE request' = [NoRequest EXCEPT !.n = n] /\ origin' = [origin EXCEPT ![n] = i]
        /\ UNCHANGED events

OnUrl(text) ==
    /\ GoesOn("head", FALSE, parse.http10)
    /\ request' = IF request = NoRequest THEN request ELSE [request EXCEPT !.url = AppendTo(@, text)]
    /\ UNCHANGED <<fields, origin, events>>

OnHeader(newFields) ==
    /\ GoesOn(parse.expects, FALSE, parse.http10)
    /\ fields' = newFields
    /\ UNCHANGED <<request, origin, events>>

\* onHeadersComplete(): the headers of a request without a body wait for its end.  (The
\* session is not closed while its connection fiber is here, isClosed() is false.)
OnHeadersComplete(r) ==
    LET f == CompleteLastHeader(fields)
        path == HandlePath(f.map, request.url, r.method)
        map  == WithValue(path.map, MethodName, r.method)
        done == [f EXCEPT !.map = NoMap, !.state = "Done"]
        http10 == parse.http10 \/ r.http10
    IN  IF request = NoRequest
        THEN GoesOn("body", FALSE, http10) /\ fields' = done /\ UNCHANGED <<request, origin, events>>
        ELSE /\ GoesOn("body", FALSE, http10)
             /\ request' = [request EXCEPT !.url = IF Absolute(@.text, r.method) THEN Cleared(@) ELSE path.value]
             /\ IF HasBody(r)
                THEN fields' = done /\ Told(request.n, "headers", Content(map), FALSE)
                ELSE fields' = [done EXCEPT !.deferred = map] /\ UNCHANGED events
             /\ UNCHANGED origin

OnBody(text) ==
    /\ GoesOn("body", FALSE, parse.http10)
    /\ IF request = NoRequest THEN UNCHANGED events ELSE Told(request.n, "data", text, FALSE)
    /\ UNCHANGED <<fields, request, origin>>

\* onMessageComplete() always pauses the parser.
OnMessageComplete ==
    /\ GoesOn("begin", TRUE, parse.http10)
    /\ IF request = NoRequest THEN UNCHANGED <<fields, request, events>>
       ELSE /\ request' = [request EXCEPT !.remoteComplete = TRUE]
            /\ fields' = [fields EXCEPT !.deferred = NoMap]
            /\ IF fields.deferred # NoMap
               THEN Told(request.n, "headers", Content(fields.deferred), TRUE)
               ELSE Told(request.n, "data", <<>>, TRUE)
    /\ UNCHANGED origin

\* Whether the parser is at a place where the token is part of a request.
Fits1(token) ==
    CASE parse.expects = "begin" -> token.kind = "begin"
      [] parse.expects = "head"  -> token.kind \in {"url", "field", "value", "headersEnd"}
      [] parse.expects = "body"  -> token.kind \in {"body", "field", "value", "end"}

Refused(token) ==
    token.kind = "headersEnd" /\ request # NoRequest /\ Absolute(request.url.text, token.arg.method)
    /\ ~ValidUrl(request.url.text)

Callback ==
    LET token == Head(parse.slice)
    IN  /\ parse.at = "parse" /\ Fits1(token) /\ ~Refused(token)
        /\ \/ token.kind = "begin" /\ OnMessageBegin(token.of)
           \/ token.kind = "url" /\ OnUrl(token.arg)
           \/ token.kind = "field" /\ OnHeader(OnHeaderField(fields, token.arg))
           \/ token.kind = "value" /\ OnHeader(OnHeaderValue(fields, token.arg))
           \/ token.kind = "headersEnd" /\ OnHeadersComplete(token.arg)
           \/ token.kind = "body" /\ OnBody(token.arg)
           \/ token.kind = "end" /\ OnMessageComplete
        /\ UNCHANGED <<settings, resetCalled, encoderVars>>

\* An item on the wire belongs to the response of a stream, or is the answer to an error.
Item(n, what) == [n |-> n, what |-> what]

\* Bytes that are not HTTP, or a url that is not valid: sendProtocolError() answers unless
\* a response has been started, and dispatch() throws.
ProtocolError ==
    /\ parse.at = "parse"
    /\ parse' = [parse EXCEPT !.at = "failed", !.slice = <<>>]
    /\ wire1' = IF request = NoRequest \/ ~request.started THEN Append(wire1, Item(0, "error")) ELSE wire1
    /\ UNCHANGED <<settings, fields, request, resetCalled, reserved, events, origin, given, dropped>>

\* dispatch(data) begins.
Dispatch(tokens) ==
    /\ parse.at = "rest"
    /\ parse' = [parse EXCEPT !.at = "parse", !.slice = tokens]
    /\ UNCHANGED <<settings, fields, request, resetCalled, encoderVars, events, origin, dropped>>

-----------------------------------------------------------------------------
(* The encoder of the active request *)

\* EIoBuffer put(), flip(), and what is between position and limit.
PutItems(b, items) ==
    LET end == b.pos + Len(items)
    IN  [content |-> SubSeq(b.content, 1, b.pos) \o items \o SubSeq(b.content, end + 1, Len(b.content)),
         pos |-> end, limit |-> IF end > b.limit THEN end ELSE b.limit]
\* Mutant of Flipped: the limit of a longer head before stays.
Rewound(b) == [b EXCEPT !.pos = 0]

Flipped(b) == [b EXCEPT !.limit = b.pos, !.pos = 0]
Unread(b) == SubSeq(b.content, b.pos + 1, b.limit)

\* flushOutput(): the reserved buffer is flipped and follows the others; writing a buffer
\* leaves its position where it is.
FlushOutput(others, b) ==
    /\ reserved' = Flipped(b)
    /\ wire1' = wire1 \o others \o Unread(Flipped(b))

Items(n, whats) == [i \in DOMAIN whats |-> Item(n, whats[i])]

\* endEncode() adds the last chunk, and after the flush onEncodeComplete() ends a request
\* that has been received.
LastChunk(chunked) == IF chunked THEN <<"last">> ELSE <<>>
Ended(q) == IF q.remoteComplete THEN NoRequest ELSE q

\* Fibers change places while the connection waits for its client or for a channel, which
\* it does in the callbacks of the decoder.
MayEncode ==
    /\ request # NoRequest /\ ~given[request.n].ended
    /\ parse.at # "parse" \/ parse.expects = "body"

\* encodeHeaders() of a response with or without a Content-Length, and of "100 Continue".
EncodeHeaders1(kind, end) ==
    LET n == request.n
        chunked == kind = "plain" /\ ~end /\ ~parse.http10
        framing == CASE kind = "length" -> <<"length">>
                     [] kind = "plain" -> IF end THEN <<"length 0">> ELSE IF chunked THEN <<"chunked">> ELSE <<>>
                     [] kind = "100" -> <<>>
        head == Items(n, <<IF kind = "100" THEN "100" ELSE "status">> \o framing \o <<"crlf">>)
        q == [request EXCEPT !.started = TRUE, !.chunked = chunked]
    IN  /\ MayEncode /\ given[n].headers = "none"
        /\ kind = "100" => ~end /\ ~given[n].interim
        /\ FlushOutput(<<>>, PutItems(reserved, head))
        /\ request' = IF end THEN Ended(q) ELSE q
        /\ given' = [given EXCEPT ![n] =
               IF kind = "100" THEN [@ EXCEPT !.interim = TRUE]
               ELSE [@ EXCEPT !.headers = IF kind = "plain" /\ end THEN "only" ELSE kind, !.http10 = parse.http10, !.ended = end]]
        /\ UNCHANGED parserVars

\* encodeData(), also of no data at all, and encodeTrailers(), which only ends the response.
EncodeData1(piece, end) ==
    LET n == request.n  c == request.chunked
        chunk == IF piece = <<>> THEN <<>> ELSE IF c THEN <<"size">> \o piece \o <<"crlf">> ELSE piece
    IN  /\ MayEncode /\ given[n].headers # "none"
        /\ FlushOutput(Items(n, chunk \o (IF end THEN LastChunk(c) ELSE <<>>)), reserved)
        /\ request' = IF end THEN Ended(request) ELSE request
        /\ given' = [given EXCEPT ![n].pieces = @ \o piece, ![n].ended = end]
        /\ UNCHANGED parserVars

EncodeTrailers1 == EncodeData1(<<>>, TRUE)

\* resetStream(); nothing is decoded any more on the connection.
ResetStream1 ==
    /\ request # NoRequest /\ ~resetCalled
    /\ resetCalled' = TRUE /\ request' = NoRequest
    /\ UNCHANGED <<settings, parse, fields, events, origin, dropped, encoderVars>>

Http1Next ==
    \/ Callback \/ ProtocolError \/ ResetStream1 \/ EncodeTrailers1
    \/ \E end \in BOOLEAN :
          \/ \E kind \in {"plain", "length", "100"} : EncodeHeaders1(kind, end)
          \/ \E i \in DOMAIN BodyPieces :
                /\ request # NoRequest /\ Len(given[request.n].pieces) = i - 1
                /\ EncodeData1(<<BodyPieces[i]>>, end)

-----------------------------------------------------------------------------
Http1TypeOK ==
    /\ parse.at \in {"rest", "parse", "failed"} /\ (parse.at # "parse" => parse.slice = <<>>)
    /\ fields.state \in {"Field", "Value", "Done"}
    /\ fields.sound
    /\ fields.map # NoMap => fields.map.asserts
    /\ request.n \in 0..MaxRequests
    /\ reserved.pos = 0 /\ reserved.limit <= Len(reserved.content)
    /\ dropped \subseteq Numbers

\* The name a header is known by, and the list of the first k of the headers hs.
KnownAs(key) == IF key \in DOMAIN Canonical THEN Canonical[key] ELSE key
Names1(list) == {list[i][1] : i \in DOMAIN list}

ListedHeader(list, h) ==
    LET key == Lowered(h.name)
    IN  IF key \in DOMAIN Canonical /\ KnownAs(key) \in Names1(list)
        THEN list ELSE Append(list, <<KnownAs(key), h.value>>)

Listed(hs, k) ==
    LET l[i \in 0..k] == IF i = 0 THEN <<>> ELSE ListedHeader(l[i - 1], hs[i])
    IN  l[k]

Replaced1(list, name, v) ==
    IF name \in Names1(list)
    THEN [i \in DOMAIN list |-> IF list[i][1] = name THEN <<name, v>> ELSE list[i]]
    ELSE Append(list, <<name, v>>)

\* A text is the sequence of its pieces.
IsText(t) == Len(t) \in Nat /\ t = [i \in 1..Len(t) |-> t[i]]
\* A header has a name, and not that of the path or the method: the parser takes no name,
\* and a colon in one, for an error.
AreHeaders(hs) ==
    /\ IsText(hs)
    /\ \A j \in DOMAIN hs :
          /\ IsText(hs[j].name) /\ Len(hs[j].name) > 0 /\ IsText(hs[j].value)
          /\ KnownAs(Lowered(hs[j].name)) \notin {PathName, MethodName}

\* The events a request r is worth.
RequestEvents(r) ==
    LET listed == Listed(r.headers, Len(r.headers))
        abs == Absolute(r.url, r.method)
        path == IF abs THEN UrlPath(r.url) ELSE r.url
        all == (IF abs THEN Replaced1(listed, HostName, <<r.url[2]>>) ELSE listed)
               \o <<<<PathName, path>>, <<MethodName, r.method>>>>
        Event(kind, content, end) == [kind |-> kind, content |-> content, end |-> end]
    IN  IF abs /\ ~ValidUrl(r.url) THEN <<>>
        ELSE IF HasBody(r)
        THEN <<Event("headers", all, FALSE)>>
             \o [i \in DOMAIN r.body |-> Event("data", <<r.body[i]>>, FALSE)]
             \o <<Event("data", <<>>, TRUE)>>
        ELSE <<Event("headers", all, TRUE)>>

\* What is on the wire of the response of stream n.
Written(wire, n) ==
    LET w[i \in 0..Len(wire)] ==
            IF i = 0 THEN <<>> ELSE IF wire[i].n = n THEN Append(w[i - 1], wire[i].what) ELSE w[i - 1]
    IN  w[Len(wire)]

\* The items a response is worth.
ResponseItems(g) ==
    LET chunked == g.headers = "plain" /\ ~g.http10
        Framed(p) == IF chunked THEN <<"size", p, "crlf">> ELSE <<p>>
    IN  (IF g.interim THEN <<"100", "crlf">> ELSE <<>>)
        \o (CASE g.headers = "none" -> <<>>
              [] g.headers = "only" -> <<"status", "length 0", "crlf">>
              [] g.headers = "length" -> <<"status", "length", "crlf">>
              [] g.headers = "plain" -> <<"status">> \o (IF chunked THEN <<"chunked">> ELSE <<>>) \o <<"crlf">>)
        \o FlattenSeq([i \in DOMAIN g.pieces |-> Framed(g.pieces[i])])
        \o (IF g.ended /\ chunked THEN <<"last">> ELSE <<>>)
=============================================================================
