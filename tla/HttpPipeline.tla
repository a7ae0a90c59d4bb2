---------------------------- MODULE HttpPipeline ----------------------------
(***************************************************************************)
(* How a request travels through the HTTP server of CxxConet:              *)
(* EHttpAcceptor (src/EHttpAcceptor.cpp), EHttpSession and ActiveStream    *)
(* (src/EHttpSession.cpp), EHttpRequest and EHttpResponse.                 *)
(*                                                                         *)
(* The connection fiber of a session decodes requests and puts them into   *)
(* the one request channel; workers take them, run the handler and either  *)
(* encode the response themselves or, when reading and writing are         *)
(* detached, put it into the response channel of the session, which the    *)
(* write fiber of the session empties.  The codec is seen from outside:    *)
(* a stream has an encoder, which the codec destroys once the stream is    *)
(* over.  Each call of an encoder ends in a write to the socket, where a   *)
(* fiber may lose its thread, and is one action.                           *)
(***************************************************************************)
EXTENDS Integers, FiniteSets, SequencesExt

CONSTANTS
    Sessions,          \* the HTTP connections
    MaxStreams,        \* bound: streams a client may open on a connection
    Workers,           \* the WORKERS workers
    RequestCapacity,   \* the capacity of requestChannel, 100 in the code
    ResponseCapacity,  \* the capacity of a responseChannel, the default of EFiberChannel
    End                \* the EndHttpResponse

Requests == Sessions \X (1..MaxStreams)

ASSUME PipelineAssumption ==
    /\ IsFiniteSet(Sessions) /\ IsFiniteSet(Workers)
    /\ MaxStreams \in Nat /\ {RequestCapacity, ResponseCapacity} \subseteq Nat \ {0}
    /\ End \notin Requests

VARIABLES
    detached,   \* rwIoDetached_
    protocol,   \* protocol[s]: the kind of codec_, "none" before the first dispatch
    conn,       \* conn[s]: where the connection fiber is
    putting,    \* putting[s]: the stream whose request it puts into the channel, or 0
    closed,     \* closed[s]: closed_
    down,       \* down[s]: the peer is gone, writes to the socket throw
    stream,     \* stream[q]: what has arrived of request q
    encoder,    \* encoder[q]: "none", "live" or "dead", the response_encoder of its ActiveStream
    body,       \* body[q]: the response has bodyData
    sent,       \* sent[q]: what was encoded of the response
    requestChannel,
    responseChannel,  \* responseChannel[s]: requests standing for their responses, and End
    worker,     \* worker[w]: where worker w is, and the request it works on
    writer,     \* writer[s]: where the write fiber is, and the response it encodes
    disturbed,  \* the streams reset by the client, or overtaken by the next request in HTTP/1
    misused     \* the requests for which a destroyed encoder, or no request object, was used

connVars   == <<protocol, conn, putting, closed, down>>
streamVars == <<stream, encoder, body, sent, disturbed, misused>>
vars == <<detached, connVars, streamVars, requestChannel, responseChannel, worker, writer>>

Idle == [at |-> "idle", q |-> End]

Init ==
    /\ detached \in {rwIo \/ work : rwIo, work \in BOOLEAN}  \* a detached worker implies it
    /\ protocol = [s \in Sessions |-> "none"]
    /\ conn = [s \in Sessions |-> "open"]
    /\ putting = [s \in Sessions |-> 0]
    /\ closed = [s \in Sessions |-> FALSE]
    /\ down = [s \in Sessions |-> FALSE]
    /\ stream = [q \in Requests |-> "none"]
    /\ encoder = [q \in Requests |-> "none"]
    /\ body = [q \in Requests |-> FALSE]
    /\ sent = [q \in Requests |-> "nothing"]
    /\ requestChannel = <<>>
    /\ responseChannel = [s \in Sessions |-> <<>>]
    /\ worker = [w \in Workers |-> Idle]
    /\ writer = [s \in Sessions |-> [at |-> "none", q |-> End]]
    /\ disturbed = {} /\ misused = {}

-----------------------------------------------------------------------------
(* The connection fiber *)

\* Mutant of OpenSession: no write fiber is started.
OpenUnwritten(s) ==
    /\ conn[s] = "open"
    /\ conn' = [conn EXCEPT ![s] = "read"]
    /\ UNCHANGED <<detached, protocol, putting, closed, down, streamVars,
                   requestChannel, responseChannel, worker, writer>>

\* onConnectionHandle() up to its reading loop; detachWriteRoutine() starts the write fiber.
OpenSession(s) ==
    /\ conn[s] = "open"
    /\ conn' = [conn EXCEPT ![s] = "read"]
    /\ writer' = IF detached THEN [writer EXCEPT ![s].at = "loop"] ELSE writer
    /\ UNCHANGED <<detached, protocol, putting, closed, down, streamVars,
                   requestChannel, responseChannel, worker>>

\* The stream whose messages arrive: HTTP/1 has one at a time, HTTP/2 all that are open.
Opened(s) == {n \in 1..MaxStreams : stream[<<s, n>>] # "none"}

\* The headers of the next request arrive: newStream() and decodeHeaders().  A request
\* that is refused is answered at once and gets no request object.  In HTTP/1 a request
\* that begins while the one before has no complete answer replaces its active_request_,
\* and with it the encoder (a build with assertions stops here instead).  Writing the
\* refusal to a peer that is gone throws, through the codec and out of read().
DecodeHeaders(s, p, refused, endStream) ==
    LET n == Cardinality(Opened(s)) + 1
        q == <<s, n>>
        overtaken == {r \in Requests : r[1] = s /\ p = "Http1" /\ encoder[r] = "live"}
    IN  /\ conn[s] = "read" /\ n <= MaxStreams
        /\ protocol[s] \in {"none", p}
        /\ p = "Http1" => \A m \in Opened(s) : stream[<<s, m>>] \in {"complete", "refused and complete"}
        /\ protocol' = [protocol EXCEPT ![s] = p]
        /\ stream' = [stream EXCEPT ![q] = CASE refused /\ endStream  -> "refused and complete"
                                             [] refused /\ ~endStream -> "refused"
                                             [] OTHER -> IF endStream THEN "complete" ELSE "body"]
        /\ sent' = IF refused /\ ~down[s] THEN [sent EXCEPT ![q] = "all"] ELSE sent
        /\ encoder' = [r \in Requests |->
                          IF r = q THEN IF refused /\ endStream THEN "dead" ELSE "live"
                          ELSE IF r \in overtaken THEN "dead" ELSE encoder[r]]
        /\ disturbed' = disturbed \cup overtaken
        /\ conn' = [conn EXCEPT ![s] = IF refused THEN (IF down[s] THEN "left" ELSE @)
                                        ELSE IF endStream THEN "put" ELSE @]
        /\ putting' = [putting EXCEPT ![s] = IF endStream /\ ~refused THEN n ELSE @]
        /\ UNCHANGED <<detached, closed, down, body, misused,
                       requestChannel, responseChannel, worker, writer>>

\* The end of the body of request q arrives, decodeData(..., true).  For a request that
\* was refused there is no request object: the assertion, or the use of the null pointer,
\* ends the connection fiber.
DecodeDataEnd(s, n) ==
    LET q == <<s, n>>
    IN  /\ conn[s] = "read"
        /\ encoder[q] = "live"
        /\ \/ /\ stream[q] = "body"
              /\ stream' = [stream EXCEPT ![q] = "complete"]
              /\ conn' = [conn EXCEPT ![s] = "put"]
              /\ putting' = [putting EXCEPT ![s] = n]
              /\ UNCHANGED misused
           \/ /\ stream[q] = "refused"
              /\ stream' = [stream EXCEPT ![q] = "refused and complete"]
              /\ conn' = [conn EXCEPT ![s] = "left"]
              /\ misused' = misused \cup {q}
              /\ UNCHANGED putting
        /\ UNCHANGED <<detached, protocol, closed, down, encoder, body, sent, disturbed,
                       requestChannel, responseChannel, worker, writer>>

\* Mutant of PutRequest: the channel takes any number of requests.
PutRequestUnbounded(s) ==
    /\ conn[s] = "put"
    /\ requestChannel' = Append(requestChannel, <<s, putting[s]>>)
    /\ conn' = [conn EXCEPT ![s] = "read"]
    /\ putting' = [putting EXCEPT ![s] = 0]
    /\ UNCHANGED <<detached, protocol, closed, down, streamVars, responseChannel, worker, writer>>

\* requestChannel.write(request) blocks while the channel is full.
PutRequest(s) ==
    /\ conn[s] = "put"
    /\ Len(requestChannel) < RequestCapacity
    /\ requestChannel' = Append(requestChannel, <<s, putting[s]>>)
    /\ conn' = [conn EXCEPT ![s] = "read"]
    /\ putting' = [putting EXCEPT ![s] = 0]
    /\ UNCHANGED <<detached, protocol, closed, down, streamVars, responseChannel, worker, writer>>

\* An HTTP/2 client resets a stream: onStreamClose() of the codec deletes it.
ResetByClient(s, n) ==
    LET q == <<s, n>>
    IN  /\ conn[s] = "read" /\ protocol[s] = "Http2"
        /\ encoder[q] = "live"
        /\ encoder' = [encoder EXCEPT ![q] = "dead"]
        /\ disturbed' = disturbed \cup {q}
        /\ UNCHANGED <<detached, connVars, stream, body, sent, misused,
                       requestChannel, responseChannel, worker, writer>>

\* read() returns null or throws: end of file, a time-out, an error of the protocol.
Leave(s) ==
    /\ conn[s] = "read"
    /\ conn' = [conn EXCEPT ![s] = "left"]
    /\ UNCHANGED <<detached, protocol, putting, closed, down, streamVars,
                   requestChannel, responseChannel, worker, writer>>

\* Mutant of PutEnd: the end of the responses is not queued.
PutNoEnd(s) ==
    /\ conn[s] = "left"
    /\ conn' = [conn EXCEPT ![s] = "closing"]
    /\ UNCHANGED <<detached, protocol, putting, closed, down, streamVars,
                   requestChannel, responseChannel, worker, writer>>

\* close() first queues the end of the responses ...
PutEnd(s) ==
    /\ conn[s] = "left"
    /\ Len(responseChannel[s]) < ResponseCapacity
    /\ responseChannel' = [responseChannel EXCEPT ![s] = Append(@, End)]
    /\ conn' = [conn EXCEPT ![s] = "closing"]
    /\ UNCHANGED <<detached, protocol, putting, closed, down, streamVars,
                   requestChannel, worker, writer>>

\* ... and then closes the socket.
CloseSocket(s) ==
    /\ conn[s] = "closing"
    /\ conn' = [conn EXCEPT ![s] = "gone"]
    /\ closed' = [closed EXCEPT ![s] = TRUE]
    /\ down' = [down EXCEPT ![s] = TRUE]
    /\ UNCHANGED <<detached, protocol, putting, streamVars,
                   requestChannel, responseChannel, worker, writer>>

\* The peer goes away; the connection fiber will notice when it reads.
PeerGone(s) ==
    /\ ~down[s]
    /\ down' = [down EXCEPT ![s] = TRUE]
    /\ UNCHANGED <<detached, protocol, conn, putting, closed, streamVars,
                   requestChannel, responseChannel, worker, writer>>

-----------------------------------------------------------------------------
(* Encoding, by a worker or by the write fiber *)

\* The calls in which a response is encoded, and the one that follows.
After(part) == CASE part = "headers" -> "data" [] part = "data" -> "end"
IsLast(part, q) == part = "end" \/ (part = "headers" /\ ~body[q])

\* Mutant of Encode: the headers end the stream, whether a body follows or not.
EncodeEager(part, q) ==
    IF encoder[q] = "live"
    THEN /\ sent' = [sent EXCEPT ![q] = IF IsLast(part, q) THEN "all" ELSE part]
         /\ encoder' = [encoder EXCEPT ![q] = "dead"]
         /\ UNCHANGED misused
    ELSE /\ misused' = misused \cup {q}
         /\ UNCHANGED <<sent, encoder>>

\* One call of the encoder of q.  When the response is complete and the request is too,
\* the codec destroys the encoder.
Encode(part, q) ==
    IF encoder[q] = "live"
    THEN /\ sent' = [sent EXCEPT ![q] = IF IsLast(part, q) THEN "all" ELSE part]
         /\ encoder' = [encoder EXCEPT ![q] = IF IsLast(part, q) THEN "dead" ELSE @]
         /\ UNCHANGED misused
    ELSE /\ misused' = misused \cup {q}
         /\ UNCHANGED <<sent, encoder>>

\* A write to a socket without a peer throws; an HTTP/2 codec keeps quiet once the
\* session is closed.
Throws(q) == down[q[1]] /\ ~(protocol[q[1]] = "Http2" /\ closed[q[1]])

-----------------------------------------------------------------------------
(* The workers *)

\* Mutant of TakeRequest: the request stays in the channel.
PeekRequest(w) ==
    /\ worker[w].at = "idle"
    /\ requestChannel # <<>>
    /\ worker' = [worker EXCEPT ![w] = [at |-> "handler", q |-> Head(requestChannel)]]
    /\ UNCHANGED <<detached, connVars, streamVars, requestChannel, responseChannel, writer>>

TakeRequest(w) ==
    /\ worker[w].at = "idle"
    /\ requestChannel # <<>>
    /\ worker' = [worker EXCEPT ![w] = [at |-> "handler", q |-> Head(requestChannel)]]
    /\ requestChannel' = Tail(requestChannel)
    /\ UNCHANGED <<detached, connVars, streamVars, responseChannel, writer>>

\* processRequest() up to the handler's return; the handler decides on the body.
RunHandler(w, withBody) ==
    /\ worker[w].at = "handler"
    /\ body' = [body EXCEPT ![worker[w].q] = withBody]
    /\ worker' = [worker EXCEPT ![w].at = IF detached THEN "reply" ELSE "headers"]
    /\ UNCHANGED <<detached, connVars, stream, encoder, sent, disturbed, misused,
                   requestChannel, responseChannel, writer>>

PutResponse(w) ==
    LET s == worker[w].q[1]
    IN  /\ worker[w].at = "reply"
        /\ Len(responseChannel[s]) < ResponseCapacity
        /\ responseChannel' = [responseChannel EXCEPT ![s] = Append(@, worker[w].q)]
        /\ worker' = [worker EXCEPT ![w] = Idle]
        /\ UNCHANGED <<detached, connVars, streamVars, requestChannel, writer>>

\* Whatever an encoder throws is swallowed, and with it the rest of the response.
WorkerEncodes(w) ==
    LET q == worker[w].q  part == worker[w].at
    IN  /\ part \in {"headers", "data", "end"}
        /\ IF Throws(q)
           THEN worker' = [worker EXCEPT ![w] = Idle] /\ UNCHANGED <<sent, encoder, misused>>
           ELSE /\ Encode(part, q)
                /\ worker' = [worker EXCEPT ![w] =
                       IF IsLast(part, q) THEN Idle ELSE [@ EXCEPT !.at = After(part)]]
        /\ UNCHANGED <<detached, connVars, stream, body, disturbed,
                       requestChannel, responseChannel, writer>>

-----------------------------------------------------------------------------
(* The write fiber *)

\* while (!session->isClosed())
WriterLoops(s) ==
    /\ writer[s].at = "loop"
    /\ writer' = [writer EXCEPT ![s].at = IF closed[s] THEN "done" ELSE "wait"]
    /\ UNCHANGED <<detached, connVars, streamVars, requestChannel, responseChannel, worker>>

WriterTakes(s) ==
    /\ writer[s].at = "wait"
    /\ responseChannel[s] # <<>>
    /\ LET item == Head(responseChannel[s])
       IN  writer' = [writer EXCEPT ![s] =
               IF item = End THEN [@ EXCEPT !.at = "done"] ELSE [at |-> "headers", q |-> item]]
    /\ responseChannel' = [responseChannel EXCEPT ![s] = Tail(@)]
    /\ UNCHANGED <<detached, connVars, streamVars, requestChannel, worker>>

\* Only EInterruptedException is caught: what an encoder throws ends the fiber.
WriterEncodes(s) ==
    LET q == writer[s].q  part == writer[s].at
    IN  /\ part \in {"headers", "data", "end"}
        /\ IF Throws(q)
           THEN /\ writer' = [writer EXCEPT ![s] = [at |-> "failed", q |-> End]]
                /\ UNCHANGED <<sent, encoder, misused>>
           ELSE /\ Encode(part, q)
                /\ writer' = [writer EXCEPT ![s] =
                       IF IsLast(part, q) THEN [at |-> "loop", q |-> End]
                                          ELSE [@ EXCEPT !.at = After(part)]]
        /\ UNCHANGED <<detached, connVars, stream, body, disturbed,
                       requestChannel, responseChannel, worker>>

-----------------------------------------------------------------------------
Client(s) ==
    \/ \E p \in {"Http1", "Http2"}, refused, endStream \in BOOLEAN :
          DecodeHeaders(s, p, refused, endStream)
    \/ \E n \in 1..MaxStreams : DecodeDataEnd(s, n) \/ ResetByClient(s, n)
    \/ Leave(s) \/ PeerGone(s)

Connection(s) == OpenSession(s) \/ PutRequest(s) \/ PutEnd(s) \/ CloseSocket(s)

WriteFiber(s) == WriterLoops(s) \/ WriterTakes(s) \/ WriterEncodes(s)

Work(w) ==
    \/ TakeRequest(w) \/ PutResponse(w) \/ WorkerEncodes(w)
    \/ \E withBody \in BOOLEAN : RunHandler(w, withBody)

Next ==
    \/ \E s \in Sessions : Client(s) \/ Connection(s) \/ WriteFiber(s)
    \/ \E w \in Workers : Work(w)

Spec == Init /\ [][Next]_vars

\* Every fiber and every worker that can run does; what the clients send is up to them.
Fairness ==
    /\ \A s \in Sessions : WF_vars(Connection(s)) /\ WF_vars(WriteFiber(s))
    /\ \A w \in Workers : WF_vars(Work(w))

FairSpec == Spec /\ Fairness

-----------------------------------------------------------------------------
Stages == {"headers", "data", "end"}

TypeOK ==
    /\ detached \in BOOLEAN
    /\ protocol \in [Sessions -> {"none", "Http1", "Http2"}]
    /\ conn \in [Sessions -> {"open", "read", "put", "left", "closing", "gone"}]
    /\ putting \in [Sessions -> 0..MaxStreams]
    /\ closed \in [Sessions -> BOOLEAN] /\ down \in [Sessions -> BOOLEAN]
    /\ stream \in [Requests -> {"none", "body", "complete", "refused", "refused and complete"}]
    /\ encoder \in [Requests -> {"none", "live", "dead"}]
    /\ body \in [Requests -> BOOLEAN]
    /\ sent \in [Requests -> {"nothing", "headers", "data", "all"}]
    /\ requestChannel \in Seq(Requests) /\ Len(requestChannel) <= RequestCapacity
    /\ responseChannel \in [Sessions -> Seq(Requests \cup {End})]
    /\ worker \in [Workers -> [at: {"idle", "handler", "reply"} \cup Stages, q: Requests \cup {End}]]
    /\ writer \in [Sessions -> [at: {"none", "loop", "wait", "done", "failed"} \cup Stages,
                                q: Requests \cup {End}]]
    /\ disturbed \subseteq Requests /\ misused \subseteq Requests

\* How often the pipeline holds request q, or its response.
Occurrences(seq, q) == Cardinality({i \in DOMAIN seq : seq[i] = q})
Copies(q) ==
    LET s == q[1]
    IN  (IF conn[s] = "put" /\ putting[s] = q[2] THEN 1 ELSE 0)
        + Occurrences(requestChannel, q)
        + Cardinality({w \in Workers : worker[w].q = q})
        + Occurrences(responseChannel[s], q)
        + (IF writer[s].q = q THEN 1 ELSE 0)

\* A request that is complete is in one place of the pipeline only, be it a channel, a
\* worker or a write fiber, until its response is encoded; it disappears unanswered
\* only when its connection has lost its peer or its encoder is gone.
NothingForgotten ==
    \A q \in Requests :
        /\ Copies(q) <= 1
        /\ Copies(q) = 1 => stream[q] = "complete" /\ (sent[q] # "all")
        /\ stream[q] = "complete" /\ Copies(q) = 0 =>
              sent[q] = "all" \/ down[q[1]] \/ q \in misused

\* A worker or a write fiber never calls an encoder that the codec has destroyed, unless
\* the client had reset the stream or begun the next HTTP/1 request: the encoder lives
\* from the first headers to the last byte of the response.
EncoderOutlivesResponse ==
    \A q \in misused : q \in disturbed \/ stream[q] = "refused and complete"

\* A request that was put into the request channel is answered in the end, while its
\* client neither leaves nor resets or overtakes it.
RequestAnswered ==
    \A q \in Requests :
        q \in ToSet(requestChannel) ~>
            sent[q] = "all" \/ q \in disturbed \/ down[q[1]] \/ conn[q[1]] \notin {"read", "put"}

\* The write fiber of a session ends after the session was closed, whatever the workers
\* still put into its channel, so that the session can be released.
WriterEnds ==
    \A s \in Sessions : closed[s] ~> writer[s].at \in {"none", "done", "failed"}
=============================================================================
