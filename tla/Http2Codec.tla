----------------------------- MODULE Http2Codec -----------------------------
(***************************************************************************)
(* The HTTP/2 server codec: Http2::ConnectionImpl with its StreamImpls     *)
(* (src/http/source/http2/codec_impl.cc) on top of nghttp2.                *)
(*                                                                         *)
(* nghttp2 is external: for each stream it has frames to send, and a data  *)
(* source that is read as far as the window of the peer allows.  A         *)
(* dispatch() takes frames of the peer one after another; sending is the   *)
(* loop of nghttp2_session_send(), one frame an action.  Both are calls of *)
(* one fiber at a time, so nothing else happens on the codec meanwhile.    *)
(***************************************************************************)
EXTENDS Integers, FiniteSets, SequencesExt, Sums

CONSTANTS
    MaxStreams,  \* bound: streams the peer opens
    Sizes,       \* the sizes of the pieces of a response body
    MaxPieces,   \* bound: pieces of all response bodies
    Window,      \* what the peer lets the server send on a stream at first
    MaxWindow,   \* bound: what it lets it send on any stream in the end
    MaxFrame     \* the largest DATA frame nghttp2 asks for

Streams == 1..MaxStreams

ASSUME Http2Assumption ==
    /\ MaxStreams \in Nat \ {0} /\ Sizes \subseteq Nat \ {0}
    /\ {MaxPieces, Window, MaxWindow} \subseteq Nat /\ Window <= MaxWindow
    /\ MaxFrame \in Nat \ {0}

VARIABLES
    phase,         \* "rest"; "recv" in dispatch(); "send" in sendPendingFrames(); "failed"
                   \* after dispatch() threw; "spin" when move() splits a buffer
    dispatching,   \* dispatching_
    resetPending,  \* pending_deferred_reset_
    closedConn,    \* connection_->isClosed()
    str,           \* str[n]: the StreamImpl of stream n
    lib,           \* lib[n]: what nghttp2 keeps of it
    wire           \* wire[n]: the frames of the stream that were sent

http2Vars == <<phase, dispatching, resetPending, closedConn, str, lib, wire>>

NoStream ==
    [held |-> FALSE,       \* in active_streams_ and in the user data of nghttp2
     headers |-> FALSE,    \* headers_ is not null
     answered |-> FALSE,   \* encodeHeaders() was called
     localEnd |-> FALSE,   \* local_end_stream_
     endSent |-> FALSE,    \* local_end_stream_sent_
     remoteEnd |-> FALSE,  \* remote_end_stream_
     deferred |-> FALSE,   \* data_deferred_
     reset |-> FALSE,      \* deferred_reset_
     trailers |-> FALSE,   \* pending_trailers_
     pending |-> <<>>,     \* pending_send_data_
     given |-> <<>>,       \* all pieces of the response body so far
     cancelled |-> FALSE,  \* resetStream() was called
     late |-> FALSE]       \* an event was fired after that

NoFrames == [state |-> "idle", queue |-> {}, data |-> "none", window |-> Window, granted |-> Window]

Http2Init ==
    /\ phase = "rest"
    /\ dispatching = FALSE /\ resetPending = FALSE /\ closedConn = FALSE
    /\ str = [n \in Streams |-> NoStream]
    /\ lib = [n \in Streams |-> NoFrames]
    /\ wire = [n \in Streams |-> <<>>]

-----------------------------------------------------------------------------
(* Sending *)

\* sendPendingFrames() does nothing within dispatch(), nor after one that threw, nor for
\* a closed connection.
SendPending == phase' = IF dispatching \/ closedConn THEN phase ELSE "send"

\* onStreamClose() takes the StreamImpl out of active_streams_, which deletes it.
ClosedStream(n) == [str EXCEPT ![n].held = FALSE]
ClosedFrames(n) == [lib EXCEPT ![n].state = "closed", ![n].queue = {}, ![n].data = "none"]

\* nghttp2 closes a stream that both sides have ended.
BothEnded(n, ended) == ended /\ str[n].remoteEnd

Frame(kind, size) == [kind |-> kind, size |-> size]

\* nghttp2 sends the headers of a stream first, then trailers, then data; a reset that
\* was submitted makes it drop all the others.
NextFrame(n) ==
    LET f == lib[n]
    IN  IF "reset" \in f.queue THEN "reset"
        ELSE IF "headers" \in f.queue THEN "headers"
        ELSE IF "end" \in f.queue THEN "end"
        ELSE IF "trailers" \in f.queue THEN "trailers"
        ELSE IF f.data = "active" /\ f.window > 0 THEN "data" ELSE "none"

Sendable == {n \in Streams : lib[n].state = "open" /\ NextFrame(n) # "none"}

\* onFrameSend() notes whether the frame ended the stream.
Sent(n, kind, size, ends, frames, newStr) ==
    /\ wire' = [wire EXCEPT ![n] = Append(@, Frame(kind, size))]
    /\ IF BothEnded(n, ends)
       THEN str' = ClosedStream(n) /\ lib' = ClosedFrames(n)
       ELSE /\ str' = [str EXCEPT ![n] = [newStr EXCEPT !.endSent = ends]]
            /\ lib' = [lib EXCEPT ![n] = [frames EXCEPT !.data = IF ends THEN "none" ELSE @]]
    /\ UNCHANGED phase

\* HEADERS with or without the end of the stream; without it the data source follows.
SendHeaders(n) ==
    LET kind == NextFrame(n)  f == lib[n] IN
    /\ kind \in {"headers", "end", "trailers"}
    /\ Sent(n, kind, 0, kind # "headers",
            [f EXCEPT !.queue = @ \ {kind}, !.data = IF kind = "headers" THEN "active" ELSE @],
            str[n])

SendReset(n) ==
    /\ NextFrame(n) = "reset"
    /\ wire' = [wire EXCEPT ![n] = Append(@, Frame("reset", 0))]
    /\ str' = ClosedStream(n) /\ lib' = ClosedFrames(n)
    /\ UNCHANGED phase

\* onDataSourceRead(): nothing there yet, the data source is put off.
PutOff(n) ==
    /\ str' = [str EXCEPT ![n].deferred = TRUE]
    /\ lib' = [lib EXCEPT ![n].data = "deferred"]
    /\ UNCHANGED <<phase, wire>>

\* onDataSourceSend() moves as many bytes as the frame has out of pending_send_data_,
\* which ends well only at the end of a buffer (see HttpBuffer).
EndsBuffer(pieces, amount) == \E i \in 0..Len(pieces) : Total(SubSeq(pieces, 1, i)) = amount
Rest(pieces, amount) ==
    LET i == CHOOSE j \in 0..Len(pieces) : Total(SubSeq(pieces, 1, j)) = amount
    IN  SubSeq(pieces, i + 1, Len(pieces))

SendData(n) ==
    LET s == str[n]  f == lib[n]
        length == IF f.window < MaxFrame THEN f.window ELSE MaxFrame
        there  == Total(s.pending)
        amount == IF there < length THEN there ELSE length
        eof    == s.localEnd /\ there <= length
    IN  /\ NextFrame(n) = "data"
        /\ IF there = 0 /\ ~s.localEnd THEN PutOff(n)
           ELSE IF EndsBuffer(s.pending, amount)
           THEN Sent(n, "data", amount, eof /\ ~s.trailers,
                     [f EXCEPT !.window = @ - amount, !.data = IF eof THEN "none" ELSE @,
                               !.queue = IF eof /\ s.trailers THEN @ \cup {"trailers"} ELSE @],
                     [s EXCEPT !.pending = Rest(@, amount),
                               !.trailers = IF eof THEN FALSE ELSE @])
           ELSE phase' = "spin" /\ UNCHANGED <<str, lib, wire>>

SendFrame ==
    /\ phase = "send"
    /\ \E n \in Sendable : SendHeaders(n) \/ SendReset(n) \/ SendData(n)
    /\ UNCHANGED <<dispatching, resetPending, closedConn>>

\* When nothing more can be sent, the resets that were put off are submitted and
\* sendPendingFrames() calls itself.
SendDone ==
    /\ phase = "send" /\ Sendable = {}
    /\ IF resetPending
       THEN /\ lib' = [n \in Streams |-> IF str[n].held /\ str[n].reset
                         THEN [lib[n] EXCEPT !.queue = @ \cup {"reset"}] ELSE lib[n]]
            /\ resetPending' = FALSE
            /\ UNCHANGED phase
       ELSE phase' = "rest" /\ UNCHANGED <<lib, resetPending>>
    /\ UNCHANGED <<dispatching, closedConn, str, wire>>

-----------------------------------------------------------------------------
(* What the user of a stream that is held may call, from a callback of dispatch(), too *)

MayCall(n) == phase \in {"rest", "recv", "failed"} /\ str[n].held /\ ~str[n].cancelled

EncodeHeaders(n, end) ==
    /\ MayCall(n) /\ ~str[n].answered /\ ~str[n].headers
    /\ str' = [str EXCEPT ![n].answered = TRUE, ![n].localEnd = end]
    /\ lib' = [lib EXCEPT ![n].queue = @ \cup {IF end THEN "end" ELSE "headers"}]
    /\ SendPending
    /\ UNCHANGED <<dispatching, resetPending, closedConn, wire>>

Pieces(more) == MapThenSumSet(LAMBDA n : Len(str[n].given), Streams) + Len(more)

\* Mutant of EncodeData: a data source that was put off is not resumed.
EncodeDataUnresumed(n, size, end) ==
    LET more == IF size > 0 THEN <<size>> ELSE <<>>
    IN  /\ MayCall(n) /\ str[n].answered /\ ~str[n].localEnd
        /\ size > 0 \/ end
        /\ Pieces(more) <= MaxPieces
        /\ str' = [str EXCEPT ![n].localEnd = end, ![n].pending = @ \o more,
                              ![n].given = @ \o more]
        /\ SendPending
        /\ UNCHANGED <<dispatching, resetPending, closedConn, lib, wire>>

\* A piece of size 0 is what EHttpAcceptor ends a response with.
EncodeData(n, size, end) ==
    LET more == IF size > 0 THEN <<size>> ELSE <<>>
    IN  /\ MayCall(n) /\ str[n].answered /\ ~str[n].localEnd
        /\ size > 0 \/ end
        /\ Pieces(more) <= MaxPieces
        /\ str' = [str EXCEPT ![n].localEnd = end, ![n].pending = @ \o more,
                              ![n].given = @ \o more, ![n].deferred = FALSE]
        /\ lib' = [lib EXCEPT ![n].data = IF str[n].deferred THEN "active" ELSE @]
        /\ SendPending
        /\ UNCHANGED <<dispatching, resetPending, closedConn, wire>>

\* Mutant of EncodeTrailers: trailers overtake the data that is waiting.
EncodeTrailersAtOnce(n) ==
    /\ MayCall(n) /\ str[n].answered /\ ~str[n].localEnd
    /\ str' = [str EXCEPT ![n].localEnd = TRUE]
    /\ lib' = [lib EXCEPT ![n].queue = @ \cup {"trailers"}]
    /\ SendPending
    /\ UNCHANGED <<dispatching, resetPending, closedConn, wire>>

\* Trailers wait for the data that is waiting.
EncodeTrailers(n) ==
    LET waits == str[n].pending # <<>>
    IN  /\ MayCall(n) /\ str[n].answered /\ ~str[n].localEnd
        /\ str' = [str EXCEPT ![n].localEnd = TRUE, ![n].trailers = waits]
        /\ lib' = [lib EXCEPT ![n].queue = IF waits THEN @ ELSE @ \cup {"trailers"}]
        /\ SendPending
        /\ UNCHANGED <<dispatching, resetPending, closedConn, wire>>

\* A reset is put off while frames that end the local side have still to go out.
ResetStream(n) ==
    LET putOff == str[n].localEnd /\ ~str[n].endSent
    IN  /\ MayCall(n)
        /\ str' = [str EXCEPT ![n].cancelled = TRUE, ![n].reset = putOff]
        /\ resetPending' = (resetPending \/ putOff)
        /\ lib' = [lib EXCEPT ![n].queue = IF putOff THEN @ ELSE @ \cup {"reset"}]
        /\ SendPending
        /\ UNCHANGED <<dispatching, closedConn, wire>>

\* goAway() belongs to no stream, but sends what is waiting.
GoAway ==
    /\ phase \in {"rest", "recv", "failed"}
    /\ SendPending
    /\ UNCHANGED <<dispatching, resetPending, closedConn, str, lib, wire>>

-----------------------------------------------------------------------------
(* dispatch() *)

BeginDispatch ==
    /\ phase = "rest" /\ ~closedConn
    /\ phase' = "recv" /\ dispatching' = TRUE
    /\ UNCHANGED <<resetPending, closedConn, str, lib, wire>>

EndDispatch ==
    /\ phase = "recv"
    /\ phase' = "send" /\ dispatching' = FALSE
    /\ UNCHANGED <<resetPending, closedConn, str, lib, wire>>

\* An invalid frame, or an error that is to be announced by GOAWAY: dispatch() throws and
\* leaves dispatching_ set.
DispatchThrows ==
    /\ phase = "recv"
    /\ phase' = "failed"
    /\ UNCHANGED <<dispatching, resetPending, closedConn, str, lib, wire>>

\* The session is closed once the connection fiber has left.
CloseConnection ==
    /\ phase \in {"rest", "failed"} /\ ~closedConn
    /\ closedConn' = TRUE
    /\ UNCHANGED <<phase, dispatching, resetPending, str, lib, wire>>

\* The headers of a request: onBeginHeaders() makes the StreamImpl, saveHeader() collects
\* the headers, onFrameReceived() passes them on and drops headers_.  Headers beyond
\* MAX_HEADER_SIZE make nghttp2 reset the stream instead.
RecvHeaders(n, end, tooLarge) ==
    /\ phase = "recv"
    /\ lib[n].state = "idle" /\ \A m \in 1..(n - 1) : lib[m].state # "idle"
    /\ str' = [str EXCEPT ![n].held = TRUE, ![n].headers = tooLarge,
                          ![n].remoteEnd = end /\ ~tooLarge]
    /\ lib' = [lib EXCEPT ![n].state = "open", ![n].queue = IF tooLarge THEN {"reset"} ELSE {}]
    /\ UNCHANGED <<phase, dispatching, resetPending, closedConn, wire>>

\* Whether nghttp2 takes another frame of the stream.
Receiving(n) ==
    /\ phase = "recv"
    /\ lib[n].state = "open" /\ ~str[n].remoteEnd /\ "reset" \notin lib[n].queue

\* Mutant of Received: the decoder is told, reset or not.
ReceivedAndTold(n, end) ==
    LET s == [str[n] EXCEPT !.remoteEnd = end, !.late = @ \/ str[n].cancelled]
    IN  IF end /\ str[n].endSent
        THEN str' = [str EXCEPT ![n] = [s EXCEPT !.held = FALSE]] /\ lib' = ClosedFrames(n)
        ELSE str' = [str EXCEPT ![n] = s] /\ UNCHANGED lib

\* onFrameReceived() after which the stream may be closed; the decoder is told of the
\* frame unless a reset is put off.
Received(n, end) ==
    LET told == ~str[n].reset
        s == [str[n] EXCEPT !.remoteEnd = end, !.late = @ \/ (told /\ str[n].cancelled)]
    IN  IF end /\ str[n].endSent
        THEN str' = [str EXCEPT ![n] = [s EXCEPT !.held = FALSE]] /\ lib' = ClosedFrames(n)
        ELSE str' = [str EXCEPT ![n] = s] /\ UNCHANGED lib

\* DATA: onData() takes the bytes in, the decoder gets them, the rest is cleared.
RecvData(n, end) ==
    /\ Receiving(n)
    /\ Received(n, end)
    /\ UNCHANGED <<phase, dispatching, resetPending, closedConn, wire>>

\* HEADERS once more: trailers, which have to end the stream.
RecvTrailers(n, end) ==
    /\ Receiving(n)
    /\ IF end \/ str[n].reset
       THEN Received(n, end) /\ UNCHANGED phase
       ELSE phase' = "failed" /\ UNCHANGED <<str, lib>>
    /\ UNCHANGED <<dispatching, resetPending, closedConn, wire>>

RecvReset(n) ==
    /\ phase = "recv" /\ lib[n].state = "open"
    /\ str' = ClosedStream(n) /\ lib' = ClosedFrames(n)
    /\ UNCHANGED <<phase, dispatching, resetPending, closedConn, wire>>

RecvWindow(n, more) ==
    /\ phase = "recv" /\ lib[n].state = "open"
    /\ lib[n].granted + more <= MaxWindow
    /\ lib' = [lib EXCEPT ![n].window = @ + more, ![n].granted = @ + more]
    /\ UNCHANGED <<phase, dispatching, resetPending, closedConn, str, wire>>

Http2Next ==
    \/ SendFrame \/ SendDone
    \/ BeginDispatch \/ EndDispatch \/ DispatchThrows \/ CloseConnection \/ GoAway
    \/ \E n \in Streams :
          \/ \E end \in BOOLEAN :
                \/ EncodeHeaders(n, end) \/ RecvData(n, end) \/ RecvTrailers(n, end)
                \/ \E size \in Sizes \cup {0} : EncodeData(n, size, end)
                \/ \E tooLarge \in BOOLEAN : RecvHeaders(n, end, tooLarge)
          \/ EncodeTrailers(n) \/ ResetStream(n) \/ RecvReset(n)
          \/ \E more \in 1..MaxWindow : RecvWindow(n, more)

Http2Spec == Http2Init /\ [][Http2Next]_http2Vars

-----------------------------------------------------------------------------
Http2TypeOK ==
    /\ phase \in {"rest", "recv", "send", "failed", "spin"}
    /\ {dispatching, resetPending, closedConn} \subseteq BOOLEAN
    /\ DOMAIN str = Streams /\ DOMAIN lib = Streams /\ DOMAIN wire = Streams
    /\ \A n \in Streams :
          /\ DOMAIN str[n] = DOMAIN NoStream
          /\ lib[n].state \in {"idle", "open", "closed"}
          /\ lib[n].data \in {"none", "active", "deferred"}
          /\ lib[n].window \in 0..MaxWindow
          /\ str[n].held <=> lib[n].state = "open"

\* The bytes of the body in the frames of a stream.
BytesIn(w) == Total([i \in DOMAIN w |-> w[i].size])

\* What a stream sends is a response as HTTP/2 wants it: headers, data, and one end,
\* after which nothing follows but a reset; an end that is not a reset comes after every
\* byte of the body, be it deferred, held up by the window, or followed by trailers.
ResponseFraming ==
    \A n \in Streams :
        LET w == wire[n]
            Kinds(i) == w[i].kind
            bytes == BytesIn(w)
        IN  \A i \in DOMAIN w :
              /\ i = 1 => Kinds(i) \in {"headers", "end", "reset"}
              /\ i > 1 => Kinds(i) \in {"data", "trailers", "reset"}
              /\ Kinds(i) \in {"end", "trailers"} =>
                    /\ bytes = Total(str[n].given)
                    /\ \A j \in (i + 1)..Len(w) : Kinds(j) = "reset"
              /\ str[n].endSent => bytes = Total(str[n].given)

\* Whenever the codec is at rest on an open connection, a stream with something left to
\* send waits for the window of the peer and for nothing else: data that was deferred is
\* resumed, and a reset that was put off is never left behind.
NothingStalls ==
    phase = "rest" /\ ~closedConn =>
        /\ ~resetPending
        /\ \A n \in Streams : str[n].held =>
              /\ ~str[n].cancelled
              /\ str[n].pending # <<>> \/ (str[n].localEnd /\ ~str[n].endSent) =>
                    lib[n].window = 0

\* "Reset the stream. No events will fire beyond this point" (src/http/include/codec.h),
\* while the reset is put off and frames of the same dispatch() still arrive.
NoEventsAfterReset == \A n \in Streams : ~str[n].late
=============================================================================
