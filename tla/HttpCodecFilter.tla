-------------------------- MODULE HttpCodecFilter ---------------------------
(***************************************************************************)
(* EHttpCodecFilter (src/filter/http/EHttpCodecFilter.cpp), which makes    *)
(* requests of the bytes of a connection, and the loop of                  *)
(* ESocketSession::read() (src/src/ESocketSession.cpp) that feeds it.      *)
(*                                                                         *)
(* A byte is a record of the message it belongs to and its number in it.   *)
(* The last byte of the header of a message is the end of "\r\n\r\n".      *)
(***************************************************************************)
EXTENDS Integers, SequencesExt

CONSTANTS
    Shapes,      \* the messages that are sent: the lengths of header and body
    MaxMessages, \* bound: messages on the connection
    MaxRead,     \* ioBufferLimit
    MaxHttpSize  \* MAX_HTTP_SIZE

ASSUME CodecFilterAssumption ==
    /\ \A s \in Shapes : s.head \in Nat \ {0} /\ s.body \in Nat
    /\ {MaxMessages, MaxRead, MaxHttpSize} \subseteq Nat

VARIABLES
    sentMessages, \* the messages of the client
    stream,       \* their bytes that have not been read
    cache,        \* session_cache_data
    reading,      \* where read() is: "idle" outside, "socket", or how it ended for good
    delivered     \* the messages read() has returned

codecFilterVars == <<sentMessages, stream, cache, reading, delivered>>

Byte(m, i) == [message |-> m, number |-> i]
Bytes(m, shape) == [i \in 1..(shape.head + shape.body) |-> Byte(m, i)]

CodecFilterInit ==
    /\ sentMessages = <<>> /\ stream = <<>> /\ cache = <<>>
    /\ reading = "idle" /\ delivered = <<>>

ClientSends(shape) ==
    /\ Len(sentMessages) < MaxMessages
    /\ sentMessages' = Append(sentMessages, shape)
    /\ stream' = stream \o Bytes(Len(sentMessages) + 1, shape)
    /\ UNCHANGED <<cache, reading, delivered>>

\* hlen: behind the first end of a header in the bytes, 0 without one.
HeaderLength(bytes) ==
    SelectInSeq(bytes, LAMBDA b : b.number = sentMessages[b.message].head)

\* httplen, with the Content-Length that this header has.
HttpLength(bytes) ==
    LET h == HeaderLength(bytes) IN IF h = 0 THEN 0 ELSE h + sentMessages[bytes[h].message].body

\* Mutant of MessageReceived: what follows a message in the same read is dropped.
MessageReceivedAlone(bytes) ==
    LET n == HttpLength(bytes)
    IN  IF n > 0 /\ Len(bytes) >= n
        THEN /\ delivered' = Append(delivered, SubSeq(bytes, 1, n))
             /\ cache' = <<>> /\ reading' = "idle"
        ELSE cache' = bytes /\ reading' = "socket" /\ UNCHANGED delivered

\* messageReceived() with these bytes in the cache: a message that is complete is cut off
\* and returned, otherwise read() waits for more.
MessageReceived(bytes) ==
    LET n == HttpLength(bytes)
    IN  IF n > 0 /\ Len(bytes) >= n
        THEN /\ delivered' = Append(delivered, SubSeq(bytes, 1, n))
             /\ cache' = SubSeq(bytes, n + 1, Len(bytes))
             /\ reading' = "idle"
        ELSE cache' = bytes /\ reading' = "socket" /\ UNCHANGED delivered

\* read() first looks for a message in what is there, with no new bytes ...
CallRead ==
    /\ reading = "idle"
    /\ MessageReceived(cache)
    /\ UNCHANGED <<sentMessages, stream>>

\* ... and then reads the socket, over and over, until a message is complete, or the
\* cache cannot take what was read.
ReadSocket(n) ==
    /\ reading = "socket"
    /\ n \in 1..MaxRead /\ n <= Len(stream)
    /\ stream' = SubSeq(stream, n + 1, Len(stream))
    /\ IF Len(cache) + n > MaxHttpSize
       THEN reading' = "out of memory" /\ UNCHANGED <<cache, delivered>>
       ELSE MessageReceived(cache \o SubSeq(stream, 1, n))
    /\ UNCHANGED sentMessages

EndOfFile ==
    /\ reading = "socket" /\ stream = <<>>
    /\ reading' = "end of file"
    /\ UNCHANGED <<sentMessages, stream, cache, delivered>>

CodecFilterNext ==
    \/ \E shape \in Shapes : ClientSends(shape)
    \/ CallRead \/ EndOfFile
    \/ \E n \in 1..MaxRead : ReadSocket(n)

CodecFilterSpec == CodecFilterInit /\ [][CodecFilterNext]_codecFilterVars

-----------------------------------------------------------------------------
CodecFilterTypeOK ==
    /\ Len(sentMessages) <= MaxMessages
    /\ Len(cache) <= MaxHttpSize
    /\ reading \in {"idle", "socket", "end of file", "out of memory"}

\* However the bytes were cut by the reads: what is delivered are the messages that were
\* sent, whole, in order and each once; and when read() waits in the socket, the bytes it
\* holds are the beginning of the next one, and not all of it.
FramingExact ==
    LET rest == Len(delivered) + 1
        Beginning(bytes) == \E n \in 0..Len(bytes) : cache = SubSeq(bytes, 1, n)
    IN  /\ \A i \in DOMAIN delivered : delivered[i] = Bytes(i, sentMessages[i])
        /\ reading \in {"socket", "end of file"} =>
              IF rest > Len(sentMessages) THEN cache = <<>>
              ELSE LET b == Bytes(rest, sentMessages[rest]) IN Beginning(b) /\ cache # b
=============================================================================
