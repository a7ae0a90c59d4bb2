----------------------------- MODULE HttpBuffer -----------------------------
(***************************************************************************)
(* Buffer::OwnedImpl (src/http/source/buffer_impl.cc): a list of           *)
(* EIoBuffers, and moving bytes from one such list into another.           *)
(*                                                                         *)
(* A buffer of the list is a record of the bytes below its limit and its   *)
(* position.  The bytes that were put into the source are numbered, so     *)
(* that a byte which is lost, doubled or out of its place is seen.         *)
(***************************************************************************)
EXTENDS Integers, SequencesExt

CONSTANTS Sizes,    \* the sizes of the pieces written into the source
          MaxBytes  \* bound: how many bytes are written

VARIABLES source, target,  \* the two lists
          todo,            \* length in move(rhs, length), 0 outside of it
          asked,           \* what the caller of that move asked for
          written,         \* bytes written into the source so far
          taken            \* bytes a caller has asked to move so far

bufferVars == <<source, target, todo, asked, written, taken>>

Buf(bytes, pos) == [bytes |-> bytes, pos |-> pos]

\* remaining() and current() of an EIoBuffer.
Remaining(b) == Len(b.bytes) - b.pos
Current(b, n) == SubSeq(b.bytes, b.pos + 1, b.pos + n)

\* length(), and what a list holds.
Length(list) == FoldLeft(LAMBDA n, b : n + Remaining(b), 0, list)
Content(list) == FoldLeft(LAMBDA s, b : s \o Current(b, Remaining(b)), <<>>, list)

BufferInit ==
    /\ source = <<>> /\ target = <<>>
    /\ todo = 0 /\ asked = 0 /\ written = 0 /\ taken = 0

\* add(data, size): the bytes are copied into a buffer of their own, which is flipped.
Add(size) ==
    /\ todo = 0 /\ written + size <= MaxBytes
    /\ source' = Append(source, Buf([i \in 1..size |-> written + i], 0))
    /\ written' = written + size
    /\ UNCHANGED <<target, todo, asked, taken>>

\* move(rhs) takes all the buffers of the other list over.
MoveAll ==
    /\ todo = 0 /\ source # <<>>
    /\ target' = target \o source
    /\ source' = <<>>
    /\ taken' = taken + Length(source)
    /\ UNCHANGED <<todo, asked, written>>

\* move(rhs, length), for a length the list has.
Move(length) ==
    /\ todo = 0 /\ length \in 1..Length(source)
    /\ todo' = length /\ asked' = length
    /\ taken' = taken + length
    /\ UNCHANGED <<source, target, written>>

\* A round of its loop for a buffer that is moved whole.  The length is counted down.
MoveWhole ==
    /\ todo > 0 /\ source # <<>> /\ todo >= Remaining(Head(source))
    /\ target' = Append(target, Head(source))
    /\ source' = Tail(source)
    /\ todo' = todo - Remaining(Head(source))
    /\ UNCHANGED <<asked, written, taken>>

\* A round for a buffer of which a part is copied.  The position is set to the length,
\* wherever it was, and the length stays what it is.
MovePart ==
    /\ todo > 0 /\ source # <<>> /\ todo < Remaining(Head(source))
    /\ Len(target) < 2 * MaxBytes
    /\ target' = Append(target, Buf(Current(Head(source), todo), 0))
    /\ source' = [source EXCEPT ![1].pos = todo]
    /\ UNCHANGED <<todo, asked, written, taken>>

\* The loop ends when the other list is empty, too.
MoveEnds ==
    /\ todo > 0 /\ source = <<>>
    /\ todo' = 0
    /\ UNCHANGED <<source, target, asked, written, taken>>

Clear ==
    /\ todo = 0 /\ target # <<>>
    /\ target' = <<>> /\ source' = <<>>
    /\ written' = 0 /\ taken' = 0
    /\ UNCHANGED <<todo, asked>>

BufferNext ==
    \/ \E size \in Sizes : Add(size)
    \/ \E length \in 1..MaxBytes : Move(length)
    \/ MoveAll \/ MoveWhole \/ MovePart \/ MoveEnds \/ Clear

BufferSpec == BufferInit /\ [][BufferNext]_bufferVars

-----------------------------------------------------------------------------
\* What has arrived in the target are the first of the bytes written, once each and in
\* order, and no more of them than were asked for: "length supplies the amount of data
\* to move" (src/http/include/buffer.h).
MovesWhatIsAsked ==
    LET content == Content(target)
    IN  /\ Len(content) <= taken
        /\ \A i \in DOMAIN content : content[i] = i
=============================================================================
