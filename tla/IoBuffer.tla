------------------------------ MODULE IoBuffer ------------------------------
(***************************************************************************)
(* EIoBuffer (src/src/EIoBuffer.cpp): a buffer that expands and shrinks by *)
(* replacing the EIOByteBuffer below it, and gives away slices that share  *)
(* its memory.                                                             *)
(*                                                                         *)
(* A buffer is a record; every operator returns the record as it is after  *)
(* the call, with "error" set when the call throws, in which case the      *)
(* calls that would follow leave it alone.  Of the bytes one is marked:    *)
(* "spot" is where in the memory it is, NoByte before one is marked or     *)
(* when it is not in the memory any more, Overwritten when a call wrote    *)
(* over it.  An int has the values up to MaxInt, beyond it is negative.    *)
(***************************************************************************)
EXTENDS Integers

CONSTANTS MaxInt,    \* EInteger::MAX_VALUE
          Initial,   \* the capacities that are allocated
          Amounts    \* bound: sizes, lengths and indices that are passed

ASSUME IoBufferAssumption ==
    /\ MaxInt \in Nat
    /\ Initial \subseteq 0..MaxInt /\ Amounts \subseteq 0..MaxInt

VARIABLE iob

Int32(n) == IF n > MaxInt THEN n - 2 * (MaxInt + 1) ELSE n

NoByte == -1
Overwritten == -2

NoSlice == [first |-> 0, size |-> -1]

Smaller(a, b) == IF a < b THEN a ELSE b
Larger(a, b) == IF a > b THEN a ELSE b

\* allocate(capacity) and wrap(address, capacity); memory that was wrapped is not
\* replaced.
Allocated(capacity, wrapped) ==
    [pos |-> 0, limit |-> capacity, cap |-> capacity, mark |-> -1,
     min |-> capacity,         \* minimumCapacity_
     expand |-> FALSE,         \* autoExpand_
     recap |-> ~wrapped,       \* recapacityAllowed_
     mem |-> 0,                \* which EIOByteBuffer it has, the one before is the other one
     spot |-> NoByte,
     shared |-> FALSE,         \* whether derived buffers use the memory, too
     derived |-> NoSlice,      \* the first byte and the capacity of the one made last
     error |-> "none"]

Ok(b) == b.error = "none"
Fails(b, why) == [b EXCEPT !.error = why]

-----------------------------------------------------------------------------
(* EIOByteBuffer *)

SetPosition(b, p) ==
    IF ~Ok(b) THEN b
    ELSE IF p \notin 0..b.limit THEN Fails(b, "argument")
    ELSE [b EXCEPT !.pos = p, !.mark = IF @ > p THEN -1 ELSE @]

SetLimit(b, l) ==
    IF ~Ok(b) THEN b
    ELSE IF l \notin 0..b.cap THEN Fails(b, "argument")
    ELSE [b EXCEPT !.limit = l, !.pos = Smaller(@, l), !.mark = IF @ > l THEN -1 ELSE @]

Clear(b) == IF Ok(b) THEN [b EXCEPT !.pos = 0, !.limit = b.cap, !.mark = -1] ELSE b

\* The memory from i on gets n bytes, of which the one at offset m, if any, is marked.
Store(b, i, n, m) ==
    [b EXCEPT !.spot = IF m >= 0 THEN i + m
                       ELSE IF @ \in i..(i + n - 1) THEN Overwritten ELSE @]

PutBytes(b, n, m) ==
    IF ~Ok(b) THEN b
    ELSE IF n > b.limit - b.pos THEN Fails(b, "overflow")
    ELSE [Store(b, b.pos, n, m) EXCEPT !.pos = @ + n]

\* A new EIOByteBuffer of capacity c that got the bytes of b from i up to l.
Replaced(b, c, i, l) ==
    [b EXCEPT !.mem = 1 - @, !.cap = c, !.limit = c, !.pos = l - i, !.mark = -1,
              !.spot = IF @ \in i..(l - 1) THEN @ - i ELSE NoByte]

-----------------------------------------------------------------------------
(* Capacity *)

Powers == {2^k : k \in 0..30}

\* The power of two that is just large enough, or MaxInt when there is none.
NormalizeCapacity(n) ==
    IF n = 0 THEN 0
    ELSE IF \E p \in 1..MaxInt : p \in Powers /\ n <= p /\ p < 2 * n
    THEN CHOOSE p \in 1..MaxInt : p \in Powers /\ n <= p /\ p < 2 * n
    ELSE MaxInt

SetCapacity(b, n) ==
    LET new == Replaced(b, n, 0, b.cap)
        marked == IF b.mark >= 0
                  THEN [SetPosition(SetLimit(new, b.limit), b.mark) EXCEPT !.mark = b.mark]
                  ELSE SetLimit(new, b.limit)
    IN  IF ~Ok(b) THEN b
        ELSE IF ~b.recap THEN Fails(b, "state")
        ELSE IF n > b.cap THEN SetPosition(marked, b.pos) ELSE b

\* expand(pos, expectedRemaining, autoExpand)
Expand(b, p, n, auto) ==
    LET end == Int32(p + n)
        c   == IF auto THEN NormalizeCapacity(end) ELSE end
        b2  == IF c > b.cap THEN SetCapacity(b, c) ELSE b
    IN  IF ~Ok(b) THEN b
        ELSE IF ~b.recap THEN Fails(b, "state")
        ELSE IF end > b2.limit THEN SetLimit(b2, end) ELSE b2

AutoExpand(b, p, n) == IF b.expand /\ b.recap THEN Expand(b, p, n, TRUE) ELSE b

\* shrink() halves the capacity as long as the half is enough, the mark is lost.
Halved(c, least) ==
    IF least = 0 THEN c \div 2
    ELSE IF \E h \in 0..c : (\E p \in Powers : h = c \div p) /\ least <= h /\ h \div 2 < least
    THEN CHOOSE h \in 0..c : (\E p \in Powers : h = c \div p) /\ least <= h /\ h \div 2 < least
    ELSE c

Shrink(b) ==
    LET least == Larger(b.min, b.limit)
        c     == Larger(least, Halved(b.cap, least))
        new   == Replaced(b, c, 0, b.limit)
    IN  IF ~b.recap THEN Fails(b, "state")
        ELSE IF b.cap = b.limit \/ c = b.cap THEN b
        ELSE SetLimit(SetPosition(new, b.pos), b.limit)

-----------------------------------------------------------------------------
(* Positions *)

Position(b, p) == SetPosition(AutoExpand(b, p, 0), p)
Limit(b, l) == SetLimit(AutoExpand(b, l, 0), l)
Mark(b) == [b EXCEPT !.mark = b.pos]
Reset(b) == IF b.mark < 0 THEN Fails(b, "mark") ELSE [b EXCEPT !.pos = b.mark]
Flip(b) == [b EXCEPT !.limit = b.pos, !.pos = 0, !.mark = -1]
Rewind(b) == [b EXCEPT !.pos = 0, !.mark = -1]

\* compact() does not shrink.
Compact(b) ==
    LET n == b.limit - b.pos
    IN  [b EXCEPT !.pos = n, !.limit = b.cap, !.mark = -1,
                  !.spot = IF @ \in b.pos..(b.limit - 1) THEN @ - b.pos
                           ELSE IF @ \in 0..(n - 1) THEN Overwritten ELSE @]

Skip(b, n) == Position(AutoExpand(b, b.pos, n), b.pos + n)

-----------------------------------------------------------------------------
(* Bytes *)

\* put(b), put(src, length), putChar(), and what a string or an output stream puts.
Put(b, n, m) == PutBytes(AutoExpand(b, b.pos, n), n, m)

\* putString(val) puts the NUL, too; putString(val, fieldSize) cuts the value and puts the
\* NUL after it.
PutString(b, n, m) == Put(b, n + 1, m)
PutField(b, n, size, m) ==
    LET k == Smaller(n, size)
    IN  PutBytes(PutBytes(AutoExpand(b, b.pos, k + 1), k, m), 1, NoByte)

\* putShort(), putInt(), putLLong(), putFloat() and putDouble() write where the position
\* is before buf_->skip() tests it.
PutTyped(b, n, m) ==
    LET b2 == AutoExpand(b, b.pos, n)
    IN  IF Ok(b2) THEN SetPosition(Store(b2, b2.pos, n, m), b2.pos + n) ELSE b2

\* put(index, b) counts from 0, and so do all get...(index); the typed put...(index)
\* count from the position.
PutAt(b, i, m) ==
    LET b2 == AutoExpand(b, i, 1)
    IN  IF ~Ok(b2) THEN b2
        ELSE IF i >= b2.limit THEN Fails(b2, "overflow") ELSE Store(b2, i, 1, m)
PutTypedAt(b, i, n, m) ==
    LET b2 == AutoExpand(b, i, n)
    IN  IF Ok(b2) THEN Store(b2, b2.pos + i, n, m) ELSE b2

\* fill() writes first, fillAndReset() goes back even if the position was refused.
Fill(b, n) ==
    LET b2 == AutoExpand(b, b.pos, n)
    IN  IF Ok(b2) THEN Position(Store(b2, b2.pos, n, -1), b2.pos + n) ELSE b2
FillAndReset(b, n) ==
    LET b2 == Fill(AutoExpand(b, b.pos, n), n)
    IN  [Position([b2 EXCEPT !.error = "none"], b.pos) EXCEPT !.error = b2.error]
Sweep(b) == FillAndReset(Clear(b), b.cap)

\* get(), the typed gets, and the streams' skip(), which takes what there is.
Get(b, n) == IF n > b.limit - b.pos THEN Fails(b, "underflow") ELSE SetPosition(b, b.pos + n)
Read(b, n) == SetPosition(b, b.pos + Smaller(n, b.limit - b.pos))
GetString(b, length) == Read(b, length)

-----------------------------------------------------------------------------
(* Derived buffers *)

\* Mutant of Derived: the memory may still be replaced under a slice.
DerivedReplaceable(b, i, n) ==
    IF ~Ok(b) THEN b ELSE [b EXCEPT !.shared = TRUE, !.derived = [first |-> i, size |-> n]]

Derived(b, i, n) ==
    IF ~Ok(b) THEN b
    ELSE [b EXCEPT !.recap = FALSE, !.shared = TRUE, !.derived = [first |-> i, size |-> n]]

Duplicate(b) == Derived(b, 0, b.cap)
Slice(b) == Derived(b, b.pos, b.limit - b.pos)

\* getSlice(index, length): the buffer is set to the slice and back again, the mark
\* is lost.
GetSlice(b, i, n) ==
    IF i > b.limit \/ i + n > b.limit THEN Fails(b, "argument")
    ELSE LET at == Slice(Position(Limit(Clear(b), i + n), i))
         IN  Position(Limit(at, b.limit), b.pos)

\* getSlice(length)
NextSlice(b, n) ==
    IF b.pos + n > b.limit THEN Fails(b, "argument")
    ELSE LET at == Slice(Limit(b, b.pos + n))
         IN  Limit(Position(at, b.pos + n), b.limit)

-----------------------------------------------------------------------------
\* One call, of a buffer in which no call has failed half-way.
Call(new) == iob' = new

Fresh == [iob EXCEPT !.error = "none", !.derived = NoSlice]

\* A byte is marked while none is.
Marks(n) == {NoByte} \cup (IF iob.spot < 0 THEN 0..(n - 1) ELSE {})

IoBufferInit == \E c \in Initial, wrapped \in BOOLEAN : iob = Allocated(c, wrapped)

Settings ==
    \/ \E flag \in BOOLEAN :
          Call(IF iob.recap THEN [Fresh EXCEPT !.expand = flag] ELSE Fails(Fresh, "state"))
    \/ \E n \in Initial : Call([Fresh EXCEPT !.min = n])

Capacities ==
    \/ \E n \in Amounts : Call(SetCapacity(Fresh, n)) \/ Call(Expand(Fresh, iob.pos, n, FALSE))
    \/ Call(Shrink(Fresh))

Positions ==
    \/ \E n \in Amounts : Call(Position(Fresh, n)) \/ Call(Limit(Fresh, n)) \/ Call(Skip(Fresh, n))
    \/ Call(Mark(Fresh)) \/ Call(Reset(Fresh)) \/ Call(Flip(Fresh)) \/ Call(Clear(Fresh))
    \/ Call(Rewind(Fresh)) \/ Call(Compact(Fresh))

Puts ==
    \E n \in Amounts \ {0} : \E m \in Marks(n) :
        \/ Call(Put(Fresh, n, m)) \/ Call(PutString(Fresh, n, m)) \/ Call(PutTyped(Fresh, n, m))
        \/ \E i \in Amounts : \/ Call(PutTypedAt(Fresh, i, n, m))
                              \/ Call(PutField(Fresh, n, i + 1, m)) /\ m <= i
                              \/ n = 1 /\ Call(PutAt(Fresh, i, m))

Fills == (\E n \in Amounts : Call(Fill(Fresh, n)) \/ Call(FillAndReset(Fresh, n))) \/ Call(Sweep(Fresh))

Gets == \E n \in Amounts : Call(Get(Fresh, n)) \/ Call(Read(Fresh, n)) \/ Call(GetString(Fresh, n))

Slices ==
    \/ Call(Duplicate(Fresh)) \/ Call(Slice(Fresh))
    \/ \E n \in Amounts : Call(NextSlice(Fresh, n)) \/ \E i \in Amounts : Call(GetSlice(Fresh, i, n))

IoBufferNext == Settings \/ Capacities \/ Positions \/ Puts \/ Fills \/ Gets \/ Slices

IoBufferSpec == IoBufferInit /\ [][IoBufferNext]_iob

-----------------------------------------------------------------------------
\* The numbers of the buffer stay in order, also when a call throws half-way.
IoBufferTypeOK ==
    /\ iob.cap \in 0..MaxInt
    /\ iob.limit \in 0..iob.cap
    /\ iob.pos \in 0..iob.limit
    /\ iob.mark \in -1..iob.pos
    /\ iob.min \in 0..MaxInt
    /\ {iob.expand, iob.recap, iob.shared} \subseteq BOOLEAN

\* What EIoBuffer.hh promises.  A call that replaces the memory "retains position, limit,
\* mark and the content of the buffer": bytes below the limit stay where they are unless
\* the call writes over them, the mark stays below the position, and nobody has a slice of
\* the memory that is given back.  "If autoExpand is set to true, you never get a
\* BufferOverflowException": only a buffer of the largest size overflows.  A slice is the
\* bytes that were asked for, and taking it keeps the limit.
KeepsBytes ==
    iob'.mem # iob.mem =>
        /\ ~iob.shared
        /\ iob.spot \in 0..(iob.limit - 1) => iob'.spot \in {iob.spot, Overwritten}
        /\ (\E n \in Amounts : iob' = SetCapacity(Fresh, n)) => iob'.mark = iob.mark
ExpandsOnPut ==
    iob.expand /\ iob.recap /\ iob'.error = "overflow" => iob'.cap = MaxInt
SlicesExact ==
    LET d == iob'.derived  end == d.first + d.size
    IN  d # NoSlice /\ Ok(iob') =>
            /\ iob'.limit = iob.limit
            /\ iob'.pos = iob.pos \/ (d.first = iob.pos /\ iob'.pos = end)
            /\ end <= iob.limit \/ d = [first |-> 0, size |-> iob.cap]

BufferAsPromised == [][KeepsBytes /\ ExpandsOnPut /\ SlicesExact]_iob
=============================================================================
