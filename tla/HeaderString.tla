---------------------------- MODULE HeaderString ----------------------------
(***************************************************************************)
(* HeaderString (src/http/source/header_map_impl.cc): a string that is     *)
(* kept inline, on the heap, or as a reference to a string of somebody     *)
(* else.  A text is a sequence of pieces, each of which counts one towards *)
(* the size; the terminating NUL counts one, too.                          *)
(***************************************************************************)
EXTENDS Integers, Sequences

CONSTANT InlineSize  \* sizeof(inline_buffer_), 128 in the code

ASSUME HeaderStringAssumption == InlineSize \in Nat \ {0}

Str(type, text, capacity) == [type |-> type, text |-> text, capacity |-> capacity]

\* HeaderString() and HeaderString(ref_value).
EmptyString == Str("Inline", <<>>, InlineSize)
RefTo(text) == Str("Reference", text, Len(text) + 1)

\* What is left of a string that was moved from, and of one that was cleared: references
\* are not touched by either.
MovedFrom(s) == IF s.type = "Reference" THEN s ELSE EmptyString
Cleared(s) == IF s.type = "Reference" THEN s ELSE [s EXCEPT !.text = <<>>]

IsEmpty(s) == s.text = <<>>

\* The storage a string that is no reference has for text, when it grows to twice the
\* size of the new text.
Stored(s, text) ==
    IF Len(text) + 1 <= s.capacity THEN [s EXCEPT !.text = text]
    ELSE Str("Dynamic", text, 2 * Len(text))

\* append() and setCopy() make a reference an inline string first, and setInteger() takes
\* for granted that its digits fit.
Owned(s) == IF s.type = "Reference" THEN EmptyString ELSE s
AppendTo(s, text) == Stored(Owned(s), Owned(s).text \o text)
SetCopy(s, text) == Stored(Owned(s), text)
SetInteger(s, digits) == [Owned(s) EXCEPT !.text = digits]

\* The text and its NUL are within the storage.
Fits(s) == Len(s.text) + 1 <= s.capacity
=============================================================================
