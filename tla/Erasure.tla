------------------------------ MODULE Erasure -------------------------------
(* What a loop over a list that erases some of its elements leaves of it.   *)
EXTENDS Integers, Sequences

\* The sequence s without the positions "gone".
Erase(s, gone) ==
    LET kept[i \in 0..Len(s)] ==
            IF i = 0 THEN <<>> ELSE IF i \in gone THEN kept[i - 1] ELSE Append(kept[i - 1], s[i])
    IN  kept[Len(s)]
=============================================================================
