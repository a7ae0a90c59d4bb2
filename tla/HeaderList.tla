----------------------------- MODULE HeaderList -----------------------------
(***************************************************************************)
(* What a HeaderMap promises: an ordered list of headers.  A header of a   *)
(* name with direct access is there once at most, and is not added again.  *)
(***************************************************************************)
EXTENDS Erasure

CONSTANTS Names,      \* the texts headers are named with
          Values,
          Canonical,  \* the names with direct access, and the name each is kept under
          MaxHeaders  \* bound

VARIABLE list

NameOf(k) == IF k \in DOMAIN Canonical THEN Canonical[k] ELSE k
Present(k) == \E i \in DOMAIN list : list[i][1] = NameOf(k)
Without(k) == Erase(list, {i \in DOMAIN list : list[i][1] = NameOf(k)})

Init == list = <<>>

Add(k, v) ==
    IF k \in DOMAIN Canonical /\ Present(k) THEN UNCHANGED list
    ELSE list' = Append(list, <<NameOf(k), v>>)

Replace(k, v) == list' = Append(Without(k), <<NameOf(k), v>>)

\* The value of a header with direct access is written where the header is.
Assign(k, v) ==
    /\ k \in DOMAIN Canonical
    /\ IF Present(k)
       THEN list' = [i \in DOMAIN list |-> IF list[i][1] = NameOf(k) THEN <<list[i][1], v>> ELSE list[i]]
       ELSE list' = Append(list, <<NameOf(k), v>>)

Remove(k) == list' = Without(k)

Next ==
    \E k \in Names :
        \/ Remove(k)
        \/ \E v \in Values : Add(k, v) \/ Replace(k, v) \/ Assign(k, v)

Spec == Init /\ [][Next]_list
=============================================================================
