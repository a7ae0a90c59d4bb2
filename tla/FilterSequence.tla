--------------------------- MODULE FilterSequence ---------------------------
(***************************************************************************)
(* What a filter chain promises: a sequence of filters, each under a name  *)
(* no other entry uses, edited by position or by name.                     *)
(***************************************************************************)
EXTENDS SequencesExt

CONSTANTS Names, Filters

VARIABLE chain   \* the entries, from the first filter to the last

Entry == [name : Names, filter : Filters]

Named(s, n) == {i \in DOMAIN s : s[i].name = n}

\* A name that is taken is refused: the chain stays as it is.
Insert(s, i, n, f) == InsertAt(s, i, [name |-> n, filter |-> f])

Init == chain = <<>>

AddFirst(n, f) ==
    /\ Named(chain, n) = {}
    /\ chain' = Insert(chain, 1, n, f)

AddLast(n, f) ==
    /\ Named(chain, n) = {}
    /\ chain' = Insert(chain, Len(chain) + 1, n, f)

AddBefore(b, n, f) ==
    /\ Named(chain, n) = {}
    /\ \E i \in Named(chain, b) : chain' = Insert(chain, i, n, f)

AddAfter(b, n, f) ==
    /\ Named(chain, n) = {}
    /\ \E i \in Named(chain, b) : chain' = Insert(chain, i + 1, n, f)

RemoveName(n) ==
    \E i \in Named(chain, n) : chain' = RemoveAt(chain, i)

\* The first of the entries that hold the filter.
RemoveFilter(f) ==
    \E i \in DOMAIN chain :
        /\ chain[i].filter = f
        /\ \A j \in 1 .. i - 1 : chain[j].filter # f
        /\ chain' = RemoveAt(chain, i)

Clear == chain' = <<>>

Next ==
    \/ Clear
    \/ \E n \in Names, f \in Filters :
        \/ AddFirst(n, f)
        \/ AddLast(n, f)
        \/ \E b \in Names : AddBefore(b, n, f) \/ AddAfter(b, n, f)
    \/ \E n \in Names : RemoveName(n)
    \/ \E f \in Filters : RemoveFilter(f)

Spec == Init /\ [][Next]_chain
=============================================================================
