--------------------------- MODULE HeaderEntries ----------------------------
(***************************************************************************)
(* The entries of a HeaderMapImpl (src/http/source/header_map_impl.cc): a  *)
(* list of headers, and for every name with direct access a pointer to its *)
(* entry.                                                                  *)
(***************************************************************************)
EXTENDS HeaderString, FiniteSets, SequencesExt, Erasure

CONSTANT Canonical  \* the static lookup table: the name each key with direct access stands for

\* Every name with direct access stands for itself, some others for one of them.
ASSUME CanonicalAssumption ==
    \A k \in DOMAIN Canonical :
        Canonical[k] \in DOMAIN Canonical /\ Canonical[Canonical[k]] = Canonical[k]

Inlines == {Canonical[k] : k \in DOMAIN Canonical}

\* headers_ with its entries, which have addresses, and inline_headers_; "asserts" is
\* cleared when an ES_ASSERT does not hold.
NoHeaders == [list |-> <<>>, inline |-> [n \in Inlines |-> 0], asserts |-> TRUE]

Entry(address, key, value) == [address |-> address, key |-> key, value |-> value]
Address(m) == CHOOSE a \in 1..(Len(m.list) + 1) : \A i \in DOMAIN m.list : m.list[i].address # a

\* A result of insertByKey(): the map, and what is left of the two strings.
Inserted(m, key, value) == [map |-> m, key |-> key, value |-> value]

\* Mutant of MaybeCreateInline: an entry is made whether there is one or not.
CreateInline(m, n, value) ==
    [m EXCEPT !.inline[n] = Address(m), !.list = Append(@, Entry(Address(m), RefTo(n), value))]

\* maybeCreateInline(entry, key, value): an entry that is there keeps its value.
MaybeCreateInline(m, n, value) ==
    IF m.inline[n] # 0 THEN m
    ELSE [m EXCEPT !.inline[n] = Address(m), !.list = Append(@, Entry(Address(m), RefTo(n), value))]

InsertByKey(m, key, value) ==
    IF key.text \in DOMAIN Canonical
    THEN LET n == Canonical[key.text] IN
         Inserted(MaybeCreateInline(m, n, value), Cleared(key),
                  IF m.inline[n] # 0 THEN Cleared(value) ELSE MovedFrom(value))
    ELSE Inserted([m EXCEPT !.list = Append(@, Entry(Address(m), key, value))],
                  MovedFrom(key), MovedFrom(value))

\* ES_ASSERT(new_key.empty()) and ES_ASSERT(new_value.empty()) afterwards.
Asserting(r, keyToo) ==
    [r.map EXCEPT !.asserts = @ /\ IsEmpty(r.value) /\ (keyToo => IsEmpty(r.key))]

At(m, a) == CHOOSE i \in DOMAIN m.list : m.list[i].address = a

\* Mutant of RemoveInline: the pointer stays.
RemoveEntryOnly(m, n) ==
    IF m.inline[n] = 0 THEN m ELSE [m EXCEPT !.list = Erase(@, {At(m, m.inline[n])})]

RemoveInline(m, n) ==
    IF m.inline[n] = 0 THEN m
    ELSE [m EXCEPT !.inline[n] = 0, !.list = Erase(@, {At(m, m.inline[n])})]

\* get(), which looks for the key as it is.
GetHeader(m, k) == {i \in DOMAIN m.list : m.list[i].key.text = k}

RemoveKey(m, k) ==
    IF k \in DOMAIN Canonical THEN RemoveInline(m, Canonical[k])
    ELSE [m EXCEPT !.list = Erase(@, GetHeader(m, k))]

\* insert<Name>().value(text)
WithValue(m, n, text) ==
    LET m2 == MaybeCreateInline(m, n, EmptyString)
    IN  [m2 EXCEPT !.list[At(m2, m2.inline[n])].value = SetCopy(@, text)]

\* lookup(), the direct access to a name.
Lookup(m, k) ==
    IF k \notin DOMAIN Canonical THEN "NotSupported"
    ELSE IF m.inline[Canonical[k]] # 0 THEN "Found" ELSE "NotFound"
=============================================================================
