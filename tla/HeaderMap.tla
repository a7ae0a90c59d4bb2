----------------------------- MODULE HeaderMap ------------------------------
(***************************************************************************)
(* HeaderMapImpl (src/http/source/header_map_impl.cc) and its operations.  *)
(***************************************************************************)
EXTENDS HeaderEntries

CONSTANTS Names,      \* the keys that are used, as texts
          Values,     \* the values, as texts
          Digits,     \* those of them that are integers
          MaxHeaders  \* bound: headers in a map

ASSUME HeaderMapAssumption ==
    /\ Digits \subseteq Values /\ DOMAIN Canonical \subseteq Names
    /\ \A t \in Names \cup Values : Len(t) \in Nat
    /\ \A d \in Digits : Len(d) < InlineSize
    /\ MaxHeaders \in Nat

VARIABLE headers

-----------------------------------------------------------------------------
Copy(text) == SetCopy(EmptyString, text)
NumberOrCopy(v, number) == IF number THEN SetInteger(EmptyString, v) ELSE Copy(v)

Room == Len(headers.list) < MaxHeaders
Becomes(m) == headers' = m

AddReference(k, v) == Becomes(InsertByKey(headers, RefTo(k), RefTo(v)).map)

AddReferenceKey(k, v, number) ==
    Becomes(Asserting(InsertByKey(headers, RefTo(k), NumberOrCopy(v, number)), FALSE))

\* addCopy(), also by the copy constructor and from an initializer list.
AddCopy(k, v, number) ==
    Becomes(Asserting(InsertByKey(headers, Copy(k), NumberOrCopy(v, number)), TRUE))

SetReference(k, v) == Becomes(InsertByKey(RemoveKey(headers, k), RefTo(k), RefTo(v)).map)

SetReferenceKey(k, v) ==
    Becomes(Asserting(InsertByKey(RemoveKey(headers, k), RefTo(k), Copy(v)), FALSE))

\* insert<Name>().value(v), of a text or of an integer.
InsertAndAssign(n, v, number) ==
    LET m == MaybeCreateInline(headers, n, EmptyString)
        i == At(m, m.inline[n])
    IN  Becomes(IF number THEN [m EXCEPT !.list[i].value = SetInteger(@, v)] ELSE WithValue(headers, n, v))

HeadersInit == headers = NoHeaders

HeadersNext ==
    \E k \in Names :
        \/ Becomes(RemoveKey(headers, k))
        \/ \E v \in Values :
              /\ Room
              /\ \/ AddReference(k, v) \/ SetReference(k, v) \/ SetReferenceKey(k, v)
                 \/ \E number \in {FALSE, (v \in Digits)} :
                       \/ AddReferenceKey(k, v, number) \/ AddCopy(k, v, number)
                       \/ k \in Inlines /\ InsertAndAssign(k, v, number)

HeadersSpec == HeadersInit /\ [][HeadersNext]_headers

-----------------------------------------------------------------------------
\* Every pointer leads to the one entry of its name, every entry of such a name has its
\* pointer; no string is longer than its storage, and no assertion fails.
HeadersConsistent ==
    /\ Len(headers.list) <= MaxHeaders
    /\ headers.asserts
    /\ \A i \in DOMAIN headers.list :
          /\ Fits(headers.list[i].key) /\ Fits(headers.list[i].value)
          /\ \A j \in DOMAIN headers.list : headers.list[i].address = headers.list[j].address => i = j
    /\ \A n \in Inlines :
          /\ Lookup(headers, n) = "Found" <=> GetHeader(headers, n) # {}
          /\ GetHeader(headers, n) = {i \in DOMAIN headers.list : headers.list[i].address = headers.inline[n]}

\* The map does what a list of headers does, with the direct access in step: adding a
\* name with direct access again keeps the first value, setting a header leaves one of
\* its name, at the end, and lookup() finds what get() finds.
AbstractList == INSTANCE HeaderList WITH
    list <- [i \in DOMAIN headers.list |-> <<headers.list[i].key.text, headers.list[i].value.text>>]

HeadersAsList == AbstractList!Spec
=============================================================================
