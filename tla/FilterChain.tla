----------------------------- MODULE FilterChain -----------------------------
(***************************************************************************)
(* EIoFilterChain: the filters of one session, in a doubly linked list     *)
(* between two sentinels, with a map from names to entries.  An event      *)
(* walks the list by nested calls: the filter of each entry is handed a    *)
(* NextFilter, and reads the link of its own entry when it forwards the    *)
(* event.  A filter may edit the chain while an event is inside it, and    *)
(* may fire another one.                                                   *)
(*                                                                         *)
(* The chain of a session is used by one fiber at a time, so an operation  *)
(* is a step; what interleaves is the editing and the frames of the events *)
(* under way.  A call that throws ("Other filter is using the same name",  *)
(* "Filter not found") throws before it has changed anything: it is the    *)
(* guard of its action.                                                    *)
(***************************************************************************)
EXTENDS Integers, Sequences, FiniteSets

CONSTANTS Names,      \* the names of filters
          Filters,    \* the filter objects
          Cells,      \* the entries that may be allocated, each one once
          head, tail, \* the sentinels
          Null,
          MaxEvents   \* bound: events under way at a time, one inside another

ASSUME ChainAssumption ==
    /\ head \notin Cells /\ tail \notin Cells /\ head # tail
    /\ Null \notin Cells \cup {head, tail} \cup Filters \cup Names
    /\ MaxEvents \in Nat

Nodes == Cells \cup {head, tail}

VARIABLES next,      \* nextEntry of every entry
          prev,      \* prevEntry of every entry
          name,      \* the name of an entry
          filter,    \* the filter of an entry
          name2entry,\* the entry of a name
          unused,    \* the entries not allocated yet
          live,      \* the entries allocated and not deleted
          stack,     \* the callbacks under way: the entry and the event of each
          present,   \* history: the entries in the chain when an event was fired
          clearing   \* clear() is in its loop

links == <<next, prev>>
entries == <<name, filter, name2entry, unused, live>>
calls == <<stack, present>>
vars == <<links, entries, calls, clearing>>

-----------------------------------------------------------------------------
(* The chain and its entries *)

Init ==
    /\ next = [e \in Nodes |-> IF e = head THEN tail ELSE Null]
    /\ prev = [e \in Nodes |-> IF e = tail THEN head ELSE Null]
    /\ name = [c \in Cells |-> Null]
    /\ filter = [c \in Cells |-> Null]
    /\ name2entry = [n \in Names |-> Null]
    /\ unused = Cells
    /\ live = {}
    /\ stack = <<>>
    /\ present = [v \in 1 .. MaxEvents |-> {}]
    /\ clearing = FALSE

\* Mutant of Addable: the name is not looked up.
AnyAddable(n) == n \in Names

Addable(n) == name2entry[n] = Null

\* Mutant of Register: p is linked to the new entry before its link is read.
RegisterSwapped(p, n, f) ==
    \E e \in unused :
        /\ next' = [next EXCEPT ![e] = e, ![p] = e]
        /\ prev' = [prev EXCEPT ![e] = p, ![next[p]] = e]
        /\ name' = [name EXCEPT ![e] = n]
        /\ filter' = [filter EXCEPT ![e] = f]
        /\ name2entry' = [name2entry EXCEPT ![n] = e]
        /\ unused' = unused \ {e}
        /\ live' = live \cup {e}
        /\ UNCHANGED <<calls, clearing>>

\* Mutant of Register: the new entry is taken to be the last one.
RegisterLast(p, n, f) ==
    \E e \in unused :
        /\ next' = [next EXCEPT ![e] = tail, ![p] = e]
        /\ prev' = [prev EXCEPT ![e] = p, ![next[p]] = e]
        /\ name' = [name EXCEPT ![e] = n]
        /\ filter' = [filter EXCEPT ![e] = f]
        /\ name2entry' = [name2entry EXCEPT ![n] = e]
        /\ unused' = unused \ {e}
        /\ live' = live \cup {e}
        /\ UNCHANGED <<calls, clearing>>

\* register_: the new entry e goes behind p.
Register(p, n, f) ==
    \E e \in unused :
        /\ next' = [next EXCEPT ![e] = next[p], ![p] = e]
        /\ prev' = [prev EXCEPT ![e] = p, ![next[p]] = e]
        /\ name' = [name EXCEPT ![e] = n]
        /\ filter' = [filter EXCEPT ![e] = f]
        /\ name2entry' = [name2entry EXCEPT ![n] = e]
        /\ unused' = unused \ {e}
        /\ live' = live \cup {e}
        /\ UNCHANGED <<calls, clearing>>

\* Mutant of Deregister: the link back of the next entry stays.
DeregisterForward(e) ==
    /\ next' = [next EXCEPT ![prev[e]] = next[e], ![e] = Null]
    /\ prev' = [prev EXCEPT ![e] = Null]
    /\ name2entry' = [name2entry EXCEPT ![name[e]] = Null]
    /\ live' = live \ {e}
    /\ name' = [name EXCEPT ![e] = Null]
    /\ filter' = [filter EXCEPT ![e] = Null]
    /\ UNCHANGED <<unused, calls>>

\* deregister, and the delete that follows it: nothing is left in the entry.
Deregister(e) ==
    /\ next' = [next EXCEPT ![prev[e]] = next[e], ![e] = Null]
    /\ prev' = [prev EXCEPT ![next[e]] = prev[e], ![e] = Null]
    /\ name2entry' = [name2entry EXCEPT ![name[e]] = Null]
    /\ live' = live \ {e}
    /\ name' = [name EXCEPT ![e] = Null]
    /\ filter' = [filter EXCEPT ![e] = Null]
    /\ UNCHANGED <<unused, calls>>

-----------------------------------------------------------------------------
(* What the owner of the session, or a filter it is inside, may do *)

Top == stack[Len(stack)]

\* The sentinels hold an EIoFilterAdapter, which only forwards.
UserCode == ~clearing /\ (stack # <<>> => Top.entry \in Cells)

AddFirst(n, f) ==
    /\ UserCode
    /\ Addable(n)
    /\ Register(head, n, f)

AddLast(n, f) ==
    /\ UserCode
    /\ Addable(n)
    /\ Register(prev[tail], n, f)

\* Mutant of AddBefore: it adds behind the entry.
AddBeforeBehind(b, n, f) ==
    /\ UserCode
    /\ name2entry[b] # Null
    /\ Addable(n)
    /\ Register(name2entry[b], n, f)

AddBefore(b, n, f) ==
    /\ UserCode
    /\ name2entry[b] # Null
    /\ Addable(n)
    /\ Register(prev[name2entry[b]], n, f)

AddAfter(b, n, f) ==
    /\ UserCode
    /\ name2entry[b] # Null
    /\ Addable(n)
    /\ Register(name2entry[b], n, f)

RemoveName(n) ==
    /\ UserCode
    /\ name2entry[n] # Null
    /\ Deregister(name2entry[n])
    /\ UNCHANGED clearing

\* The walk from the first entry; it ends at tail.
Walk == LET w[i \in 0 .. Cardinality(Nodes)] ==
                IF i = 0 THEN next[head]
                ELSE IF w[i - 1] \in live THEN next[w[i - 1]] ELSE tail
        IN  w

RemoveFilter(f) ==
    /\ UserCode
    /\ \E i \in DOMAIN Walk :
        /\ Walk[i] \in live
        /\ filter[Walk[i]] = f
        /\ \A j \in 0 .. i - 1 : filter[Walk[j]] # f
        /\ Deregister(Walk[i])
    /\ UNCHANGED clearing

\* clear() removes entries while it iterates over the map, in the order of the
\* map.  The loop ends with the map, or when the iterator refuses to go on.
Clear ==
    /\ clearing \/ UserCode
    /\ \E e \in live : Deregister(e)
    /\ clearing' = TRUE

ClearEnds ==
    /\ clearing
    /\ clearing' = FALSE
    /\ UNCHANGED <<links, entries, calls>>

-----------------------------------------------------------------------------
(* Events *)

\* fireSessionCreated, fireSessionClosed, fireMessageReceived, fireMessageSend
Fire ==
    LET v == IF stack = <<>> THEN 1 ELSE Top.event + 1
    IN  /\ UserCode
        /\ v <= MaxEvents
        /\ stack' = Append(stack, [entry |-> head, event |-> v])
        /\ present' = [present EXCEPT ![v] = live]
        /\ UNCHANGED <<links, entries, clearing>>

\* Mutant of Forward: callNext does not test for the end of the chain.
ForwardUnchecked ==
    /\ ~clearing
    /\ stack # <<>>
    /\ Top.entry \in live \cup {head, tail}
    /\ stack' = Append(stack, [Top EXCEPT !.entry = next[Top.entry]])
    /\ UNCHANGED <<links, entries, present, clearing>>

\* The filter of the top frame calls its NextFilter, which reads nextEntry.
\* EIoFilter.hh: a filter may use it until it is removed from the chain.
Forward ==
    /\ ~clearing
    /\ stack # <<>>
    /\ Top.entry \in live \cup {head}
    /\ stack' = Append(stack, [Top EXCEPT !.entry = next[Top.entry]])
    /\ UNCHANGED <<links, entries, present, clearing>>

\* The filter of the top frame returns, whether it has forwarded or not; the
\* adapter at the head returns with it.  Behind the tail there is no entry:
\* the call made by the adapter there returns at once.
Return ==
    /\ ~clearing
    /\ stack # <<>>
    /\ Top.entry # head
    /\ IF stack[Len(stack) - 1].entry = head
         THEN /\ stack' = SubSeq(stack, 1, Len(stack) - 2)
              /\ present' = [present EXCEPT ![Top.event] = {}]
         ELSE /\ stack' = SubSeq(stack, 1, Len(stack) - 1)
              /\ UNCHANGED present
    /\ UNCHANGED <<links, entries, clearing>>

Edit ==
    \/ \E n \in Names, f \in Filters :
        \/ AddFirst(n, f)
        \/ AddLast(n, f)
        \/ \E b \in Names : AddBefore(b, n, f) \/ AddAfter(b, n, f)
    \/ \E n \in Names : RemoveName(n)
    \/ \E f \in Filters : RemoveFilter(f)

Next == Edit \/ Clear \/ ClearEnds \/ Fire \/ Forward \/ Return

Spec == Init /\ [][Next]_vars

-----------------------------------------------------------------------------
(* Properties *)

InChain == live \cup {head, tail}

TypeOK ==
    /\ next \in [Nodes -> Nodes \cup {Null}]
    /\ prev \in [Nodes -> Nodes \cup {Null}]
    /\ name \in [Cells -> Names \cup {Null}]
    /\ filter \in [Cells -> Filters \cup {Null}]
    /\ name2entry \in [Names -> Cells \cup {Null}]
    /\ unused \subseteq Cells
    /\ live \subseteq Cells \ unused
    /\ stack \in Seq([entry : Nodes, event : 1 .. MaxEvents])
    /\ present \in [1 .. MaxEvents -> SUBSET Cells]
    /\ clearing \in BOOLEAN

\* The two directions of the list agree, and no link of an entry in the chain
\* leads to one that was deleted: register_ and deregister each change four
\* links of two neighbours, at either end of the list too.
LinksAgree ==
    /\ prev[head] = Null /\ next[tail] = Null
    /\ \A e \in live \cup {head} : next[e] \in live \cup {tail} /\ prev[next[e]] = e
    /\ \A e \in live \cup {tail} : prev[e] \in live \cup {head} /\ next[prev[e]] = e

\* The map and the list hold the same entries: a name leads to the entry that
\* carries it, every entry is under its name, and none is deleted.
MapMatchesList ==
    /\ \A n \in Names : name2entry[n] # Null =>
            name2entry[n] \in live /\ name[name2entry[n]] = n
    /\ \A e \in live : name[e] \in Names /\ name2entry[name[e]] = e

\* An event never enters the same entry twice, whatever the filters it is
\* inside do to the chain: moving on from an entry never leads back.
NoEntryTwice ==
    \A i, j \in DOMAIN stack :
        i < j /\ stack[i].event = stack[j].event => stack[i].entry # stack[j].entry

\* An event that has come to the end of the chain has been through every
\* filter that was there when it was fired and has not been removed since.
NobodySkipped ==
    stack # <<>> /\ Top.entry = tail =>
        \A e \in present[Top.event] \cap live :
            \E i \in DOMAIN stack : stack[i].entry = e /\ stack[i].event = Top.event

\* What makes these two inductive: some numbering of the entries rises along
\* the list without a gap, the frames of an event rise with it, and what an
\* event has passed and is still there, it has been through.
Rising(rank) ==
    /\ \A e \in live : rank[head] < rank[e] /\ rank[e] < rank[tail]
    /\ \A e \in live \cup {head} : rank[e] < rank[next[e]]
    /\ \A d, e \in InChain : rank[d] = rank[e] => d = e
    /\ \A e \in live \cup {head}, d \in InChain :
            rank[e] < rank[d] => rank[next[e]] <= rank[d]

FramesRise(rank) ==
    \A i, j \in DOMAIN stack :
        /\ i < j /\ stack[i].event = stack[j].event
        /\ stack[i].entry \in InChain /\ stack[j].entry \in InChain
        => rank[stack[i].entry] < rank[stack[j].entry]

PassedVisited(rank) ==
    \A i \in DOMAIN stack : stack[i].entry \in InChain =>
        \A e \in present[stack[i].event] \cap live :
            rank[e] < rank[stack[i].entry] =>
                \E k \in 1 .. i : stack[k].entry = e /\ stack[k].event = stack[i].event

InOrder(rank) == Rising(rank) /\ FramesRise(rank) /\ PassedVisited(rank)

\* No frame and no record of an event knows an entry that is yet to be
\* allocated; events nest, and the outermost frame is at the head.
FramesNest ==
    /\ \A i \in DOMAIN stack : stack[i].entry \notin unused
    /\ \A i, j \in DOMAIN stack : i < j => stack[i].event <= stack[j].event
    /\ stack # <<>> => stack[1].entry = head
    /\ \A v \in DOMAIN present : present[v] \cap unused = {}

\* The numbering TLC is given: the place of an entry in the list.
Position == [e \in Nodes |->
                IF e = head THEN 0
                ELSE Cardinality({i \in DOMAIN Walk : \A j \in 0 .. i : Walk[j] # e}) + 1]

OrderInv == FramesNest /\ InOrder(Position)

\* Refinement: the list, read from head to tail, is the sequence of filters
\* that FilterSequence edits.
Length == Cardinality({i \in DOMAIN Walk : Walk[i] \in live})

List == INSTANCE FilterSequence WITH
            chain <- [i \in 1 .. Length |-> [name |-> name[Walk[i - 1]], filter |-> filter[Walk[i - 1]]]]

ImplementsSequence == List!Spec

\* Each call does to that sequence what the call of the same name promises: it
\* is the links of two entries, found through the map or from a sentinel, that
\* make "before", "after", "first" and "last" come out right.
CallsAsPromised ==
    [][/\ \A n \in Names, f \in Filters :
            /\ AddFirst(n, f) => List!AddFirst(n, f)
            /\ AddLast(n, f) => List!AddLast(n, f)
            /\ \A b \in Names :
                /\ AddBefore(b, n, f) => List!AddBefore(b, n, f)
                /\ AddAfter(b, n, f) => List!AddAfter(b, n, f)
       /\ \A n \in Names : RemoveName(n) => List!RemoveName(n)
       /\ \A f \in Filters : RemoveFilter(f) => List!RemoveFilter(f)]_vars
=============================================================================
