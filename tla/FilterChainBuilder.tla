-------------------------- MODULE FilterChainBuilder --------------------------
(***************************************************************************)
(* EIoFilterChainBuilder: the list of filters an acceptor gives to every   *)
(* session it creates.  The list is an ECopyOnWriteArrayList: one access   *)
(* to it is atomic and an iterator walks the list as it was when it was    *)
(* created.  A call that edits the list is several accesses: it looks for  *)
(* a name, or for a place, and then inserts or removes at an index.        *)
(***************************************************************************)
EXTENDS Integers, SequencesExt

CONSTANTS Names, Filters,
          Mutators,    \* the threads that edit the builder
          Adders,      \* for every name, the threads that add a filter under it
          Sessions,    \* the sessions an acceptor creates
          None,
          MaxLength    \* bound: no filter is added to a list of this length

ASSUME BuilderAssumption ==
    /\ MaxLength \in Nat
    /\ Adders \in [Names -> SUBSET Mutators]

Entry == [name : Names, filter : Filters]

VARIABLES entries,   \* the list
          call,      \* what a thread has asked for
          at,        \* the access its call makes next
          index,     \* the index its call has computed
          built,     \* what the creation of a session has come to
          overtaken  \* history: another call has changed the list since the thread's began

vars == <<entries, call, at, index, built, overtaken>>

Points == {"idle", "base", "place", "name", "insert", "search", "erase"}

Calls == [op : {"addFirst", "addLast", "addBefore", "addAfter", "removeName", "removeFilter"},
          base : Names, name : Names, filter : Filters]

Init ==
    /\ entries = <<>>
    /\ call = [m \in Mutators |-> None]
    /\ at = [m \in Mutators |-> "idle"]
    /\ index = [m \in Mutators |-> 0]
    /\ built = [s \in Sessions |-> "none"]
    /\ overtaken = [m \in Mutators |-> FALSE]

HasName(n) == \E i \in DOMAIN entries : entries[i].name = n

\* The entry an iterator meets first among those that are asked for.
IsFirst(i, asked) == asked[i] /\ \A j \in 1 .. i - 1 : ~asked[j]

Goto(m, p) == at' = [at EXCEPT ![m] = p]

\* A change made by m overtakes the calls of the others.
Overtakes(m) ==
    overtaken' = [k \in Mutators |-> k # m /\ at[k] # "idle" /\ (overtaken[k] \/ entries' # entries)]

\* The call returns or throws.
Done(m) ==
    /\ Overtakes(m)
    /\ Goto(m, "idle")
    /\ call' = [call EXCEPT ![m] = None]
    /\ index' = [index EXCEPT ![m] = 0]

-----------------------------------------------------------------------------
(* addFirst, addLast, addBefore, addAfter *)

\* Indices start at 0.  The index of addFirst is 0, that of addLast the size of the list, read
\* before register_ is entered.
CallAdd(m, c) ==
    /\ at[m] = "idle"
    /\ m \in Adders[c.name]
    /\ Len(entries) < MaxLength
    /\ c.op \in {"addFirst", "addLast"} => c.base = c.name
    /\ call' = [call EXCEPT ![m] = c]
    /\ IF c.op \in {"addFirst", "addLast"}
         THEN /\ Goto(m, "name")
              /\ index' = [index EXCEPT ![m] = IF c.op = "addFirst" THEN 0 ELSE Len(entries)]
         ELSE /\ Goto(m, "base")
              /\ UNCHANGED index
    /\ UNCHANGED <<entries, built, overtaken>>

CheckBaseName(m) ==
    /\ at[m] = "base"
    /\ UNCHANGED <<entries, built>>
    /\ \/ /\ HasName(call[m].base)
          /\ Goto(m, "place")
          /\ UNCHANGED <<call, index, overtaken>>
       \/ /\ ~HasName(call[m].base)
          /\ Done(m)

\* Mutant of FindPlace: one more is taken off for addBefore.
FindPlaceLow(m) ==
    LET isBase == [i \in DOMAIN entries |-> entries[i].name = call[m].base]
    IN  /\ at[m] = "place"
        /\ UNCHANGED <<entries, built>>
        /\ \/ \E i \in DOMAIN entries :
                /\ IsFirst(i, isBase)
                /\ index' = [index EXCEPT ![m] = IF call[m].op = "addBefore" THEN i - 2 ELSE i]
                /\ Goto(m, "name")
                /\ UNCHANGED <<call, overtaken>>
           \/ /\ ~HasName(call[m].base)
              /\ Done(m)

\* Mutant of FindPlace: nextIndex() for addBefore too.
FindPlaceNext(m) ==
    LET isBase == [i \in DOMAIN entries |-> entries[i].name = call[m].base]
    IN  /\ at[m] = "place"
        /\ UNCHANGED <<entries, built>>
        /\ \/ \E i \in DOMAIN entries :
                /\ IsFirst(i, isBase)
                /\ index' = [index EXCEPT ![m] = i]
                /\ Goto(m, "name")
                /\ UNCHANGED <<call, overtaken>>
           \/ /\ ~HasName(call[m].base)
              /\ Done(m)

\* The place is previousIndex() or nextIndex() of an iterator that has just
\* returned the base.  A base that is gone again ends the call in silence.
FindPlace(m) ==
    LET isBase == [i \in DOMAIN entries |-> entries[i].name = call[m].base]
    IN  /\ at[m] = "place"
        /\ UNCHANGED <<entries, built>>
        /\ \/ \E i \in DOMAIN entries :
                /\ IsFirst(i, isBase)
                /\ index' = [index EXCEPT ![m] = IF call[m].op = "addBefore" THEN i - 1 ELSE i]
                /\ Goto(m, "name")
                /\ UNCHANGED <<call, overtaken>>
           \/ /\ ~HasName(call[m].base)
              /\ Done(m)

\* Mutant of CheckName: the name is not looked up.
CheckNothing(m) ==
    /\ at[m] = "name"
    /\ Goto(m, "insert")
    /\ UNCHANGED <<entries, call, index, built, overtaken>>

\* register_: the name is looked up, then the entry is added at the index.
CheckName(m) ==
    /\ at[m] = "name"
    /\ UNCHANGED <<entries, built>>
    /\ \/ /\ ~HasName(call[m].name)
          /\ Goto(m, "insert")
          /\ UNCHANGED <<call, index, overtaken>>
       \/ /\ HasName(call[m].name)
          /\ Done(m)

\* addAt() throws if the list has become shorter than the index.
AddAt(m) ==
    /\ at[m] = "insert"
    /\ entries' = IF index[m] <= Len(entries)
                    THEN InsertAt(entries, index[m] + 1,
                                  [name |-> call[m].name, filter |-> call[m].filter])
                    ELSE entries
    /\ Done(m)
    /\ UNCHANGED built

-----------------------------------------------------------------------------
(* remove, clear *)

CallRemove(m, c) ==
    /\ at[m] = "idle"
    /\ c.base = c.name
    /\ call' = [call EXCEPT ![m] = c]
    /\ Goto(m, "search")
    /\ UNCHANGED <<entries, index, built, overtaken>>

Asked(m, e) == IF call[m].op = "removeName" THEN e.name = call[m].name
                                            ELSE e.filter = call[m].filter

\* Mutant of Search: nextIndex() of the iterator.
SearchNext(m) ==
    LET isAsked == [i \in DOMAIN entries |-> Asked(m, entries[i])]
    IN  /\ at[m] = "search"
        /\ UNCHANGED <<entries, built>>
        /\ \/ \E i \in DOMAIN entries :
                /\ IsFirst(i, isAsked)
                /\ index' = [index EXCEPT ![m] = i]
                /\ Goto(m, "erase")
                /\ UNCHANGED <<call, overtaken>>
           \/ /\ \A i \in DOMAIN entries : ~isAsked[i]
              /\ Done(m)

Search(m) ==
    LET isAsked == [i \in DOMAIN entries |-> Asked(m, entries[i])]
    IN  /\ at[m] = "search"
        /\ UNCHANGED <<entries, built>>
        /\ \/ \E i \in DOMAIN entries :
                /\ IsFirst(i, isAsked)
                /\ index' = [index EXCEPT ![m] = i - 1]
                /\ Goto(m, "erase")
                /\ UNCHANGED <<call, overtaken>>
           \/ /\ \A i \in DOMAIN entries : ~isAsked[i]
              /\ Done(m)

\* removeAt() throws if the list has become shorter than the index.
RemoveAtIndex(m) ==
    /\ at[m] = "erase"
    /\ entries' = IF index[m] < Len(entries) THEN RemoveAt(entries, index[m] + 1) ELSE entries
    /\ Done(m)
    /\ UNCHANGED built

Clear(m) ==
    /\ at[m] = "idle"
    /\ entries' = <<>>
    /\ Overtakes(m)
    /\ UNCHANGED <<call, at, index, built>>

-----------------------------------------------------------------------------
(* buildFilterChain, called by the constructor of a session *)

UniqueNames(s) == \A i, j \in DOMAIN s : s[i].name = s[j].name => i = j

\* The list is walked as it was at one moment; the chain of the session throws
\* at a second entry of one name, and there is no session.
BuildFilterChain(s) ==
    /\ built[s] = "none"
    /\ built' = [built EXCEPT ![s] = IF UniqueNames(entries) THEN "built" ELSE "threw"]
    /\ UNCHANGED <<entries, call, at, index, overtaken>>

Mutate(m) ==
    \/ \E c \in Calls :
        \/ c.op \notin {"removeName", "removeFilter"} /\ CallAdd(m, c)
        \/ c.op \in {"removeName", "removeFilter"} /\ CallRemove(m, c)
    \/ CheckBaseName(m)
    \/ FindPlace(m)
    \/ CheckName(m)
    \/ AddAt(m)
    \/ Search(m)
    \/ RemoveAtIndex(m)
    \/ Clear(m)

Next == (\E m \in Mutators : Mutate(m)) \/ (\E s \in Sessions : BuildFilterChain(s))

Spec == Init /\ [][Next]_vars

-----------------------------------------------------------------------------
(* Properties *)

TypeOK ==
    /\ entries \in Seq(Entry)
    /\ call \in [Mutators -> Calls \cup {None}]
    /\ at \in [Mutators -> Points]
    /\ index \in [Mutators -> Nat]
    /\ built \in [Sessions -> {"none", "built", "threw"}]
    /\ overtaken \in [Mutators -> BOOLEAN]

\* No two filters of the builder have the same name, though the look-up and the
\* insertion of register_ are two accesses: it takes one thread for each name.
\* With two of one name no session can be created, its chain throws.
NamesUnique == UniqueNames(entries)

\* What remove() takes out is the filter it was asked for and returns, its index
\* coming from an iterator that has moved on, unless another thread has changed
\* the list in between.
RemovesWhatItFound ==
    [][\A m \in Mutators : RemoveAtIndex(m) /\ ~overtaken[m] =>
            index[m] < Len(entries) /\ Asked(m, entries[index[m] + 1])]_vars

\* Refinement: the builder is the sequence of filters a chain is, for any number
\* of threads that add names of their own: an insertion or a removal at an index
\* that is out of date still is an edit of the sequence.
List == INSTANCE FilterSequence WITH chain <- entries

ImplementsSequence == List!Spec

\* An addition comes to lie where its call says, next to its base or at an end
\* of the list, as the operation of the same name does to a chain, unless another
\* thread has changed the list in between.
AddsAsPromised ==
    [][\A m \in Mutators : AddAt(m) /\ ~overtaken[m] =>
        LET c == call[m]
        IN  CASE c.op = "addFirst" -> List!AddFirst(c.name, c.filter)
              [] c.op = "addLast" -> List!AddLast(c.name, c.filter)
              [] c.op = "addBefore" -> List!AddBefore(c.base, c.name, c.filter)
              [] c.op = "addAfter" -> List!AddAfter(c.base, c.name, c.filter)]_vars
=============================================================================
