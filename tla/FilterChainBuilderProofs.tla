----------------------- MODULE FilterChainBuilderProofs -----------------------
(***************************************************************************)
(* Theorems of FilterChainBuilder, for any number of threads: what a call  *)
(* does to the list when no other call gets in between, whoever adds what; *)
(* and, as long as no two threads add the same name, that the names in the *)
(* list are unique and that the builder is a FilterSequence.               *)
(***************************************************************************)
EXTENDS FilterChainBuilder, DataLemmas

LEMMA InsertKeepsUnique ==
    ASSUME NEW s \in Seq(Entry), UniqueNames(s),
           NEW i \in 1 .. Len(s) + 1, NEW e \in Entry,
           \A j \in DOMAIN s : s[j].name # e.name
    PROVE  /\ UniqueNames(InsertAt(s, i, e))
           /\ \A j \in DOMAIN InsertAt(s, i, e) :
                \/ InsertAt(s, i, e)[j].name = e.name
                \/ \E k \in DOMAIN s : s[k].name = InsertAt(s, i, e)[j].name
<1> DEFINE t == InsertAt(s, i, e)
           old(j) == IF j < i THEN j ELSE j - 1
<1>1. /\ t \in Seq(Entry) /\ Len(t) = Len(s) + 1
      /\ \A j \in 1 .. Len(s) + 1 : t[j] = IF j < i THEN s[j] ELSE IF j = i THEN e ELSE s[j - 1]
  BY InsertAtPositions
<1> HIDE DEF t
<1>2. /\ Len(s) \in Nat /\ DOMAIN s = 1 .. Len(s) /\ DOMAIN t = 1 .. Len(s) + 1
  BY <1>1, LenProperties
<1>3. t[i] = e
  BY <1>1, <1>2
<1>4. ASSUME NEW j \in DOMAIN t, j # i
      PROVE  old(j) \in DOMAIN s /\ t[j] = s[old(j)]
  BY <1>1, <1>2, <1>4
<1>5. ASSUME NEW j \in DOMAIN t, NEW k \in DOMAIN t, j # i, k # i, old(j) = old(k)
      PROVE  j = k
  BY <1>2, <1>5
<1> HIDE DEF old
<1>6. ASSUME NEW j \in DOMAIN t, NEW k \in DOMAIN t, t[j].name = t[k].name
      PROVE  j = k
  <2>1. CASE j = i /\ k = i
    BY <2>1
  <2>2. CASE j = i /\ k # i
    BY <2>2, <1>3, <1>4, <1>6
  <2>3. CASE j # i /\ k = i
    BY <2>3, <1>3, <1>4, <1>6
  <2>4. CASE j # i /\ k # i
    <3>1. s[old(j)].name = s[old(k)].name /\ old(j) \in DOMAIN s /\ old(k) \in DOMAIN s
      BY <2>4, <1>4, <1>6
    <3>2. old(j) = old(k)
      BY <3>1 DEF UniqueNames
    <3> QED
      BY <3>2, <2>4, <1>5
  <2> QED
    BY <2>1, <2>2, <2>3, <2>4
<1>7. ASSUME NEW j \in DOMAIN t
      PROVE  t[j].name = e.name \/ \E k \in DOMAIN s : s[k].name = t[j].name
  BY <1>3, <1>4
<1>8. UniqueNames(t)
  BY <1>6 DEF UniqueNames
<1> QED
  BY <1>7, <1>8 DEF t

LEMMA RemoveKeepsUnique ==
    ASSUME NEW s \in Seq(Entry), UniqueNames(s), NEW i \in 1 .. Len(s)
    PROVE  /\ UniqueNames(RemoveAt(s, i))
           /\ \A j \in DOMAIN RemoveAt(s, i) :
                \E k \in DOMAIN s : s[k].name = RemoveAt(s, i)[j].name
<1> DEFINE t == RemoveAt(s, i)
           old(j) == IF j < i THEN j ELSE j + 1
<1>1. /\ t \in Seq(Entry) /\ Len(t) = Len(s) - 1
      /\ \A j \in 1 .. Len(s) - 1 : t[j] = IF j < i THEN s[j] ELSE s[j + 1]
  BY RemoveAtPositions
<1> HIDE DEF t
<1>2. /\ Len(s) \in Nat /\ DOMAIN s = 1 .. Len(s) /\ DOMAIN t = 1 .. Len(s) - 1
  BY <1>1, LenProperties
<1>3. ASSUME NEW j \in DOMAIN t
      PROVE  old(j) \in DOMAIN s /\ t[j] = s[old(j)]
  BY <1>1, <1>2
<1>4. ASSUME NEW j \in DOMAIN t, NEW k \in DOMAIN t, old(j) = old(k)
      PROVE  j = k
  BY <1>2, <1>4
<1> HIDE DEF old
<1>5. ASSUME NEW j \in DOMAIN t, NEW k \in DOMAIN t, t[j].name = t[k].name
      PROVE  j = k
  <2>1. s[old(j)].name = s[old(k)].name /\ old(j) \in DOMAIN s /\ old(k) \in DOMAIN s
    BY <1>3, <1>5
  <2>2. old(j) = old(k)
    BY <2>1 DEF UniqueNames
  <2> QED
    BY <2>2, <1>4
<1>6. UniqueNames(t)
  BY <1>5 DEF UniqueNames
<1>7. ASSUME NEW j \in DOMAIN t
      PROVE  \E k \in DOMAIN s : s[k].name = t[j].name
  BY <1>3
<1> QED
  BY <1>6, <1>7 DEF t

(***************************************************************************)
(* The inductive invariant.  That the list alone has unique names is not   *)
(* inductive: a thread that has looked its name up inserts it later, so    *)
(* its name must still be free then, which it is because nobody else adds  *)
(* a filter of that name.                                                  *)
(***************************************************************************)

\* No two threads add filters of the same name.
OneAdder == \A n \in Names : \A m, k \in Adders[n] : m = k

Adding == {"base", "place", "name", "insert"}

OwnName == \A m \in Mutators : at[m] \in Adding => call[m] \in Calls /\ m \in Adders[call[m].name]

NameFree == \A m \in Mutators : at[m] = "insert" => ~HasName(call[m].name)

BuilderInv ==
    /\ entries \in Seq(Entry)
    /\ call \in [Mutators -> Calls \cup {None}]
    /\ at \in [Mutators -> Points]
    /\ index \in [Mutators -> Nat]
    /\ NamesUnique
    /\ OwnName
    /\ NameFree

\* A step of m that leaves the list alone keeps the invariant of the others;
\* what is left to show is the invariant of m.
LEMMA StepOfOne ==
    ASSUME BuilderInv, NEW m \in Mutators, NEW p \in Points, NEW c \in Calls \cup {None}, NEW i \in Nat,
           entries' = entries,
           at' = [at EXCEPT ![m] = p],
           call' = [call EXCEPT ![m] = c],
           index' = [index EXCEPT ![m] = i],
           p \in Adding => c \in Calls /\ m \in Adders[c.name],
           p = "insert" => ~HasName(c.name)
    PROVE  BuilderInv'
<1>1. /\ entries' \in Seq(Entry)
      /\ call' \in [Mutators -> Calls \cup {None}]
      /\ at' \in [Mutators -> Points]
      /\ index' \in [Mutators -> Nat]
  BY DEF BuilderInv
<1>2. NamesUnique'
  BY DEF BuilderInv, NamesUnique, UniqueNames
<1>3. \A k \in Mutators : /\ at'[k] = IF k = m THEN p ELSE at[k]
                          /\ call'[k] = IF k = m THEN c ELSE call[k]
  BY DEF BuilderInv
<1>4. ASSUME NEW k \in Mutators, at'[k] \in Adding
      PROVE  call'[k] \in Calls /\ k \in Adders[call'[k].name]
  BY <1>3, <1>4 DEF BuilderInv, OwnName
<1>5. ASSUME NEW k \in Mutators, at'[k] = "insert"
      PROVE  ~HasName(call[k].name)'
  <2>1. ~\E j \in DOMAIN entries : entries[j].name = call'[k].name
    <3>1. CASE k = m
      BY <3>1, <1>3, <1>5 DEF HasName
    <3>2. CASE k # m
      BY <3>2, <1>3, <1>5 DEF BuilderInv, NameFree, HasName
    <3> QED
      BY <3>1, <3>2
  <2> QED
    BY <2>1 DEF HasName
<1> QED
  BY <1>1, <1>2, <1>4, <1>5 DEF BuilderInv, OwnName, NameFree

\* A thread whose call returns may have changed the list; the names of the
\* threads about to insert must still be free.
LEMMA CallEnds ==
    ASSUME BuilderInv, NEW m \in Mutators, Done(m),
           entries' \in Seq(Entry), UniqueNames(entries)',
           \A k \in Mutators \ {m} : at[k] = "insert" => ~HasName(call[k].name)'
    PROVE  BuilderInv'
<1>1. /\ call' \in [Mutators -> Calls \cup {None}]
      /\ at' \in [Mutators -> Points]
      /\ index' \in [Mutators -> Nat]
  BY DEF BuilderInv, Done, Goto, Points
<1>2. \A k \in Mutators : /\ at'[k] = IF k = m THEN "idle" ELSE at[k]
                          /\ call'[k] = IF k = m THEN None ELSE call[k]
  BY DEF BuilderInv, Done, Goto
<1>3. OwnName'
  BY <1>2 DEF BuilderInv, OwnName, Adding
<1>4. ASSUME NEW k \in Mutators, at'[k] = "insert"
      PROVE  ~HasName(call[k].name)'
  <2>1. k # m /\ at[k] = "insert" /\ call'[k] = call[k]
    BY <1>2, <1>4
  <2> QED
    BY <2>1
<1> QED
  BY <1>1, <1>3, <1>4 DEF BuilderInv, NamesUnique, NameFree

LEMMA InitBuilder == Init => BuilderInv
<1> SUFFICES ASSUME Init PROVE BuilderInv
  OBVIOUS
<1>1. entries \in Seq(Entry) /\ NamesUnique
  BY DEF Init, NamesUnique, UniqueNames
<1>2. /\ call \in [Mutators -> Calls \cup {None}]
      /\ at \in [Mutators -> Points]
      /\ index \in [Mutators -> Nat]
  BY DEF Init, Points
<1>3. OwnName /\ NameFree
  BY DEF Init, OwnName, NameFree, Adding
<1> QED
  BY <1>1, <1>2, <1>3 DEF BuilderInv

LEMMA MoveOn ==
    ASSUME BuilderInv, NEW m \in Mutators, NEW p \in Points,
           UNCHANGED <<entries, call, index>>,
           at' = [at EXCEPT ![m] = p],
           at[m] \in Adding,
           p = "insert" => ~HasName(call[m].name)
    PROVE  BuilderInv'
<1>1. PICK c \in Calls \cup {None} : c = call[m]
  BY DEF BuilderInv
<1>2. PICK i \in Nat : i = index[m]
  BY DEF BuilderInv
<1>3. c \in Calls /\ m \in Adders[c.name]
  BY <1>1 DEF BuilderInv, OwnName
<1>4. call' = [call EXCEPT ![m] = c] /\ index' = [index EXCEPT ![m] = i]
  BY <1>1, <1>2 DEF BuilderInv
<1>5. p = "insert" => ~HasName(c.name)
  BY <1>1
<1>6. entries' = entries
  OBVIOUS
<1> QED
  BY <1>3, <1>4, <1>5, <1>6, StepOfOne

LEMMA NextBuilder ==
    ASSUME OneAdder, BuilderInv, [Next]_vars
    PROVE  BuilderInv'
<1> USE DEF Goto
<1>t. /\ entries \in Seq(Entry) /\ Len(entries) \in Nat /\ DOMAIN entries = 1 .. Len(entries)
      /\ call \in [Mutators -> Calls \cup {None}]
      /\ at \in [Mutators -> Points]
      /\ index \in [Mutators -> Nat]
  BY LenProperties DEF BuilderInv
<1>e. ASSUME NEW m \in Mutators, UNCHANGED entries, Done(m)
      PROVE  BuilderInv'
  <2>1. entries' \in Seq(Entry) /\ UniqueNames(entries)'
    BY <1>e DEF BuilderInv, NamesUnique, UniqueNames
  <2>2. \A k \in Mutators \ {m} : at[k] = "insert" => ~HasName(call[k].name)'
    <3>1. \A k \in Mutators \ {m} : call'[k] = call[k]
      BY <1>e, <1>t DEF Done
    <3> QED
      BY <1>e, <3>1 DEF BuilderInv, NameFree, HasName
  <2> QED
    BY <1>e, <2>1, <2>2, CallEnds
<1>1. ASSUME NEW m \in Mutators, NEW c \in Calls, CallAdd(m, c)
      PROVE  BuilderInv'
  <2>1. m \in Adders[c.name]
    BY <1>1 DEF CallAdd
  <2>2. /\ UNCHANGED entries
        /\ call' = [call EXCEPT ![m] = c]
        /\ \E p \in {"base", "name"} : at' = [at EXCEPT ![m] = p]
        /\ \E i \in Nat : index' = [index EXCEPT ![m] = i]
    BY <1>1, <1>t DEF CallAdd
  <2>3. PICK p \in {"base", "name"} : at' = [at EXCEPT ![m] = p]
    BY <2>2
  <2>4. PICK i \in Nat : index' = [index EXCEPT ![m] = i]
    BY <2>2
  <2>5. p \in Points /\ p # "insert"
    BY DEF Points
  <2> QED
    BY <2>1, <2>2, <2>3, <2>4, <2>5, StepOfOne
<1>2. ASSUME NEW m \in Mutators, CheckBaseName(m)
      PROVE  BuilderInv'
  <2>1. CASE HasName(call[m].base)
    <3>1. UNCHANGED <<entries, call, index>> /\ at[m] \in Adding
      BY <1>2, <2>1 DEF CheckBaseName, Done, Adding
    <3>2. PICK p \in Points : p = "place"
      BY DEF Points
    <3>3. at' = [at EXCEPT ![m] = p] /\ p # "insert"
      BY <1>2, <2>1, <3>2 DEF CheckBaseName, Done
    <3> HIDE DEF Goto
    <3> QED
      BY <3>1, <3>3, MoveOn
  <2>2. CASE ~HasName(call[m].base)
    BY <1>2, <2>2, <1>e DEF CheckBaseName
  <2> QED
    BY <2>1, <2>2
<1>3. ASSUME NEW m \in Mutators, FindPlace(m)
      PROVE  BuilderInv'
  <2>1. CASE Done(m)
    BY <1>3, <2>1, <1>e DEF FindPlace
  <2>2. CASE ~Done(m)
    <3>1. /\ UNCHANGED <<entries, call>> /\ at' = [at EXCEPT ![m] = "name"]
          /\ at[m] = "place"
          /\ \E i \in DOMAIN entries :
                index' = [index EXCEPT ![m] = IF call[m].op = "addBefore" THEN i - 1 ELSE i]
      BY <1>3, <2>2 DEF FindPlace
    <3>2. PICK i \in Nat : index' = [index EXCEPT ![m] = i]
      <4>1. PICK i \in DOMAIN entries :
              index' = [index EXCEPT ![m] = IF call[m].op = "addBefore" THEN i - 1 ELSE i]
        BY <3>1
      <4>2. (IF call[m].op = "addBefore" THEN i - 1 ELSE i) \in Nat
        BY <1>t
      <4> QED
        BY <4>1, <4>2
    <3>3. /\ call[m] \in Calls \cup {None} /\ "name" \in Points
          /\ call' = [call EXCEPT ![m] = call[m]]
      BY <3>1, <1>t DEF Points
    <3>4. call[m] \in Calls /\ m \in Adders[call[m].name]
      BY <3>1 DEF BuilderInv, OwnName, Adding
    <3> QED
      BY <3>1, <3>2, <3>3, <3>4, StepOfOne
  <2> QED
    BY <2>1, <2>2
<1>4. ASSUME NEW m \in Mutators, CheckName(m)
      PROVE  BuilderInv'
  <2>1. CASE ~HasName(call[m].name)
    <3>1. UNCHANGED <<entries, call, index>> /\ at[m] \in Adding
      BY <1>4, <2>1 DEF CheckName, Done, Adding
    <3>2. PICK p \in Points : p = "insert"
      BY DEF Points
    <3>3. at' = [at EXCEPT ![m] = p]
      BY <1>4, <2>1, <3>2 DEF CheckName, Done
    <3> HIDE DEF Goto
    <3> QED
      BY <2>1, <3>1, <3>3, MoveOn
  <2>2. CASE HasName(call[m].name)
    BY <1>4, <2>2, <1>e DEF CheckName
  <2> QED
    BY <2>1, <2>2
<1>5. ASSUME NEW m \in Mutators, AddAt(m)
      PROVE  BuilderInv'
  <2>1. at[m] = "insert" /\ Done(m)
    BY <1>5 DEF AddAt
  <2>2. /\ call[m] \in Calls /\ m \in Adders[call[m].name] /\ ~HasName(call[m].name)
    BY <2>1 DEF BuilderInv, OwnName, NameFree, Adding
  <2>3. CASE index[m] <= Len(entries)
    <3> DEFINE e == [name |-> call[m].name, filter |-> call[m].filter]
    <3>1. e \in Entry /\ e.name = call[m].name /\ call[m].name \in Names
      BY <2>2 DEF Calls, Entry
    <3>2. entries' = InsertAt(entries, index[m] + 1, e)
      BY <1>5, <2>3 DEF AddAt
    <3> HIDE DEF e
    <3>3. index[m] + 1 \in 1 .. Len(entries) + 1
      BY <2>3, <1>t
    <3>4. UniqueNames(entries) /\ \A j \in DOMAIN entries : entries[j].name # e.name
      BY <2>2, <3>1 DEF BuilderInv, NamesUnique, HasName
    <3>5. entries' \in Seq(Entry)
      BY <3>1, <3>2, <3>3, <1>t, InsertAtPositions
    <3>6. /\ UniqueNames(entries')
          /\ \A j \in DOMAIN entries' : \/ entries'[j].name = e.name
                                        \/ \E k \in DOMAIN entries : entries[k].name = entries'[j].name
      BY <3>1, <3>2, <3>3, <3>4, <1>t, InsertKeepsUnique
    <3>7. ASSUME NEW k \in Mutators \ {m}, at[k] = "insert"
          PROVE  ~HasName(call[k].name)'
      <4>1. /\ call[k] \in Calls /\ k \in Adders[call[k].name] /\ ~HasName(call[k].name)
        BY <3>7 DEF BuilderInv, OwnName, NameFree, Adding
      <4>2. call[k].name \in Names
        BY <4>1 DEF Calls
      <4>3. call[k].name # e.name
        BY <4>1, <4>2, <2>2, <3>1 DEF OneAdder
      <4>4. call'[k] = call[k]
        BY <2>1, <1>t DEF Done
      <4>5. \A j \in DOMAIN entries' : entries'[j].name # call[k].name
        BY <4>1, <4>3, <3>6 DEF HasName
      <4> QED
        BY <4>4, <4>5 DEF HasName
    <3>8. UniqueNames(entries)'
      BY <3>6
    <3>9. \A k \in Mutators \ {m} : at[k] = "insert" => ~HasName(call[k].name)'
      BY <3>7
    <3> QED
      BY <2>1, <3>5, <3>8, <3>9, CallEnds
  <2>4. CASE ~(index[m] <= Len(entries))
    BY <1>5, <2>1, <2>4, <1>e DEF AddAt
  <2> QED
    BY <2>3, <2>4
<1>6. ASSUME NEW m \in Mutators, NEW c \in Calls, CallRemove(m, c)
      PROVE  BuilderInv'
  <2>1. /\ UNCHANGED <<entries, index>>
        /\ call' = [call EXCEPT ![m] = c]
        /\ at' = [at EXCEPT ![m] = "search"]
    BY <1>6 DEF CallRemove
  <2>2. /\ index[m] \in Nat /\ index' = [index EXCEPT ![m] = index[m]]
        /\ "search" \in Points /\ "search" \notin Adding
    BY <2>1, <1>t DEF Points, Adding
  <2> QED
    BY <2>1, <2>2, StepOfOne
<1>7. ASSUME NEW m \in Mutators, Search(m)
      PROVE  BuilderInv'
  <2>1. CASE Done(m)
    BY <1>7, <2>1, <1>e DEF Search
  <2>2. CASE ~Done(m)
    <3>1. /\ UNCHANGED <<entries, call>> /\ at' = [at EXCEPT ![m] = "erase"]
          /\ \E i \in DOMAIN entries : index' = [index EXCEPT ![m] = i - 1]
      BY <1>7, <2>2 DEF Search
    <3>2. PICK i \in Nat : index' = [index EXCEPT ![m] = i]
      <4>1. PICK i \in DOMAIN entries : index' = [index EXCEPT ![m] = i - 1]
        BY <3>1
      <4>2. i - 1 \in Nat
        BY <1>t
      <4> QED
        BY <4>1, <4>2
    <3>3. /\ call[m] \in Calls \cup {None} /\ "erase" \in Points /\ "erase" \notin Adding
          /\ call' = [call EXCEPT ![m] = call[m]]
      BY <3>1, <1>t DEF Points, Adding
    <3> QED
      BY <3>1, <3>2, <3>3, StepOfOne
  <2> QED
    BY <2>1, <2>2
<1>8. ASSUME NEW m \in Mutators, RemoveAtIndex(m)
      PROVE  BuilderInv'
  <2>1. Done(m)
    BY <1>8 DEF RemoveAtIndex
  <2>2. CASE index[m] < Len(entries)
    <3>1. entries' = RemoveAt(entries, index[m] + 1) /\ index[m] + 1 \in 1 .. Len(entries)
      BY <1>8, <2>2, <1>t DEF RemoveAtIndex
    <3>2. UniqueNames(entries)
      BY DEF BuilderInv, NamesUnique
    <3>3. entries' \in Seq(Entry)
      BY <3>1, <1>t, RemoveAtPositions
    <3>4. /\ UniqueNames(entries')
          /\ \A j \in DOMAIN entries' : \E k \in DOMAIN entries : entries[k].name = entries'[j].name
      BY <3>1, <3>2, <1>t, RemoveKeepsUnique
    <3>5. ASSUME NEW k \in Mutators \ {m}, at[k] = "insert"
          PROVE  ~HasName(call[k].name)'
      <4>1. ~HasName(call[k].name)
        BY <3>5 DEF BuilderInv, NameFree
      <4>2. call'[k] = call[k]
        BY <2>1, <1>t DEF Done
      <4> QED
        BY <4>1, <4>2, <3>4 DEF HasName
    <3>6. UniqueNames(entries)'
      BY <3>4
    <3>7. \A k \in Mutators \ {m} : at[k] = "insert" => ~HasName(call[k].name)'
      BY <3>5
    <3> QED
      BY <2>1, <3>3, <3>6, <3>7, CallEnds
  <2>3. CASE ~(index[m] < Len(entries))
    BY <1>8, <2>1, <2>3, <1>e DEF RemoveAtIndex
  <2> QED
    BY <2>2, <2>3
<1>9. ASSUME NEW m \in Mutators, Clear(m)
      PROVE  BuilderInv'
  <2>1. entries' = <<>> /\ UNCHANGED <<call, at, index>>
    BY <1>9 DEF Clear
  <2>2. entries' \in Seq(Entry) /\ NamesUnique' /\ NameFree'
    BY <2>1 DEF NamesUnique, UniqueNames, NameFree, HasName
  <2>3. OwnName'
    BY <2>1 DEF BuilderInv, OwnName
  <2> QED
    BY <2>1, <2>2, <2>3 DEF BuilderInv
<1>10. ASSUME UNCHANGED <<entries, call, at, index>>
       PROVE  BuilderInv'
  BY <1>10 DEF BuilderInv, NamesUnique, UniqueNames, OwnName, NameFree, HasName
<1>11. CASE Next
  <2>1. ASSUME NEW m \in Mutators, Mutate(m)
        PROVE  BuilderInv'
    BY <2>1, <1>1, <1>2, <1>3, <1>4, <1>5, <1>6, <1>7, <1>8, <1>9 DEF Mutate
  <2>2. ASSUME NEW s \in Sessions, BuildFilterChain(s)
        PROVE  BuilderInv'
    BY <2>2, <1>10 DEF BuildFilterChain
  <2> QED
    BY <1>11, <2>1, <2>2 DEF Next
<1>12. CASE UNCHANGED vars
  BY <1>12, <1>10 DEF vars
<1> QED
  BY <1>11, <1>12

\* However many threads edit the builder, no two of its filters have the same
\* name, if every name is added by one thread at most: the look-up and the
\* insertion of EIoFilterChainBuilder::register_ need no lock then.
THEOREM BuilderNamesUnique ==
    ASSUME OneAdder
    PROVE  Spec => []NamesUnique
<1>1. BuilderInv /\ [Next]_vars => BuilderInv'
  BY OneAdder, NextBuilder
<1>2. BuilderInv => NamesUnique
  BY DEF BuilderInv
<1> QED
  BY <1>1, <1>2, InitBuilder, PTL DEF Spec

-----------------------------------------------------------------------------
(***************************************************************************)
(* Calls that no other call has overtaken, whoever adds what.              *)
(***************************************************************************)
LEMMA Shape ==
    ASSUME TypeOK
    PROVE  /\ Len(entries) \in Nat /\ DOMAIN entries = 1 .. Len(entries)
           /\ \A i \in DOMAIN entries : entries[i] \in Entry
<1>1. entries \in Seq(Entry)
  BY DEF TypeOK
<1> QED
  BY <1>1, LenProperties, ElementOfSeq

\* Only additions go where additions do, and only those with a base look for it.
OpAt(p, op) ==
    /\ p \in {"base", "place"} => op \in {"addBefore", "addAfter"}
    /\ p \in {"name", "insert"} => op \in {"addFirst", "addLast", "addBefore", "addAfter"}

OwnAddition == OwnName /\ \A m \in Mutators : at[m] \in Adding => OpAt(at[m], call[m].op)

\* The place of an addition is next to its base, or at an end of the list.
Placed(m) ==
    /\ call[m].op = "addFirst" => index[m] = 0
    /\ call[m].op = "addLast" => index[m] = Len(entries)
    /\ call[m].op = "addBefore" => /\ index[m] + 1 \in DOMAIN entries
                                   /\ entries[index[m] + 1].name = call[m].base
    /\ call[m].op = "addAfter" => /\ index[m] \in DOMAIN entries
                                  /\ entries[index[m]].name = call[m].base

\* What a thread has found out about the list holds until the list is changed.
UpToDate(m) ==
    /\ at[m] \in {"name", "insert"} => Placed(m)
    /\ at[m] = "insert" => ~HasName(call[m].name)
    /\ at[m] = "erase" => /\ index[m] + 1 \in DOMAIN entries
                          /\ Asked(m, entries[index[m] + 1])

CallInv == TypeOK /\ OwnAddition /\ \A m \in Mutators : ~overtaken[m] => UpToDate(m)

LEMMA InitCalls == Init => CallInv
<1> SUFFICES ASSUME Init PROVE CallInv
  OBVIOUS
<1>1. TypeOK
  BY DEF Init, TypeOK, Points
<1>2. OwnAddition
  BY DEF Init, OwnAddition, OwnName, Adding
<1>3. \A m \in Mutators : UpToDate(m)
  BY DEF Init, UpToDate
<1> QED
  BY <1>1, <1>2, <1>3 DEF CallInv

\* A call that changes the list overtakes the others, and one that does not leaves what
\* they have found out as it was.
LEMMA OthersUpToDate ==
    ASSUME CallInv, NEW m \in Mutators, NEW k \in Mutators \ {m},
           at'[k] = at[k], call'[k] = call[k], index'[k] = index[k],
           UNCHANGED <<entries, overtaken>> \/ Overtakes(m),
           ~overtaken'[k]
    PROVE  UpToDate(k)'
<1>1. CASE at[k] = "idle"
  BY <1>1 DEF UpToDate
<1>2. CASE at[k] # "idle"
  <2>1. entries' = entries /\ ~overtaken[k]
    BY <1>2 DEF Overtakes
  <2>2. UpToDate(k)
    BY <2>1 DEF CallInv
  <2>3. Placed(k) => Placed(k)'
    BY <2>1 DEF Placed
  <2>4. HasName(call[k].name)' => HasName(call[k].name)
    BY <2>1 DEF HasName
  <2>5. ASSUME at[k] = "erase"
        PROVE  /\ (index[k] + 1 \in DOMAIN entries)'
               /\ Asked(k, entries[index[k] + 1])'
    BY <2>1, <2>2, <2>5 DEF UpToDate, Asked
  <2> QED
    BY <2>2, <2>3, <2>4, <2>5 DEF UpToDate
<1> QED
  BY <1>1, <1>2

\* A step of m: what is left to show is what m itself knows.
LEMMA CallStep ==
    ASSUME CallInv, NEW m \in Mutators, NEW p \in Points, NEW c \in Calls \cup {None}, NEW i \in Nat,
           at' = [at EXCEPT ![m] = p], call' = [call EXCEPT ![m] = c],
           index' = [index EXCEPT ![m] = i],
           UNCHANGED <<entries, overtaken>> \/ Overtakes(m),
           entries' \in Seq(Entry), UNCHANGED built,
           p \in Adding => c \in Calls /\ m \in Adders[c.name] /\ OpAt(p, c.op),
           ~overtaken'[m] => UpToDate(m)'
    PROVE  CallInv'
<1>t. TypeOK
  BY DEF CallInv
<1>1. \A k \in Mutators : /\ at'[k] = IF k = m THEN p ELSE at[k]
                          /\ call'[k] = IF k = m THEN c ELSE call[k]
                          /\ index'[k] = IF k = m THEN i ELSE index[k]
  BY <1>t DEF TypeOK
<1>2. TypeOK'
  <2>1. /\ call' \in [Mutators -> Calls \cup {None}]
        /\ at' \in [Mutators -> Points]
        /\ index' \in [Mutators -> Nat]
        /\ built' \in [Sessions -> {"none", "built", "threw"}]
    BY <1>t DEF TypeOK
  <2>2. overtaken' \in [Mutators -> BOOLEAN]
    BY <1>t DEF TypeOK, Overtakes
  <2> QED
    BY <2>1, <2>2 DEF TypeOK
<1>3. OwnAddition'
  BY <1>1 DEF CallInv, OwnAddition, OwnName
<1>4. ASSUME NEW k \in Mutators, ~overtaken'[k]
      PROVE  UpToDate(k)'
  <2>1. CASE k = m
    BY <2>1, <1>4
  <2>2. CASE k # m
    BY <2>2, <1>1, <1>4, OthersUpToDate
  <2> QED
    BY <2>1, <2>2
<1> QED
  BY <1>2, <1>3, <1>4 DEF CallInv

\* The end of a call.
LEMMA CallDone ==
    ASSUME CallInv, NEW m \in Mutators, Done(m), entries' \in Seq(Entry), UNCHANGED built
    PROVE  CallInv'
<1>1. /\ at' = [at EXCEPT ![m] = "idle"] /\ call' = [call EXCEPT ![m] = None]
      /\ index' = [index EXCEPT ![m] = 0] /\ Overtakes(m)
  BY DEF Done, Goto
<1>2. "idle" \in Points /\ "idle" \notin Adding /\ 0 \in Nat
  BY DEF Points, Adding
<1>3. UpToDate(m)'
  BY <1>1 DEF UpToDate, CallInv, TypeOK
<1> QED
  BY <1>1, <1>2, <1>3, CallStep

\* A step of m that moves its call on and leaves the list alone.
LEMMA CallOn ==
    ASSUME CallInv, NEW m \in Mutators, NEW p \in Points, NEW i \in Nat,
           at' = [at EXCEPT ![m] = p], index' = [index EXCEPT ![m] = i],
           UNCHANGED <<entries, call, built, overtaken>>,
           p \in Adding => at[m] \in Adding /\ OpAt(p, call[m].op),
           ~overtaken[m] => UpToDate(m)'
    PROVE  CallInv'
<1>1. PICK c \in Calls \cup {None} : c = call[m]
  BY DEF CallInv, TypeOK
<1>2. call' = [call EXCEPT ![m] = c]
  BY <1>1 DEF CallInv, TypeOK
<1>3. p \in Adding => c \in Calls /\ m \in Adders[c.name] /\ OpAt(p, c.op)
  BY <1>1 DEF CallInv, OwnAddition, OwnName
<1>4. entries' \in Seq(Entry) /\ (~overtaken'[m] => UpToDate(m)')
  BY DEF CallInv, TypeOK
<1> QED
  BY <1>2, <1>3, <1>4, CallStep

LEMMA CallNext ==
    ASSUME CallInv, [Next]_vars
    PROVE  CallInv'
<1>t. TypeOK
  BY DEF CallInv
<1>s. /\ Len(entries) \in Nat /\ DOMAIN entries = 1 .. Len(entries)
      /\ entries \in Seq(Entry)
      /\ call \in [Mutators -> Calls \cup {None}]
      /\ at \in [Mutators -> Points]
      /\ index \in [Mutators -> Nat]
  BY <1>t, Shape DEF TypeOK
<1>1. ASSUME NEW m \in Mutators, NEW c \in Calls, CallAdd(m, c), c.op \notin {"removeName", "removeFilter"}
      PROVE  CallInv'
  <2>1. /\ UNCHANGED <<entries, built, overtaken>> /\ m \in Adders[c.name]
        /\ call' = [call EXCEPT ![m] = c]
    BY <1>1 DEF CallAdd
  <2>2. CASE c.op \in {"addFirst", "addLast"}
    <3>1. PICK i \in Nat : i = IF c.op = "addFirst" THEN 0 ELSE Len(entries)
      BY <1>s
    <3>2. PICK p \in Points : p = "name"
      BY DEF Points
    <3>3. at' = [at EXCEPT ![m] = p] /\ index' = [index EXCEPT ![m] = i]
      BY <1>1, <2>2, <3>1, <3>2 DEF CallAdd, Goto
    <3>4. at'[m] = p /\ index'[m] = i /\ call'[m] = c
      BY <3>3, <2>1, <1>s
    <3>5. UpToDate(m)'
      BY <3>4, <3>1, <3>2, <2>1, <2>2 DEF UpToDate, Placed
    <3>6. OpAt(p, c.op)
      BY <3>2, <2>2 DEF OpAt
    <3> QED
      BY <1>1, <1>s, <2>1, <3>3, <3>5, <3>6, CallStep
  <2>3. CASE c.op \notin {"addFirst", "addLast"}
    <3>1. PICK i \in Nat : i = index[m]
      BY <1>s
    <3>2. PICK p \in Points : p = "base"
      BY DEF Points
    <3>3. at' = [at EXCEPT ![m] = p] /\ index' = [index EXCEPT ![m] = i]
      BY <1>1, <2>3, <3>1, <3>2, <1>s DEF CallAdd, Goto
    <3>4. UpToDate(m)'
      BY <3>3, <3>2, <1>s DEF UpToDate
    <3>5. OpAt(p, c.op)
      BY <1>1, <3>2, <2>3 DEF OpAt, Calls
    <3> QED
      BY <1>1, <1>s, <2>1, <3>3, <3>4, <3>5, CallStep
  <2> QED
    BY <2>2, <2>3
<1>2. ASSUME NEW m \in Mutators, CheckBaseName(m)
      PROVE  CallInv'
  <2>1. CASE HasName(call[m].base)
    <3>1. PICK p \in Points : p = "place"
      BY DEF Points
    <3>2. PICK i \in Nat : i = index[m]
      BY <1>s
    <3>3. /\ UNCHANGED <<entries, call, built, overtaken>> /\ at[m] \in Adding
          /\ at' = [at EXCEPT ![m] = p] /\ index' = [index EXCEPT ![m] = i]
      BY <1>2, <2>1, <3>1, <3>2, <1>s DEF CheckBaseName, Adding, Goto, Done
    <3>4. UpToDate(m)'
      BY <3>3, <3>1, <1>s DEF UpToDate
    <3>5. OpAt(p, call[m].op)
      BY <3>1, <3>3, <1>2 DEF CheckBaseName, CallInv, OwnAddition, OpAt
    <3> QED
      BY <3>3, <3>4, <3>5, CallOn
  <2>2. CASE ~HasName(call[m].base)
    BY <1>2, <2>2, <1>s, CallDone DEF CheckBaseName
  <2> QED
    BY <2>1, <2>2
<1>3. ASSUME NEW m \in Mutators, FindPlace(m)
      PROVE  CallInv'
  <2>1. CASE Done(m)
    BY <1>3, <2>1, <1>s, CallDone DEF FindPlace
  <2>2. CASE ~Done(m)
    <3>1. PICK j \in DOMAIN entries :
             /\ entries[j].name = call[m].base
             /\ index' = [index EXCEPT ![m] = IF call[m].op = "addBefore" THEN j - 1 ELSE j]
             /\ Goto(m, "name")
             /\ UNCHANGED <<call, overtaken>>
      BY <1>3, <2>2 DEF FindPlace, IsFirst
    <3>2. PICK p \in Points : p = "name"
      BY DEF Points
    <3>3. PICK i \in Nat : i = IF call[m].op = "addBefore" THEN j - 1 ELSE j
      BY <1>s
    <3>4. /\ UNCHANGED <<entries, call, built, overtaken>> /\ at[m] \in Adding
          /\ at' = [at EXCEPT ![m] = p] /\ index' = [index EXCEPT ![m] = i]
      BY <1>3, <3>1, <3>2, <3>3 DEF FindPlace, Adding, Goto
    <3>5. call[m].op \in {"addBefore", "addAfter"}
      BY <1>3, <3>4 DEF FindPlace, CallInv, OwnAddition, OpAt
    <3>6. UpToDate(m)'
      <4>1. /\ call'[m] = call[m] /\ index'[m] = i /\ at'[m] = "name" /\ entries' = entries
        BY <3>4, <3>2, <1>s
      <4>2. call[m].op = "addBefore" => i + 1 = j
        BY <3>3, <1>s
      <4>3. call[m].op = "addAfter" => i = j
        BY <3>3
      <4> QED
        BY <4>1, <4>2, <4>3, <3>1, <3>5 DEF UpToDate, Placed
    <3>7. OpAt(p, call[m].op)
      BY <3>2, <3>5 DEF OpAt
    <3> QED
      BY <3>4, <3>6, <3>7, CallOn
  <2> QED
    BY <2>1, <2>2
<1>4. ASSUME NEW m \in Mutators, CheckName(m)
      PROVE  CallInv'
  <2>1. CASE ~HasName(call[m].name)
    <3>1. PICK p \in Points : p = "insert"
      BY DEF Points
    <3>2. PICK i \in Nat : i = index[m]
      BY <1>s
    <3>3. /\ UNCHANGED <<entries, call, built, overtaken>> /\ at[m] = "name"
          /\ at' = [at EXCEPT ![m] = p] /\ index' = [index EXCEPT ![m] = i]
      BY <1>4, <2>1, <3>1, <3>2, <1>s DEF CheckName, Goto, Done
    <3>4. at'[m] = "insert" /\ call'[m] = call[m] /\ index'[m] = index[m] /\ entries' = entries
      BY <3>1, <3>2, <3>3, <1>s
    <3>5. ~HasName(call[m].name)'
      BY <3>4, <2>1 DEF HasName
    <3>6. Placed(m) => Placed(m)'
      BY <3>4 DEF Placed
    <3>7. ~overtaken[m] => UpToDate(m)'
      BY <3>3, <3>4, <3>5, <3>6 DEF CallInv, UpToDate
    <3>8. at[m] \in Adding /\ OpAt(p, call[m].op)
      BY <3>1, <3>3 DEF CallInv, OwnAddition, OpAt, Adding
    <3> QED
      BY <3>3, <3>7, <3>8, CallOn
  <2>2. CASE HasName(call[m].name)
    BY <1>4, <2>2, <1>s, CallDone DEF CheckName
  <2> QED
    BY <2>1, <2>2
<1>5. ASSUME NEW m \in Mutators, AddAt(m)
      PROVE  CallInv'
  <2>1. at[m] = "insert" /\ Done(m) /\ UNCHANGED built
    BY <1>5 DEF AddAt
  <2>2. CASE index[m] <= Len(entries)
    <3> DEFINE e == [name |-> call[m].name, filter |-> call[m].filter]
    <3>1. e \in Entry
      BY <2>1 DEF CallInv, OwnAddition, OwnName, Adding, Calls, Entry
    <3>2. entries' = InsertAt(entries, index[m] + 1, e)
      BY <1>5, <2>2 DEF AddAt
    <3> HIDE DEF e
    <3>3. index[m] + 1 \in 1 .. Len(entries) + 1
      BY <2>2, <1>s
    <3> QED
      BY <2>1, <3>1, <3>2, <3>3, <1>s, InsertAtPositions, CallDone
  <2>3. CASE ~(index[m] <= Len(entries))
    BY <1>5, <2>1, <2>3, <1>s, CallDone DEF AddAt
  <2> QED
    BY <2>2, <2>3
<1>6. ASSUME NEW m \in Mutators, NEW c \in Calls, CallRemove(m, c)
      PROVE  CallInv'
  <2>1. /\ UNCHANGED <<entries, index, built, overtaken>>
        /\ call' = [call EXCEPT ![m] = c]
        /\ at' = [at EXCEPT ![m] = "search"]
    BY <1>6 DEF CallRemove, Goto
  <2>2. /\ index[m] \in Nat /\ index' = [index EXCEPT ![m] = index[m]]
        /\ "search" \in Points /\ "search" \notin Adding
    BY <2>1, <1>s DEF Points, Adding
  <2>3. UpToDate(m)'
    BY <2>1, <1>s DEF UpToDate
  <2> QED
    BY <2>1, <2>2, <2>3, <1>s, CallStep
<1>7. ASSUME NEW m \in Mutators, Search(m)
      PROVE  CallInv'
  <2>1. CASE Done(m)
    BY <1>7, <2>1, <1>s, CallDone DEF Search
  <2>2. CASE ~Done(m)
    <3>1. PICK j \in DOMAIN entries :
             /\ Asked(m, entries[j])
             /\ index' = [index EXCEPT ![m] = j - 1]
             /\ Goto(m, "erase")
             /\ UNCHANGED <<call, overtaken>>
      BY <1>7, <2>2 DEF Search, IsFirst
    <3>2. PICK p \in Points : p = "erase"
      BY DEF Points
    <3>3. PICK i \in Nat : i = j - 1
      BY <1>s
    <3>4. /\ UNCHANGED <<entries, call, built, overtaken>>
          /\ at' = [at EXCEPT ![m] = p] /\ index' = [index EXCEPT ![m] = i]
      BY <1>7, <3>1, <3>2, <3>3 DEF Search, Goto
    <3>5. UpToDate(m)'
      <4>1. call'[m] = call[m] /\ index'[m] + 1 = j /\ at'[m] = "erase" /\ entries' = entries
        BY <3>4, <3>2, <3>3, <1>s
      <4> QED
        BY <4>1, <3>1 DEF UpToDate, Asked
    <3>6. p \notin Adding
      BY <3>2 DEF Adding
    <3> QED
      BY <3>4, <3>5, <3>6, CallOn
  <2> QED
    BY <2>1, <2>2
<1>8. ASSUME NEW m \in Mutators, RemoveAtIndex(m)
      PROVE  CallInv'
  <2>1. Done(m) /\ UNCHANGED built
    BY <1>8 DEF RemoveAtIndex
  <2>2. CASE index[m] < Len(entries)
    <3>1. entries' = RemoveAt(entries, index[m] + 1) /\ index[m] + 1 \in 1 .. Len(entries)
      BY <1>8, <2>2, <1>s DEF RemoveAtIndex
    <3> QED
      BY <2>1, <3>1, <1>s, RemoveAtPositions, CallDone
  <2>3. CASE ~(index[m] < Len(entries))
    BY <1>8, <2>1, <2>3, <1>s, CallDone DEF RemoveAtIndex
  <2> QED
    BY <2>2, <2>3
<1>9. ASSUME NEW m \in Mutators, Clear(m)
      PROVE  CallInv'
  <2>1. PICK p \in Points : p = at[m]
    BY <1>s
  <2>2. PICK c \in Calls \cup {None} : c = call[m]
    BY <1>s
  <2>3. PICK i \in Nat : i = index[m]
    BY <1>s
  <2>4. /\ at' = [at EXCEPT ![m] = p] /\ call' = [call EXCEPT ![m] = c]
        /\ index' = [index EXCEPT ![m] = i]
        /\ Overtakes(m) /\ UNCHANGED built /\ p = "idle" /\ at'[m] = "idle"
    BY <1>9, <2>1, <2>2, <2>3, <1>s DEF Clear
  <2>5. entries' \in Seq(Entry)
    BY <1>9 DEF Clear
  <2>6. p \notin Adding /\ UpToDate(m)'
    BY <2>4 DEF Adding, UpToDate
  <2> QED
    BY <2>4, <2>5, <2>6, CallStep
<1>10. ASSUME UNCHANGED <<entries, call, at, index, overtaken>>,
              built' \in [Sessions -> {"none", "built", "threw"}]
       PROVE  CallInv'
  <2>1. TypeOK'
    BY <1>10, <1>t DEF TypeOK
  <2>2. OwnAddition'
    BY <1>10 DEF CallInv, OwnAddition, OwnName
  <2>3. \A m \in Mutators : UpToDate(m) => UpToDate(m)'
    BY <1>10 DEF UpToDate, Placed, HasName, Asked
  <2> QED
    BY <1>10, <2>1, <2>2, <2>3 DEF CallInv
<1>11. CASE Next
  <2>1. ASSUME NEW m \in Mutators, Mutate(m)
        PROVE  CallInv'
    BY <2>1, <1>1, <1>2, <1>3, <1>4, <1>5, <1>6, <1>7, <1>8, <1>9 DEF Mutate
  <2>2. ASSUME NEW s \in Sessions, BuildFilterChain(s)
        PROVE  CallInv'
    <3>1. built' \in [Sessions -> {"none", "built", "threw"}]
      BY <2>2, <1>t DEF BuildFilterChain, TypeOK
    <3> QED
      BY <2>2, <3>1, <1>10 DEF BuildFilterChain
  <2> QED
    BY <1>11, <2>1, <2>2 DEF Next
<1>12. CASE UNCHANGED vars
  BY <1>12, <1>10, <1>t DEF vars, TypeOK
<1> QED
  BY <1>11, <1>12

LEMMA CallInvHolds == Spec => []CallInv
BY InitCalls, CallNext, PTL DEF Spec

\* The variables of the builder keep their types, whoever edits it.
THEOREM BuilderTyped == Spec => []TypeOK
<1>1. CallInv => TypeOK
  BY DEF CallInv
<1> QED
  BY <1>1, CallInvHolds, PTL

\* What remove() takes out is what it was asked for, if no other call has changed the list
\* since it began: the index it has found stays the place of that entry.
THEOREM RemovalExact == Spec => RemovesWhatItFound
<1>1. ASSUME CallInv, NEW m \in Mutators, RemoveAtIndex(m), ~overtaken[m]
      PROVE  index[m] < Len(entries) /\ Asked(m, entries[index[m] + 1])
  <2>1. at[m] = "erase" /\ UpToDate(m)
    BY <1>1 DEF RemoveAtIndex, CallInv
  <2>2. index[m] + 1 \in DOMAIN entries /\ Asked(m, entries[index[m] + 1])
    BY <2>1 DEF UpToDate
  <2>3. DOMAIN entries = 1 .. Len(entries) /\ Len(entries) \in Nat /\ index[m] \in Nat
    BY <1>1, Shape DEF CallInv, TypeOK
  <2> QED
    BY <2>2, <2>3
<1>2. CallInv /\ [Next]_vars =>
        [\A m \in Mutators : RemoveAtIndex(m) /\ ~overtaken[m] =>
            index[m] < Len(entries) /\ Asked(m, entries[index[m] + 1])]_vars
  BY <1>1
<1> QED
  BY <1>2, CallInvHolds, PTL DEF Spec, RemovesWhatItFound

\* An addition comes to lie next to its base or at its end of the list, if no other call
\* has changed the list since it began.
THEOREM AdditionExact == Spec => AddsAsPromised
<1> DEFINE Promised(c) ==
        CASE c.op = "addFirst" -> List!AddFirst(c.name, c.filter)
          [] c.op = "addLast" -> List!AddLast(c.name, c.filter)
          [] c.op = "addBefore" -> List!AddBefore(c.base, c.name, c.filter)
          [] c.op = "addAfter" -> List!AddAfter(c.base, c.name, c.filter)
<1>1. ASSUME CallInv, NEW m \in Mutators, AddAt(m), ~overtaken[m]
      PROVE  Promised(call[m])
  <2> DEFINE c == call[m]
             e == [name |-> c.name, filter |-> c.filter]
  <2>1. at[m] = "insert" /\ Placed(m) /\ ~HasName(c.name)
    BY <1>1 DEF AddAt, CallInv, UpToDate
  <2>2. c.op \in {"addFirst", "addLast", "addBefore", "addAfter"}
    BY <1>1, <2>1 DEF CallInv, OwnAddition, OpAt, Adding
  <2>3. DOMAIN entries = 1 .. Len(entries) /\ Len(entries) \in Nat /\ index[m] \in Nat
    BY <1>1, Shape DEF CallInv, TypeOK
  <2>4. index[m] <= Len(entries) => entries' = List!Insert(entries, index[m] + 1, c.name, c.filter)
    BY <1>1 DEF AddAt, List!Insert, InsertAt, List!InsertAt
  <2>5. List!Named(entries, c.name) = {}
    BY <2>1 DEF List!Named, HasName
  <2> HIDE DEF c
  <2>6. CASE c.op = "addFirst"
    <3>1. index[m] = 0
      BY <2>1, <2>6 DEF Placed, c
    <3>2. List!AddFirst(c.name, c.filter)
      BY <2>3, <2>4, <2>5, <3>1 DEF List!AddFirst
    <3> QED
      BY <2>6, <3>2 DEF c
  <2>7. CASE c.op = "addLast"
    <3>1. index[m] = Len(entries)
      BY <2>1, <2>7 DEF Placed, c
    <3>2. List!AddLast(c.name, c.filter)
      BY <2>3, <2>4, <2>5, <3>1 DEF List!AddLast
    <3> QED
      BY <2>7, <3>2 DEF c
  <2>8. CASE c.op = "addBefore"
    <3>1. index[m] + 1 \in DOMAIN entries /\ entries[index[m] + 1].name = c.base
      BY <2>1, <2>8 DEF Placed, c
    <3>2. index[m] + 1 \in List!Named(entries, c.base) /\ index[m] <= Len(entries)
      BY <3>1, <2>3 DEF List!Named
    <3>3. List!AddBefore(c.base, c.name, c.filter)
      BY <2>4, <2>5, <3>2 DEF List!AddBefore
    <3> QED
      BY <2>8, <3>3 DEF c
  <2>9. CASE c.op = "addAfter"
    <3>1. index[m] \in DOMAIN entries /\ entries[index[m]].name = c.base
      BY <2>1, <2>9 DEF Placed, c
    <3>2. index[m] \in List!Named(entries, c.base) /\ index[m] <= Len(entries)
      BY <3>1, <2>3 DEF List!Named
    <3>3. List!AddAfter(c.base, c.name, c.filter)
      BY <2>4, <2>5, <3>2 DEF List!AddAfter
    <3> QED
      BY <2>9, <3>3 DEF c
  <2> QED
    BY <2>2, <2>6, <2>7, <2>8, <2>9 DEF c
<1>2. CallInv /\ [Next]_vars =>
        [\A m \in Mutators : AddAt(m) /\ ~overtaken[m] => Promised(call[m])]_vars
  BY <1>1
<1> QED
  BY <1>2, CallInvHolds, PTL DEF Spec, AddsAsPromised

-----------------------------------------------------------------------------
(***************************************************************************)
(* The builder is a sequence of filters, step by step.                     *)
(***************************************************************************)
LEMMA SequenceStep ==
    ASSUME OneAdder, BuilderInv, CallInv, [Next]_vars
    PROVE  List!Next \/ UNCHANGED entries
<1>s. /\ DOMAIN entries = 1 .. Len(entries) /\ Len(entries) \in Nat
      /\ \A i \in DOMAIN entries : entries[i] \in Entry
      /\ index \in [Mutators -> Nat]
  BY Shape DEF CallInv, TypeOK
<1>1. ASSUME NEW m \in Mutators, AddAt(m), index[m] <= Len(entries)
      PROVE  List!Next
  <2>1. PICK n \in Names, f \in Filters : n = call[m].name /\ f = call[m].filter
    BY <1>1 DEF AddAt, CallInv, OwnAddition, OwnName, Adding, Calls
  <2>2. PICK i \in Nat : i = index[m]
    BY <1>s
  <2>3. entries' = List!Insert(entries, i + 1, n, f)
    BY <1>1, <2>1, <2>2 DEF AddAt, List!Insert, InsertAt, List!InsertAt
  <2>4. List!Named(entries, n) = {}
    BY <1>1, <2>1 DEF AddAt, BuilderInv, NameFree, HasName, List!Named
  <2>5. CASE i = 0
    <3>1. List!AddFirst(n, f)
      BY <2>3, <2>4, <2>5 DEF List!AddFirst
    <3> QED
      BY <3>1 DEF List!Next
  <2>6. CASE i # 0
    <3>1. i \in DOMAIN entries
      BY <1>1, <1>s, <2>2, <2>6
    <3>2. PICK b \in Names : b = entries[i].name
      BY <3>1, <1>s DEF Entry
    <3>3. i \in List!Named(entries, b)
      BY <3>1, <3>2 DEF List!Named
    <3>4. List!AddAfter(b, n, f)
      BY <2>3, <2>4, <3>3 DEF List!AddAfter
    <3> QED
      BY <3>4 DEF List!Next
  <2> QED
    BY <2>5, <2>6
<1>2. ASSUME NEW m \in Mutators, RemoveAtIndex(m), index[m] < Len(entries)
      PROVE  List!Next
  <2>1. PICK i \in DOMAIN entries : i = index[m] + 1
    BY <1>2, <1>s
  <2>2. PICK n \in Names : n = entries[i].name
    BY <1>s DEF Entry
  <2>3. entries' = List!RemoveAt(entries, i) /\ i \in List!Named(entries, n)
    BY <1>2, <2>1, <2>2 DEF RemoveAtIndex, RemoveAt, List!RemoveAt, List!Named
  <2>4. List!RemoveName(n)
    BY <2>3 DEF List!RemoveName
  <2> QED
    BY <2>4 DEF List!Next
<1>3. ASSUME NEW m \in Mutators, Mutate(m)
      PROVE  List!Next \/ UNCHANGED entries
  <2>1. ASSUME NEW c \in Calls, CallAdd(m, c) \/ CallRemove(m, c)
        PROVE  UNCHANGED entries
    BY <2>1 DEF CallAdd, CallRemove
  <2>2. CASE CheckBaseName(m) \/ FindPlace(m) \/ CheckName(m) \/ Search(m)
    BY <2>2 DEF CheckBaseName, FindPlace, CheckName, Search
  <2>3. CASE AddAt(m)
    BY <2>3, <1>1 DEF AddAt
  <2>4. CASE RemoveAtIndex(m)
    BY <2>4, <1>2 DEF RemoveAtIndex
  <2>5. CASE Clear(m)
    BY <2>5 DEF Clear, List!Clear, List!Next
  <2> QED
    BY <1>3, <2>1, <2>2, <2>3, <2>4, <2>5 DEF Mutate
<1>4. ASSUME NEW s \in Sessions, BuildFilterChain(s)
      PROVE  UNCHANGED entries
  BY <1>4 DEF BuildFilterChain
<1>5. CASE UNCHANGED vars
  BY <1>5 DEF vars
<1> QED
  BY <1>3, <1>4, <1>5 DEF Next

\* However many threads edit the builder, what they do to it is a sequence of edits of a
\* FilterSequence, each of them one of its operations, if every name is added by one thread
\* at most: an index that is out of date inserts or removes at a place that some operation
\* of the sequence names.
THEOREM BuilderRefines ==
    ASSUME OneAdder
    PROVE  Spec => ImplementsSequence
<1>1. Init => List!Init
  BY DEF Init, List!Init
<1>2. BuilderInv /\ CallInv /\ [Next]_vars => [List!Next]_entries
  BY OneAdder, SequenceStep
<1>3. BuilderInv /\ [Next]_vars => BuilderInv'
  BY OneAdder, NextBuilder
<1>4. Spec => []BuilderInv
  BY <1>3, InitBuilder, PTL DEF Spec
<1> QED
  BY <1>1, <1>2, <1>4, CallInvHolds, PTL DEF Spec, ImplementsSequence, List!Spec
=============================================================================
