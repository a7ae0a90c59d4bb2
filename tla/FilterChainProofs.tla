-------------------------- MODULE FilterChainProofs --------------------------
(***************************************************************************)
(* Theorems of FilterChain: the list, the map and the events under way are *)
(* consistent for any number of names, filters, entries and nested events. *)
(***************************************************************************)
EXTENDS FilterChain, DataLemmas

(***************************************************************************)
(* The inductive invariant: some numbering of the entries orders the list. *)
(***************************************************************************)
Chained == TypeOK /\ LinksAgree /\ MapMatchesList

Ordered == \E rank \in [Nodes -> Int] : InOrder(rank)

ChainInv == Chained /\ FramesNest /\ NoEntryTwice /\ Ordered

\* The frames of the events under way, one by one.
LEMMA Frames ==
    ASSUME TypeOK
    PROVE  /\ Len(stack) \in Nat /\ DOMAIN stack = 1 .. Len(stack)
           /\ \A i \in DOMAIN stack : /\ stack[i] \in [entry : Nodes, event : 1 .. MaxEvents]
                                      /\ stack[i].entry \in Nodes
                                      /\ stack[i].event \in 1 .. MaxEvents
           /\ DOMAIN present = 1 .. MaxEvents
<1> DEFINE Frame == [entry : Nodes, event : 1 .. MaxEvents]
<1>1. stack \in Seq(Frame)
  BY DEF TypeOK
<1>2. Len(stack) \in Nat /\ DOMAIN stack = 1 .. Len(stack)
  BY <1>1
<1>3. \A i \in DOMAIN stack : stack[i] \in Frame
  <2> HIDE DEF Frame
  <2> QED
    BY <1>1, <1>2, ElementOfSeq
<1>4. \A i \in DOMAIN stack : stack[i].entry \in Nodes /\ stack[i].event \in 1 .. MaxEvents
  BY <1>3
<1>5. DOMAIN present = 1 .. MaxEvents
  BY DEF TypeOK
<1> QED
  BY <1>2, <1>3, <1>4, <1>5

LEMMA InitInv == Init => ChainInv
<1> SUFFICES ASSUME Init PROVE ChainInv
  OBVIOUS
<1> USE ChainAssumption
<1>1. TypeOK
  <2>1. /\ next \in [Nodes -> Nodes \cup {Null}]
        /\ prev \in [Nodes -> Nodes \cup {Null}]
    BY DEF Init, Nodes
  <2>2. /\ stack \in Seq([entry : Nodes, event : 1 .. MaxEvents])
        /\ present \in [1 .. MaxEvents -> SUBSET Cells]
    BY DEF Init
  <2>3. /\ name \in [Cells -> Names \cup {Null}]
        /\ filter \in [Cells -> Filters \cup {Null}]
        /\ name2entry \in [Names -> Cells \cup {Null}]
        /\ unused \subseteq Cells
        /\ live \subseteq Cells \ unused
        /\ clearing \in BOOLEAN
    BY DEF Init
  <2> QED
    BY <2>1, <2>2, <2>3 DEF TypeOK
<1>2. LinksAgree /\ MapMatchesList
  BY DEF Init, LinksAgree, MapMatchesList, Nodes
<1>3. FramesNest /\ NoEntryTwice
  BY DEF Init, FramesNest, NoEntryTwice
<1>4. Ordered
  <2> DEFINE r == [e \in Nodes |-> IF e = tail THEN 1 ELSE 0]
  <2>1. r \in [Nodes -> Int]
    OBVIOUS
  <2>2. Rising(r)
    BY DEF Init, Rising, Nodes, InChain
  <2>3. FramesRise(r) /\ PassedVisited(r)
    BY DEF Init, FramesRise, PassedVisited
  <2> QED
    BY <2>1, <2>2, <2>3 DEF Ordered, InOrder
<1> QED
  BY <1>1, <1>2, <1>3, <1>4 DEF ChainInv, Chained

-----------------------------------------------------------------------------
(* register_ *)

\* What an insertion behind p does, entry by entry.
LEMMA RegisterEffect ==
    ASSUME Chained, NEW p \in live \cup {head}, NEW n \in Names, NEW f \in Filters,
           Register(p, n, f)
    PROVE  \E e \in unused :
            /\ e \in Cells /\ e \notin live /\ e # p /\ next[p] \in live \cup {tail}
            /\ e # next[p]
            /\ next' \in [Nodes -> Nodes \cup {Null}]
            /\ prev' \in [Nodes -> Nodes \cup {Null}]
            /\ \A x \in Nodes : next'[x] = IF x = p THEN e ELSE IF x = e THEN next[p] ELSE next[x]
            /\ \A x \in Nodes : prev'[x] = IF x = next[p] THEN e ELSE IF x = e THEN p ELSE prev[x]
            /\ unused' = unused \ {e} /\ live' = live \cup {e}
            /\ name' = [name EXCEPT ![e] = n]
            /\ filter' = [filter EXCEPT ![e] = f]
            /\ name2entry' = [name2entry EXCEPT ![n] = e]
            /\ stack' = stack /\ present' = present /\ clearing' = clearing
<1>1. PICK e \in unused :
        /\ next' = [next EXCEPT ![e] = next[p], ![p] = e]
        /\ prev' = [prev EXCEPT ![e] = p, ![next[p]] = e]
        /\ name' = [name EXCEPT ![e] = n]
        /\ filter' = [filter EXCEPT ![e] = f]
        /\ name2entry' = [name2entry EXCEPT ![n] = e]
        /\ unused' = unused \ {e}
        /\ live' = live \cup {e}
        /\ UNCHANGED <<calls, clearing>>
  BY DEF Register
<1>2. /\ e \in Cells /\ e \notin live /\ e \in Nodes /\ p \in Nodes /\ e # p
      /\ next[p] \in live \cup {tail} /\ next[p] \in Nodes /\ e # next[p]
  BY ChainAssumption DEF Chained, TypeOK, LinksAgree, Nodes
<1>4. next \in [Nodes -> Nodes \cup {Null}] /\ prev \in [Nodes -> Nodes \cup {Null}]
  BY DEF Chained, TypeOK
<1>5. /\ next' \in [Nodes -> Nodes \cup {Null}]
      /\ \A x \in Nodes : next'[x] = IF x = p THEN e ELSE IF x = e THEN next[p] ELSE next[x]
  BY <1>1, <1>2, <1>4
<1>6. /\ prev' \in [Nodes -> Nodes \cup {Null}]
      /\ \A x \in Nodes : prev'[x] = IF x = next[p] THEN e ELSE IF x = e THEN p ELSE prev[x]
  BY <1>1, <1>2, <1>4
<1> QED
  BY <1>1, <1>2, <1>5, <1>6 DEF calls

LEMMA RegisterChained ==
    ASSUME Chained, NEW p \in live \cup {head}, NEW n \in Names, NEW f \in Filters,
           Addable(n), Register(p, n, f)
    PROVE  Chained'
<1>1. PICK e \in unused :
            /\ e \in Cells /\ e \notin live /\ e # p /\ next[p] \in live \cup {tail}
            /\ e # next[p]
            /\ next' \in [Nodes -> Nodes \cup {Null}]
            /\ prev' \in [Nodes -> Nodes \cup {Null}]
            /\ \A x \in Nodes : next'[x] = IF x = p THEN e ELSE IF x = e THEN next[p] ELSE next[x]
            /\ \A x \in Nodes : prev'[x] = IF x = next[p] THEN e ELSE IF x = e THEN p ELSE prev[x]
            /\ unused' = unused \ {e} /\ live' = live \cup {e}
            /\ name' = [name EXCEPT ![e] = n]
            /\ filter' = [filter EXCEPT ![e] = f]
            /\ name2entry' = [name2entry EXCEPT ![n] = e]
            /\ stack' = stack /\ present' = present /\ clearing' = clearing
  BY RegisterEffect
<1>2. TypeOK'
  <2>1. /\ name' \in [Cells -> Names \cup {Null}]
        /\ filter' \in [Cells -> Filters \cup {Null}]
        /\ name2entry' \in [Names -> Cells \cup {Null}]
    BY <1>1 DEF Chained, TypeOK
  <2>2. unused' \subseteq Cells /\ live' \subseteq Cells \ unused'
    BY <1>1 DEF Chained, TypeOK
  <2>3. /\ stack' \in Seq([entry : Nodes, event : 1 .. MaxEvents])
        /\ present' \in [1 .. MaxEvents -> SUBSET Cells]
        /\ clearing' \in BOOLEAN
    BY <1>1 DEF Chained, TypeOK
  <2> QED
    BY <1>1, <2>1, <2>2, <2>3 DEF TypeOK
<1>3. LinksAgree'
  <2>1. live \subseteq Cells /\ e \in Nodes /\ head \in Nodes /\ tail \in Nodes /\ live \subseteq Nodes
    BY <1>1 DEF Chained, TypeOK, Nodes
  <2>2. prev'[head] = Null /\ next'[tail] = Null
    BY <1>1, <2>1, ChainAssumption DEF Chained, LinksAgree
  <2>3. ASSUME NEW x \in live \cup {e, head}
        PROVE  next'[x] \in live \cup {e, tail} /\ prev'[next'[x]] = x
    <3>1. CASE x = p
      BY <3>1, <1>1, <2>1
    <3>2. CASE x = e
      BY <3>2, <1>1, <2>1
    <3>3. CASE x # p /\ x # e
      <4>1. /\ next[x] \in live \cup {tail} /\ prev[next[x]] = x
            /\ prev[next[p]] = p
        BY <3>3, <2>1 DEF Chained, LinksAgree
      <4>2. next[x] # next[p] /\ next[x] # e
        BY <4>1, <3>3, <1>1, <2>1, ChainAssumption
      <4> QED
        BY <4>1, <4>2, <3>3, <1>1, <2>1
    <3> QED
      BY <3>1, <3>2, <3>3
  <2>4. ASSUME NEW x \in live \cup {e, tail}
        PROVE  prev'[x] \in live \cup {e, head} /\ next'[prev'[x]] = x
    <3>1. CASE x = next[p]
      BY <3>1, <1>1, <2>1
    <3>2. CASE x = e
      BY <3>2, <1>1, <2>1
    <3>3. CASE x # next[p] /\ x # e
      <4>1. prev[x] \in live \cup {head} /\ next[prev[x]] = x
        BY <3>3, <2>1 DEF Chained, LinksAgree
      <4>2. prev[x] # p /\ prev[x] # e
        BY <4>1, <3>3, <1>1, <2>1, ChainAssumption
      <4> QED
        BY <4>1, <4>2, <3>3, <1>1, <2>1
    <3> QED
      BY <3>1, <3>2, <3>3
  <2> QED
    BY <2>2, <2>3, <2>4, <1>1 DEF LinksAgree
<1>4. MapMatchesList'
  <2>1. \A m \in Names : name2entry'[m] = IF m = n THEN e ELSE name2entry[m]
    BY <1>1 DEF Chained, TypeOK
  <2>2. \A x \in Cells : name'[x] = IF x = e THEN n ELSE name[x]
    BY <1>1 DEF Chained, TypeOK
  <2>3. name2entry[n] = Null /\ e # Null /\ live \subseteq Cells
    BY <1>1, ChainAssumption DEF Addable, Chained, TypeOK
  <2>4. ASSUME NEW m \in Names, name2entry'[m] # Null
        PROVE  name2entry'[m] \in live' /\ name'[name2entry'[m]] = m
    BY <2>4, <2>1, <2>2, <2>3, <1>1 DEF Chained, MapMatchesList
  <2>5. ASSUME NEW x \in live'
        PROVE  name'[x] \in Names /\ name2entry'[name'[x]] = x
    <3>1. CASE x = e
      BY <3>1, <2>1, <2>2, <1>1
    <3>2. CASE x # e
      BY <3>2, <2>1, <2>2, <2>3, <1>1, ChainAssumption DEF Chained, MapMatchesList
    <3> QED
      BY <3>1, <3>2
  <2> QED
    BY <2>4, <2>5 DEF MapMatchesList
<1> QED
  BY <1>2, <1>3, <1>4 DEF Chained

\* The numbering after an insertion: the entries behind p move up by one.
LEMMA RegisterOrdered ==
    ASSUME ChainInv, NEW p \in live \cup {head}, NEW n \in Names, NEW f \in Filters,
           Register(p, n, f)
    PROVE  Ordered' /\ FramesNest' /\ NoEntryTwice'
<1> USE DEF ChainInv
<1>1. PICK e \in unused :
            /\ e \in Cells /\ e \notin live /\ e # p /\ next[p] \in live \cup {tail}
            /\ \A x \in Nodes : next'[x] = IF x = p THEN e ELSE IF x = e THEN next[p] ELSE next[x]
            /\ unused' = unused \ {e} /\ live' = live \cup {e}
            /\ stack' = stack /\ present' = present
  BY RegisterEffect
<1>2. PICK rank \in [Nodes -> Int] : InOrder(rank)
  BY DEF Ordered
<1>3. /\ live \subseteq Cells /\ live \subseteq Nodes /\ head \in Nodes /\ tail \in Nodes
      /\ e \in Nodes /\ p \in Nodes /\ next[p] \in Nodes /\ tail \notin live /\ head \notin live
      /\ p # tail /\ e # head /\ e # tail /\ head # tail
  BY <1>1, ChainAssumption DEF Chained, TypeOK, Nodes
<1>4. \A i \in DOMAIN stack : stack[i].entry \in Nodes /\ stack[i].entry # e
  BY <1>1, Frames DEF FramesNest, Chained
<1>5. \A i \in DOMAIN stack : stack[i].entry \in InChain' <=> stack[i].entry \in InChain
  BY <1>1, <1>4 DEF InChain
<1> DEFINE r == [x \in Nodes |-> IF x = e THEN rank[p] + 1
                                 ELSE IF rank[x] > rank[p] THEN rank[x] + 1 ELSE rank[x]]
<1>6. r \in [Nodes -> Int]
  BY <1>2, <1>3
<1>7. \A x, y \in Nodes : x # e /\ y # e => (r[x] < r[y] <=> rank[x] < rank[y])
  BY <1>2, <1>3
<1>8. r[e] = rank[p] + 1 /\ \A x \in Nodes : x # e => r[x] = IF rank[x] > rank[p] THEN rank[x] + 1 ELSE rank[x]
  BY <1>3
<1> HIDE DEF r
<1>9. Rising(r)'
  <2>1. \A x \in live : next[x] \in live \cup {tail} /\ next[x] \in Nodes
    BY <1>3 DEF Chained, LinksAgree
  <2>2. ASSUME NEW x \in live' PROVE r[head] < r[x] /\ r[x] < r[tail]
    <3>1. CASE x = e
      <4>1. rank[head] <= rank[p] /\ rank[p] < rank[tail]
        BY <1>2, <1>3 DEF InOrder, Rising, Chained, LinksAgree
      <4> QED
        BY <4>1, <3>1, <1>8, <1>3, <1>2
    <3>2. CASE x # e
      BY <3>2, <1>1, <1>2, <1>3, <1>7 DEF InOrder, Rising
    <3> QED
      BY <3>1, <3>2
  <2>3. ASSUME NEW x \in live' \cup {head} PROVE r[x] < r[next'[x]]
    <3>1. CASE x = p
      BY <3>1, <1>1, <1>3, <1>8, <1>2
    <3>2. CASE x = e
      <4>1. rank[p] < rank[next[p]]
        BY <1>2 DEF InOrder, Rising
      <4> QED
        BY <3>2, <4>1, <1>1, <1>3, <1>8, <1>2
    <3>3. CASE x # p /\ x # e
      <4>1. rank[x] < rank[next[x]] /\ next[x] \in Nodes /\ next[x] # e /\ next'[x] = next[x]
        BY <3>3, <1>1, <1>2, <1>3, <2>1 DEF InOrder, Rising, Chained, LinksAgree
      <4> QED
        BY <4>1, <3>3, <1>1, <1>3, <1>7
    <3> QED
      BY <3>1, <3>2, <3>3
  <2>4. ASSUME NEW x \in InChain', NEW y \in InChain', r[x] = r[y]
        PROVE  x = y
    <3>1. \A z \in Nodes : z # e => r[z] # r[e]
      BY <1>8, <1>3, <1>2
    <3>2. CASE x = e \/ y = e
      BY <3>1, <3>2, <2>4, <1>1, <1>3 DEF InChain
    <3>3. CASE x # e /\ y # e
      <4>1. x \in InChain /\ y \in InChain /\ x \in Nodes /\ y \in Nodes
        BY <3>3, <1>1, <1>3 DEF InChain
      <4>2. rank[x] = rank[y]
        BY <4>1, <3>3, <2>4, <1>8, <1>2, <1>3
      <4> QED
        BY <4>1, <4>2, <1>2 DEF InOrder, Rising
    <3> QED
      BY <3>2, <3>3
  <2>5. ASSUME NEW x \in live' \cup {head}, NEW y \in InChain', r[x] < r[y]
        PROVE  r[next'[x]] <= r[y]
    <3>1. y \in Nodes /\ (y # e => y \in InChain) /\ x \in Nodes
      BY <1>1, <1>3 DEF InChain
    <3>2. CASE x = p
      <4>1. next'[x] = e
        BY <3>2, <1>1, <1>3
      <4>2. CASE y = e
        BY <4>1, <4>2, <1>8, <1>2, <1>3
      <4>3. CASE y # e
        BY <4>1, <4>3, <3>1, <3>2, <2>5, <1>8, <1>2, <1>3
      <4> QED
        BY <4>2, <4>3
    <3>3. CASE x = e
      <4>1. next'[x] = next[p] /\ y # e /\ next[p] # e
        BY <3>3, <1>1, <1>3, <2>5, <1>6
      <4>2. rank[p] < rank[y] /\ rank[p] < rank[next[p]]
        BY <4>1, <3>1, <3>3, <2>5, <1>8, <1>2, <1>3 DEF InOrder, Rising
      <4>3. rank[next[p]] <= rank[y]
        BY <4>1, <4>2, <3>1, <1>2 DEF InOrder, Rising
      <4> QED
        BY <4>1, <4>2, <4>3, <3>1, <1>8, <1>2, <1>3
    <3>4. CASE x # p /\ x # e
      <4>1. /\ next'[x] = next[x] /\ next[x] \in Nodes /\ next[x] # e
            /\ x \in live \cup {head} /\ next[x] \in live \cup {tail}
        BY <3>4, <1>1, <1>3, <2>1 DEF Chained, LinksAgree
      <4>2. CASE y # e
        <5>1. rank[x] < rank[y]
          BY <4>2, <3>1, <3>4, <2>5, <1>7
        <5>2. rank[next[x]] <= rank[y]
          BY <5>1, <4>1, <4>2, <3>1, <1>2 DEF InOrder, Rising
        <5> QED
          BY <5>2, <4>1, <4>2, <3>1, <1>8, <1>2, <1>3
      <4>3. CASE y = e
        <5>1. rank[x] <= rank[p]
          BY <4>3, <3>1, <3>4, <2>5, <1>8, <1>2, <1>3
        <5>2. rank[x] # rank[p]
          BY <3>4, <4>1, <1>2 DEF InOrder, Rising, InChain
        <5>3. rank[next[x]] <= rank[p]
          BY <5>1, <5>2, <4>1, <3>1, <1>2, <1>3 DEF InOrder, Rising, InChain
        <5> QED
          BY <5>3, <4>1, <4>3, <1>8, <1>2, <1>3
      <4> QED
        BY <4>2, <4>3
    <3> QED
      BY <3>2, <3>3, <3>4
  <2> QED
    BY <2>2, <2>3, <2>4, <2>5 DEF Rising
<1>10. FramesRise(r)'
  BY <1>1, <1>2, <1>4, <1>5, <1>7 DEF InOrder, FramesRise
<1>11. PassedVisited(r)'
  <2> SUFFICES ASSUME NEW i \in DOMAIN stack, stack[i].entry \in InChain,
                      NEW x \in present[stack[i].event], x \in live',
                      r[x] < r[stack[i].entry]
               PROVE  \E k \in 1 .. i : stack[k].entry = x /\ stack[k].event = stack[i].event
    BY <1>1, <1>5 DEF PassedVisited
  <2>1. stack[i].event \in DOMAIN present
    BY Frames DEF Chained
  <2>2. x # e /\ x \in live
    BY <2>1, <1>1 DEF FramesNest
  <2>3. rank[x] < rank[stack[i].entry]
    BY <2>2, <1>3, <1>4, <1>7
  <2> QED
    BY <2>2, <2>3, <1>2 DEF InOrder, PassedVisited
<1>12. FramesNest' /\ NoEntryTwice'
  BY <1>1 DEF FramesNest, NoEntryTwice
<1> QED
  BY <1>6, <1>9, <1>10, <1>11, <1>12 DEF Ordered, InOrder

-----------------------------------------------------------------------------
(* deregister *)

\* The neighbours of an entry that is removed: neither is the entry itself.
LEMMA Neighbours ==
    ASSUME ChainInv, NEW e \in live
    PROVE  /\ prev[e] \in live \cup {head} /\ next[prev[e]] = e /\ prev[e] # e
           /\ next[e] \in live \cup {tail} /\ prev[next[e]] = e /\ next[e] # e
<1>1. PICK rank \in [Nodes -> Int] : InOrder(rank)
  BY DEF ChainInv, Ordered
<1>2. /\ prev[e] \in live \cup {head} /\ next[prev[e]] = e
      /\ next[e] \in live \cup {tail} /\ prev[next[e]] = e
  BY DEF ChainInv, Chained, LinksAgree
<1>3. live \subseteq Nodes /\ head \in Nodes /\ tail \in Nodes
  BY DEF ChainInv, Chained, TypeOK, Nodes
<1>4. rank[e] < rank[next[e]] /\ rank[prev[e]] < rank[e]
  BY <1>1, <1>2, <1>3 DEF InOrder, Rising
<1> QED
  BY <1>1, <1>2, <1>3, <1>4

LEMMA DeregisterEffect ==
    ASSUME ChainInv, NEW e \in live, Deregister(e)
    PROVE  /\ next' \in [Nodes -> Nodes \cup {Null}]
           /\ prev' \in [Nodes -> Nodes \cup {Null}]
           /\ \A x \in Nodes : next'[x] = IF x = e THEN Null
                                          ELSE IF x = prev[e] THEN next[e] ELSE next[x]
           /\ \A x \in Nodes : prev'[x] = IF x = e THEN Null
                                          ELSE IF x = next[e] THEN prev[e] ELSE prev[x]
           /\ live' = live \ {e} /\ unused' = unused
           /\ name' = [name EXCEPT ![e] = Null]
           /\ filter' = [filter EXCEPT ![e] = Null]
           /\ name2entry' = [name2entry EXCEPT ![name[e]] = Null]
           /\ stack' = stack /\ present' = present
<1>1. /\ e \in Nodes /\ prev[e] \in Nodes /\ next[e] \in Nodes
      /\ prev[e] # e /\ next[e] # e
  BY Neighbours DEF ChainInv, Chained, TypeOK, Nodes
<1>2. next \in [Nodes -> Nodes \cup {Null}] /\ prev \in [Nodes -> Nodes \cup {Null}]
  BY DEF ChainInv, Chained, TypeOK
<1>3. /\ next' = [next EXCEPT ![prev[e]] = next[e], ![e] = Null]
      /\ prev' = [prev EXCEPT ![next[e]] = prev[e], ![e] = Null]
  BY DEF Deregister
<1>4. /\ next' \in [Nodes -> Nodes \cup {Null}]
      /\ \A x \in Nodes : next'[x] = IF x = e THEN Null
                                     ELSE IF x = prev[e] THEN next[e] ELSE next[x]
  BY <1>1, <1>2, <1>3
<1>5. /\ prev' \in [Nodes -> Nodes \cup {Null}]
      /\ \A x \in Nodes : prev'[x] = IF x = e THEN Null
                                     ELSE IF x = next[e] THEN prev[e] ELSE prev[x]
  BY <1>1, <1>2, <1>3
<1> QED
  BY <1>4, <1>5 DEF Deregister, calls

LEMMA DeregisterChained ==
    ASSUME ChainInv, NEW e \in live, Deregister(e), clearing' \in BOOLEAN
    PROVE  Chained'
<1>1. live \subseteq Cells /\ live \subseteq Nodes /\ head \in Nodes /\ tail \in Nodes
  BY DEF ChainInv, Chained, TypeOK, Nodes
<1>2. TypeOK'
  <2>1. /\ name' \in [Cells -> Names \cup {Null}]
        /\ filter' \in [Cells -> Filters \cup {Null}]
        /\ name2entry' \in [Names -> Cells \cup {Null}]
    BY DeregisterEffect, ZenonT(40) DEF ChainInv, Chained, TypeOK
  <2>2. unused' \subseteq Cells /\ live' \subseteq Cells \ unused'
    BY DeregisterEffect DEF ChainInv, Chained, TypeOK
  <2>3. /\ stack' \in Seq([entry : Nodes, event : 1 .. MaxEvents])
        /\ present' \in [1 .. MaxEvents -> SUBSET Cells]
    BY DeregisterEffect DEF ChainInv, Chained, TypeOK
  <2> QED
    BY DeregisterEffect, <2>1, <2>2, <2>3 DEF TypeOK
<1>3. LinksAgree'
  <2>1. prev'[head] = Null /\ next'[tail] = Null
    BY DeregisterEffect, Neighbours, <1>1, ChainAssumption DEF ChainInv, Chained, LinksAgree
  <2>2. ASSUME NEW x \in (live \ {e}) \cup {head}
        PROVE  next'[x] \in (live \ {e}) \cup {tail} /\ prev'[next'[x]] = x
    <3>1. x # e /\ x \in Nodes /\ e \notin {head, tail}
      BY <1>1, ChainAssumption
    <3>2. CASE x = prev[e]
      BY <3>1, <3>2, <1>1, DeregisterEffect, Neighbours
    <3>3. CASE x # prev[e]
      <4>1. next[x] \in live \cup {tail} /\ prev[next[x]] = x
        BY DEF ChainInv, Chained, LinksAgree
      <4>2. next[x] # e /\ next[x] # next[e]
        BY <4>1, <3>1, <3>3, Neighbours
      <4> QED
        BY <4>1, <4>2, <3>1, <3>3, <1>1, DeregisterEffect
    <3> QED
      BY <3>2, <3>3
  <2>3. ASSUME NEW x \in (live \ {e}) \cup {tail}
        PROVE  prev'[x] \in (live \ {e}) \cup {head} /\ next'[prev'[x]] = x
    <3>1. x # e /\ x \in Nodes /\ e \notin {head, tail}
      BY <1>1, ChainAssumption
    <3>2. CASE x = next[e]
      BY <3>1, <3>2, <1>1, DeregisterEffect, Neighbours
    <3>3. CASE x # next[e]
      <4>1. prev[x] \in live \cup {head} /\ next[prev[x]] = x
        BY DEF ChainInv, Chained, LinksAgree
      <4>2. prev[x] # e /\ prev[x] # prev[e]
        BY <4>1, <3>1, <3>3, Neighbours
      <4> QED
        BY <4>1, <4>2, <3>1, <3>3, <1>1, DeregisterEffect
    <3> QED
      BY <3>2, <3>3
  <2> QED
    BY <2>1, <2>2, <2>3, DeregisterEffect DEF LinksAgree
<1>4. MapMatchesList'
  <2>1. name[e] \in Names /\ name2entry[name[e]] = e
    BY DEF ChainInv, Chained, MapMatchesList
  <2>2. \A m \in Names : name2entry'[m] = IF m = name[e] THEN Null ELSE name2entry[m]
    BY <2>1, DeregisterEffect DEF ChainInv, Chained, TypeOK
  <2>3. \A x \in Cells : name'[x] = IF x = e THEN Null ELSE name[x]
    BY DeregisterEffect DEF ChainInv, Chained, TypeOK
  <2>4. live' = live \ {e}
    BY DeregisterEffect
  <2>5. ASSUME NEW m \in Names, name2entry'[m] # Null
        PROVE  name2entry'[m] \in live' /\ name'[name2entry'[m]] = m
    <3>1. /\ m # name[e] /\ name2entry'[m] = name2entry[m]
          /\ name2entry[m] \in live /\ name[name2entry[m]] = m
      BY <2>5, <2>2 DEF ChainInv, Chained, MapMatchesList
    <3> QED
      BY <3>1, <2>3, <2>4, <1>1
  <2>6. ASSUME NEW x \in live'
        PROVE  name'[x] \in Names /\ name2entry'[name'[x]] = x
    <3>1. x # e /\ x \in live /\ name'[x] = name[x]
      BY <2>3, <2>4, <1>1
    <3>2. name[x] \in Names /\ name2entry[name[x]] = x
      BY <3>1 DEF ChainInv, Chained, MapMatchesList
    <3> QED
      BY <3>1, <3>2, <2>1, <2>2
  <2> QED
    BY <2>5, <2>6 DEF MapMatchesList
<1> QED
  BY <1>2, <1>3, <1>4 DEF Chained

\* A removal leaves the numbering as it is.
LEMMA DeregisterOrdered ==
    ASSUME ChainInv, NEW e \in live, Deregister(e)
    PROVE  Ordered' /\ FramesNest' /\ NoEntryTwice'
<1>1. PICK rank \in [Nodes -> Int] : InOrder(rank)
  BY DEF ChainInv, Ordered
<1>2. /\ live' = live \ {e} /\ unused' = unused /\ stack' = stack /\ present' = present
      /\ InChain' = InChain \ {e} /\ InChain \subseteq Nodes /\ InChain = live \cup {head, tail}
      /\ e \notin {head, tail} /\ live \subseteq Nodes
  BY DeregisterEffect, ChainAssumption DEF InChain, ChainInv, Chained, TypeOK, Nodes
<1>3. Rising(rank)'
  <2>1. /\ \A x \in live' : rank[head] < rank[x] /\ rank[x] < rank[tail]
        /\ \A d, x \in InChain' : rank[d] = rank[x] => d = x
    BY <1>1, <1>2 DEF InOrder, Rising
  <2>2. ASSUME NEW x \in live' \cup {head}
        PROVE  /\ rank[x] < rank[next'[x]]
               /\ \A d \in InChain' : rank[x] < rank[d] => rank[next'[x]] <= rank[d]
    <3>1. x \in live \cup {head} /\ x # e /\ x \in Nodes
      BY <1>2, ChainAssumption DEF Nodes
    <3>2. CASE x # prev[e]
      <4>1. next'[x] = next[x]
        BY <3>1, <3>2, DeregisterEffect
      <4> QED
        BY <4>1, <3>1, <1>1, <1>2 DEF InOrder, Rising
    <3>3. CASE x = prev[e]
      <4>1. next'[x] = next[e] /\ next[x] = e /\ next[e] \in InChain
        BY <3>1, <3>3, DeregisterEffect, Neighbours DEF InChain
      <4>2. rank[x] < rank[e] /\ rank[e] < rank[next[e]]
        BY <4>1, <3>1, <1>1 DEF InOrder, Rising
      <4>3. ASSUME NEW d \in InChain', rank[x] < rank[d]
            PROVE  rank[next[e]] <= rank[d]
        <5>1. rank[e] <= rank[d] /\ rank[e] # rank[d]
          BY <4>1, <4>3, <3>1, <1>1, <1>2 DEF InOrder, Rising
        <5> QED
          BY <5>1, <1>1, <1>2 DEF InOrder, Rising
      <4> QED
        BY <4>1, <4>2, <4>3, <1>1, <1>2, <3>1
    <3> QED
      BY <3>2, <3>3
  <2> QED
    BY <2>1, <2>2 DEF Rising
<1>4. FramesRise(rank)'
  BY <1>1, <1>2 DEF InOrder, FramesRise
<1>5. PassedVisited(rank)'
  BY <1>1, <1>2 DEF InOrder, PassedVisited
<1>6. FramesNest' /\ NoEntryTwice'
  BY <1>2 DEF ChainInv, FramesNest, NoEntryTwice
<1> QED
  BY <1>1, <1>3, <1>4, <1>5, <1>6 DEF Ordered, InOrder

-----------------------------------------------------------------------------
(* Events *)

LEMMA TopFrame ==
    ASSUME TypeOK, stack # <<>>
    PROVE  /\ Len(stack) \in 1 .. Len(stack) /\ Len(stack) >= 1
           /\ Top.entry \in Nodes /\ Top.event \in 1 .. MaxEvents
<1>1. Len(stack) # 0
  BY DEF TypeOK
<1> QED
  BY <1>1, Frames DEF Top

LEMMA PushFrame ==
    ASSUME TypeOK, NEW c \in Nodes, NEW v \in 1 .. MaxEvents,
           stack' = Append(stack, [entry |-> c, event |-> v])
    PROVE  /\ stack' \in Seq([entry : Nodes, event : 1 .. MaxEvents])
           /\ Len(stack') = Len(stack) + 1
           /\ DOMAIN stack' = 1 .. Len(stack) + 1
           /\ \A i \in 1 .. Len(stack) : stack'[i] = stack[i]
           /\ stack'[Len(stack) + 1].entry = c
           /\ stack'[Len(stack) + 1].event = v
<1> DEFINE Frame == [entry : Nodes, event : 1 .. MaxEvents]
<1> DEFINE fr == [entry |-> c, event |-> v]
<1>1. fr \in Frame /\ fr.entry = c /\ fr.event = v
  OBVIOUS
<1>2. stack \in Seq(Frame) /\ stack' = Append(stack, fr)
  BY DEF TypeOK
<1> HIDE DEF Frame, fr
<1>3. /\ stack' \in Seq(Frame)
      /\ Len(stack') = Len(stack) + 1
      /\ \A i \in 1 .. Len(stack) : stack'[i] = stack[i]
      /\ stack'[Len(stack) + 1] = fr
  BY <1>1, <1>2, AppendProperties
<1>4. DOMAIN stack' = 1 .. Len(stack) + 1
  BY <1>3
<1> QED
  BY <1>1, <1>3, <1>4 DEF Frame

\* An event is pushed with a number above all those under way.
LEMMA FireInv == ASSUME ChainInv, Fire PROVE ChainInv'
<1> DEFINE L == Len(stack)
           v == IF stack = <<>> THEN 1 ELSE Top.event + 1
<1>1. v \in 1 .. MaxEvents
  <2>1. CASE stack = <<>>
    BY <2>1, ChainAssumption DEF Fire
  <2>2. CASE stack # <<>>
    BY <2>2, TopFrame, ChainAssumption DEF Fire, ChainInv, Chained
  <2> QED
    BY <2>1, <2>2
<1>2. /\ stack' = Append(stack, [entry |-> head, event |-> v])
      /\ present' = [present EXCEPT ![v] = live]
      /\ UNCHANGED <<links, entries, clearing>>
  BY DEF Fire
<1>3. head \in Nodes /\ head \notin unused /\ live \cap unused = {} /\ live \subseteq Cells
  BY ChainAssumption DEF ChainInv, Chained, TypeOK, Nodes
<1>4. /\ L \in Nat /\ DOMAIN stack = 1 .. L /\ DOMAIN present = 1 .. MaxEvents
      /\ \A i \in 1 .. L : stack[i].event \in 1 .. MaxEvents
  BY Frames DEF ChainInv, Chained
<1>5. \A i \in 1 .. L : stack[i].event < v
  <2> SUFFICES ASSUME NEW i \in 1 .. L PROVE stack[i].event < v
    OBVIOUS
  <2>1. stack # <<>> /\ Top.event \in 1 .. MaxEvents
    BY TopFrame, <1>4 DEF ChainInv, Chained
  <2>2. stack[i].event <= Top.event
    <3>1. CASE i = L
      BY <3>1, <1>4, <2>1 DEF Top
    <3>2. CASE i < L
      BY <3>2, <1>4 DEF Top, ChainInv, FramesNest
    <3> QED
      BY <3>1, <3>2, <1>4
  <2> QED
    BY <2>1, <2>2, <1>4
<1> HIDE DEF v
<1>6. /\ stack' \in Seq([entry : Nodes, event : 1 .. MaxEvents])
      /\ DOMAIN stack' = 1 .. L + 1
      /\ \A i \in 1 .. L : stack'[i] = stack[i]
      /\ stack'[L + 1].entry = head /\ stack'[L + 1].event = v
  BY <1>1, <1>2, <1>3, PushFrame DEF ChainInv, Chained
<1> HIDE DEF L
<1>7. \A w \in 1 .. MaxEvents : present'[w] = IF w = v THEN live ELSE present[w]
  BY <1>1, <1>2 DEF ChainInv, Chained, TypeOK
<1>8. Chained'
  <2>1. present' \in [1 .. MaxEvents -> SUBSET Cells]
    BY <1>2, <1>3 DEF ChainInv, Chained, TypeOK
  <2>2. TypeOK'
    BY <2>1, <1>2, <1>6 DEF ChainInv, Chained, TypeOK, links, entries
  <2>3. LinksAgree' /\ MapMatchesList'
    BY <1>2 DEF ChainInv, Chained, LinksAgree, MapMatchesList, links, entries
  <2> QED
    BY <2>2, <2>3 DEF Chained
<1>9. FramesNest'
  <2>1. \A i \in 1 .. L + 1 : stack'[i].entry \notin unused
    BY <1>3, <1>4, <1>6, SMTT(20) DEF ChainInv, FramesNest
  <2>2. \A i, j \in 1 .. L + 1 : i < j => stack'[i].event <= stack'[j].event
    <3> SUFFICES ASSUME NEW i \in 1 .. L + 1, NEW j \in 1 .. L + 1, i < j
                 PROVE  stack'[i].event <= stack'[j].event
      OBVIOUS
    <3>1. i \in 1 .. L /\ stack'[i] = stack[i]
      BY <1>4, <1>6
    <3>2. CASE j = L + 1
      BY <3>1, <3>2, <1>4, <1>5, <1>6, <1>1
    <3>3. CASE j \in 1 .. L
      BY <3>1, <3>3, <1>4, <1>6 DEF ChainInv, FramesNest
    <3> QED
      BY <3>2, <3>3, <1>4
  <2>3. stack'[1].entry = head
    <3>1. CASE L = 0
      BY <3>1, <1>6
    <3>2. CASE L # 0
      <4>1. 1 \in 1 .. L /\ stack # <<>>
        BY <3>2, <1>4 DEF L
      <4> QED
        BY <4>1, <1>6 DEF ChainInv, FramesNest
    <3> QED
      BY <3>1, <3>2
  <2>4. \A w \in 1 .. MaxEvents : present'[w] \cap unused = {}
    BY <1>3, <1>4, <1>7 DEF ChainInv, FramesNest
  <2>5. unused' = unused /\ DOMAIN present' = 1 .. MaxEvents
    BY <1>2, <1>4 DEF entries
  <2> QED
    BY <2>1, <2>2, <2>3, <2>4, <2>5, <1>6 DEF FramesNest
<1>10. \A i, j \in 1 .. L + 1 : i < j /\ stack'[i].event = stack'[j].event =>
            /\ i \in 1 .. L /\ j \in 1 .. L
            /\ stack'[i] = stack[i] /\ stack'[j] = stack[j]
  <2> SUFFICES ASSUME NEW i \in 1 .. L + 1, NEW j \in 1 .. L + 1, i < j,
                      stack'[i].event = stack'[j].event
               PROVE  /\ i \in 1 .. L /\ j \in 1 .. L
                      /\ stack'[i] = stack[i] /\ stack'[j] = stack[j]
    OBVIOUS
  <2>1. i \in 1 .. L /\ stack'[i] = stack[i]
    BY <1>4, <1>6
  <2>2. j # L + 1
    BY <2>1, <1>1, <1>4, <1>5, <1>6
  <2> QED
    BY <2>1, <2>2, <1>4, <1>6
<1>11. NoEntryTwice'
  BY <1>4, <1>6, <1>10, SMTT(20) DEF ChainInv, NoEntryTwice
<1>12. Ordered'
  <2>1. PICK rank \in [Nodes -> Int] : InOrder(rank)
    BY DEF ChainInv, Ordered
  <2>2. live' = live /\ next' = next /\ InChain' = InChain
    BY <1>2 DEF links, entries, InChain
  <2>3. Rising(rank)'
    BY <2>1, <2>2 DEF InOrder, Rising
  <2>4. FramesRise(rank)'
    BY <2>1, <2>2, <1>4, <1>6, <1>10 DEF InOrder, FramesRise
  <2>5. PassedVisited(rank)'
    <3> SUFFICES ASSUME NEW i \in 1 .. L + 1, stack'[i].entry \in InChain,
                        NEW e \in live, e \in present'[stack'[i].event],
                        rank[e] < rank[stack'[i].entry]
                 PROVE  \E k \in 1 .. i : /\ stack'[k].entry = e
                                          /\ stack'[k].event = stack'[i].event
      BY <2>2, <1>6 DEF PassedVisited
    <3>1. i \in 1 .. L
      <4>1. rank[head] < rank[e] /\ rank[head] \in Int /\ rank[e] \in Int
        BY <2>1, <1>3 DEF InOrder, Rising, Nodes
      <4> QED
        BY <4>1, <1>4, <1>6
    <3>2. stack'[i] = stack[i] /\ present'[stack[i].event] = present[stack[i].event]
      BY <3>1, <1>1, <1>4, <1>5, <1>6, <1>7
    <3>3. PICK k \in 1 .. i : stack[k].entry = e /\ stack[k].event = stack[i].event
      BY <3>1, <3>2, <2>1, <1>4 DEF InOrder, PassedVisited
    <3>4. stack'[k] = stack[k]
      BY <3>1, <1>4, <1>6, SMTT(20)
    <3> QED
      BY <3>2, <3>3, <3>4
  <2> QED
    BY <2>1, <2>3, <2>4, <2>5 DEF Ordered, InOrder
<1> QED
  BY <1>8, <1>9, <1>11, <1>12 DEF ChainInv

\* An event moves on along a link of an entry that is in the chain.
LEMMA ForwardInv == ASSUME ChainInv, Forward PROVE ChainInv'
<1> DEFINE L == Len(stack)
           t == Top.entry
           v == Top.event
<1>1. /\ L \in 1 .. L /\ L >= 1 /\ L \in Nat /\ DOMAIN stack = 1 .. L
      /\ stack[L].entry = t /\ stack[L].event = v
      /\ t \in Nodes /\ v \in 1 .. MaxEvents /\ v \in DOMAIN present
      /\ \A i \in 1 .. L : stack[i].entry \in Nodes
  BY TopFrame, Frames DEF Forward, ChainInv, Chained, Top
<1>2. /\ t \in live \cup {head}
      /\ UNCHANGED <<links, entries, present, clearing>>
  BY DEF Forward
<1>3. stack' = Append(stack, [entry |-> next[t], event |-> v])
  <2>1. [Top EXCEPT !.entry = next[t]] = [entry |-> next[t], event |-> v]
    <3> DEFINE Frame == [entry : Nodes, event : 1 .. MaxEvents]
    <3>1. Top \in Frame
      BY <1>1, Frames DEF Top, ChainInv, Chained
    <3> QED
      BY <3>1
  <2> QED
    BY <2>1 DEF Forward
<1>4. /\ next[t] \in live \cup {tail} /\ next[t] \in Nodes /\ next[t] \notin unused
      /\ next[t] \in InChain /\ t \in InChain /\ InChain \subseteq Nodes
  BY <1>2, ChainAssumption DEF ChainInv, Chained, TypeOK, LinksAgree, Nodes, InChain
<1> HIDE DEF t, v
<1>5. /\ stack' \in Seq([entry : Nodes, event : 1 .. MaxEvents])
      /\ DOMAIN stack' = 1 .. L + 1
      /\ \A i \in 1 .. L : stack'[i] = stack[i]
      /\ stack'[L + 1].entry = next[t] /\ stack'[L + 1].event = v
  BY <1>1, <1>3, <1>4, PushFrame DEF ChainInv, Chained
<1> HIDE DEF L
<1>6. Chained'
  <2>1. TypeOK'
    BY <1>2, <1>5 DEF ChainInv, Chained, TypeOK, links, entries
  <2>2. LinksAgree' /\ MapMatchesList'
    BY <1>2 DEF ChainInv, Chained, LinksAgree, MapMatchesList, links, entries
  <2> QED
    BY <2>1, <2>2 DEF Chained
<1>7. FramesNest'
  <2>1. \A i \in 1 .. L + 1 : stack'[i].entry \notin unused
    BY <1>1, <1>4, <1>5 DEF ChainInv, FramesNest
  <2>2. \A i, j \in 1 .. L + 1 : i < j => stack'[i].event <= stack'[j].event
    <3> SUFFICES ASSUME NEW i \in 1 .. L + 1, NEW j \in 1 .. L + 1, i < j
                 PROVE  stack'[i].event <= stack'[j].event
      OBVIOUS
    <3>1. i \in 1 .. L /\ stack'[i] = stack[i]
      BY <1>1, <1>5
    <3>2. CASE j = L + 1
      <4>1. CASE i = L
        BY <4>1, <3>1, <3>2, <1>1, <1>5
      <4>2. CASE i < L
        BY <4>2, <3>1, <3>2, <1>1, <1>5 DEF ChainInv, FramesNest
      <4> QED
        BY <4>1, <4>2, <3>1, <1>1
    <3>3. CASE j \in 1 .. L
      BY <3>1, <3>3, <1>1, <1>5 DEF ChainInv, FramesNest
    <3> QED
      BY <3>2, <3>3, <1>1
  <2>3. stack'[1].entry = head
    <3>1. 1 \in 1 .. L /\ stack # <<>>
      BY <1>1 DEF Forward
    <3> QED
      BY <3>1, <1>5 DEF ChainInv, FramesNest
  <2>4. unused' = unused /\ present' = present
    BY <1>2 DEF entries
  <2> QED
    BY <2>1, <2>2, <2>3, <2>4, <1>5 DEF FramesNest, ChainInv
<1>8. PICK rank \in [Nodes -> Int] : InOrder(rank)
  BY DEF ChainInv, Ordered
<1>9. rank[t] < rank[next[t]] /\ rank[t] \in Int /\ rank[next[t]] \in Int
  BY <1>1, <1>2, <1>4, <1>8 DEF InOrder, Rising
\* The frames of the event that are in the chain lie before the new one.
<1>10. ASSUME NEW i \in 1 .. L, stack[i].event = v, stack[i].entry \in InChain
       PROVE  rank[stack[i].entry] < rank[next[t]]
  <2>1. CASE i = L
    BY <2>1, <1>1, <1>9
  <2>2. CASE i < L
    <3>1. rank[stack[i].entry] < rank[t]
      BY <2>2, <1>1, <1>4, <1>8, <1>10 DEF InOrder, FramesRise
    <3>2. rank[stack[i].entry] \in Int
      BY <1>1
    <3> QED
      BY <3>1, <3>2, <1>9
  <2> QED
    BY <2>1, <2>2, <1>1
<1>11. NoEntryTwice'
  <2> SUFFICES ASSUME NEW i \in 1 .. L + 1, NEW j \in 1 .. L + 1, i < j,
                      stack'[i].event = stack'[j].event
               PROVE  stack'[i].entry # stack'[j].entry
    BY <1>5 DEF NoEntryTwice
  <2>1. i \in 1 .. L /\ stack'[i] = stack[i]
    BY <1>1, <1>5, SMTT(20)
  <2>2. CASE j = L + 1
    <3>1. CASE stack[i].entry \in InChain
      <4>1. rank[stack[i].entry] < rank[next[t]]
        BY <3>1, <2>1, <2>2, <1>5, <1>10
      <4> QED
        BY <4>1, <2>1, <2>2, <1>5, <1>9
    <3>2. CASE stack[i].entry \notin InChain
      BY <3>2, <2>1, <2>2, <1>4, <1>5
    <3> QED
      BY <3>1, <3>2
  <2>3. CASE j \in 1 .. L
    <3>1. stack'[j] = stack[j] /\ stack[i].event = stack[j].event
      BY <2>1, <2>3, <1>5
    <3>2. stack[i].entry # stack[j].entry
      BY <3>1, <2>1, <2>3, <1>1 DEF ChainInv, NoEntryTwice
    <3> QED
      BY <3>1, <3>2, <2>1
  <2> QED
    BY <2>2, <2>3, <1>1
<1>12. Ordered'
  <2>1. live' = live /\ next' = next /\ InChain' = InChain /\ present' = present
    BY <1>2 DEF links, entries, InChain
  <2>2. Rising(rank)'
    BY <1>8, <2>1 DEF InOrder, Rising
  <2>3. FramesRise(rank)'
    <3> SUFFICES ASSUME NEW i \in 1 .. L + 1, NEW j \in 1 .. L + 1, i < j,
                        stack'[i].event = stack'[j].event,
                        stack'[i].entry \in InChain, stack'[j].entry \in InChain
                 PROVE  rank[stack'[i].entry] < rank[stack'[j].entry]
      BY <2>1, <1>5 DEF FramesRise
    <3>1. i \in 1 .. L /\ stack'[i] = stack[i]
      BY <1>1, <1>5, SMTT(20)
    <3>2. CASE j = L + 1
      BY <3>1, <3>2, <1>5, <1>10
    <3>3. CASE j \in 1 .. L
      BY <3>1, <3>3, <1>1, <1>5, <1>8 DEF InOrder, FramesRise
    <3> QED
      BY <3>2, <3>3, <1>1
  <2>4. PassedVisited(rank)'
    <3> SUFFICES ASSUME NEW i \in 1 .. L + 1, stack'[i].entry \in InChain,
                        NEW e \in live, e \in present[stack'[i].event],
                        rank[e] < rank[stack'[i].entry]
                 PROVE  \E k \in 1 .. i : /\ stack'[k].entry = e
                                          /\ stack'[k].event = stack'[i].event
      BY <2>1, <1>5 DEF PassedVisited
    <3>1. ASSUME NEW j \in 1 .. L, stack[j].entry \in InChain,
                 e \in present[stack[j].event], rank[e] < rank[stack[j].entry]
          PROVE  \E k \in 1 .. j : stack[k].entry = e /\ stack[k].event = stack[j].event
      BY <3>1, <1>1, <1>8 DEF InOrder, PassedVisited
    <3>2. CASE i \in 1 .. L
      <4>1. PICK k \in 1 .. i : stack[k].entry = e /\ stack[k].event = stack[i].event
        BY <3>1, <3>2, <1>5
      <4> QED
        <5>1. stack'[i] = stack[i]
          BY <3>2, <1>5
        <5>2. stack'[k] = stack[k]
          BY <4>1, <3>2, <1>1, <1>5
        <5> QED
          BY <4>1, <5>1, <5>2
    <3>3. CASE i = L + 1
      <4>1. rank[e] < rank[next[t]] /\ e \in InChain /\ rank[e] \in Int
        BY <3>3, <1>4, <1>5 DEF InChain
      <4>2. ~(rank[t] < rank[e])
        BY <4>1, <1>2, <1>8, <1>9 DEF InOrder, Rising
      <4>3. CASE rank[e] = rank[t]
        <5>1. e = t
          BY <4>1, <4>3, <1>4, <1>8 DEF InOrder, Rising
        <5>2. L \in 1 .. i /\ stack'[L].entry = e /\ stack'[L].event = stack'[i].event
          <6>1. L \in 1 .. i /\ stack'[L] = stack[L]
            BY <3>3, <1>1, <1>5
          <6> QED
            BY <6>1, <5>1, <3>3, <1>1, <1>5
        <5> QED
          BY <5>2
      <4>4. CASE rank[e] < rank[t]
        <5>1. PICK k \in 1 .. L : stack[k].entry = e /\ stack[k].event = v
          BY <4>4, <3>1, <3>3, <1>1, <1>4, <1>5, ZenonT(40)
        <5> QED
          BY <5>1, <3>3, <1>1, <1>5
      <4> QED
        BY <4>1, <4>2, <4>3, <4>4, <1>9
    <3> QED
      BY <3>2, <3>3, <1>1
  <2> QED
    BY <2>2, <2>3, <2>4 DEF Ordered, InOrder
<1> QED
  BY <1>6, <1>7, <1>11, <1>12 DEF ChainInv

\* The frames that are left are the first ones.
LEMMA ReturnInv == ASSUME ChainInv, Return PROVE ChainInv'
<1> DEFINE L == Len(stack)
<1>1. /\ L >= 1 /\ L \in Nat /\ DOMAIN stack = 1 .. L
      /\ Top.event \in 1 .. MaxEvents /\ DOMAIN present = 1 .. MaxEvents
      /\ \A i \in 1 .. L : stack[i] \in [entry : Nodes, event : 1 .. MaxEvents]
  BY TopFrame, Frames DEF Return, ChainInv, Chained
<1>2. L # 1
  BY <1>1 DEF Return, Top, ChainInv, FramesNest
<1>3. PICK m \in 0 .. L :
        /\ stack' = SubSeq(stack, 1, m)
        /\ \/ present' = [present EXCEPT ![Top.event] = {}]
           \/ present' = present
  <2>1. L - 2 \in 0 .. L /\ L - 1 \in 0 .. L
    BY <1>1, <1>2
  <2>2. CASE stack[Len(stack) - 1].entry = head
    <3>1. /\ stack' = SubSeq(stack, 1, L - 2)
          /\ present' = [present EXCEPT ![Top.event] = {}]
      BY <2>2 DEF Return
    <3> QED
      BY <2>1, <3>1
  <2>3. CASE stack[Len(stack) - 1].entry # head
    <3>1. stack' = SubSeq(stack, 1, L - 1) /\ present' = present
      BY <2>3 DEF Return
    <3> QED
      BY <2>1, <3>1
  <2> QED
    BY <2>2, <2>3
<1>4. UNCHANGED <<links, entries, clearing>>
  BY DEF Return
<1> DEFINE Frame == [entry : Nodes, event : 1 .. MaxEvents]
<1>5. /\ stack' \in Seq(Frame)
      /\ DOMAIN stack' = 1 .. m
      /\ \A i \in 1 .. m : i \in 1 .. L /\ stack'[i] = stack[i]
  <2>1. m \in Int /\ 1 \in Int /\ \A i \in 1 .. m : i \in 1 .. L /\ stack[i] \in Frame
    BY <1>1
  <2> HIDE DEF Frame
  <2>2. /\ SubSeq(stack, 1, m) \in Seq(Frame)
        /\ Len(SubSeq(stack, 1, m)) = IF 1 <= m THEN m - 1 + 1 ELSE 0
        /\ \A i \in 1 .. m - 1 + 1 : SubSeq(stack, 1, m)[i] = stack[1 + i - 1]
    BY <2>1, SubSeqProperties
  <2>3. m - 1 + 1 = m /\ (IF 1 <= m THEN m - 1 + 1 ELSE 0) = m
    BY <1>1
  <2>4. \A i \in 1 .. m : 1 + i - 1 = i
    BY <1>1
  <2>5. /\ stack' \in Seq(Frame) /\ Len(stack') = m
        /\ \A i \in 1 .. m : stack'[i] = stack[i]
    BY <1>3, <2>2, <2>3, <2>4
  <2> QED
    BY <2>1, <2>5
<1> HIDE DEF L
<1>6. /\ present' \in [1 .. MaxEvents -> SUBSET Cells] /\ DOMAIN present' = 1 .. MaxEvents
      /\ \A w \in 1 .. MaxEvents : present'[w] \subseteq present[w]
  <2>1. present \in [1 .. MaxEvents -> SUBSET Cells]
    BY DEF ChainInv, Chained, TypeOK
  <2> QED
    BY <2>1, <1>3
<1>7. Chained'
  <2>1. TypeOK'
    BY <1>4, <1>5, <1>6 DEF ChainInv, Chained, TypeOK, links, entries
  <2>2. LinksAgree' /\ MapMatchesList'
    BY <1>4 DEF ChainInv, Chained, LinksAgree, MapMatchesList, links, entries
  <2> QED
    BY <2>1, <2>2 DEF Chained
<1>8. FramesNest'
  <2>1. /\ \A i \in 1 .. m : stack'[i].entry \notin unused
        /\ \A i, j \in 1 .. m : i < j => stack'[i].event <= stack'[j].event
    BY <1>1, <1>5 DEF ChainInv, FramesNest
  <2>2. stack' # <<>> => stack'[1].entry = head
    <3> SUFFICES ASSUME stack' # <<>> PROVE stack'[1].entry = head
      OBVIOUS
    <3>1. 1 \in 1 .. m
      <4>1. m # 0
        <5>1. ASSUME m = 0 PROVE stack' = <<>>
          <6>1. SubSeq(stack, 1, 0) = <<>>
            BY SubSeqEmpty
          <6> QED
            BY <1>3, <5>1, <6>1
        <5> QED
          BY <5>1
      <4> QED
        BY <4>1
    <3> QED
      BY <3>1, <1>5 DEF ChainInv, FramesNest, Return
  <2>3. unused' = unused /\ \A w \in 1 .. MaxEvents : present'[w] \cap unused = {}
    BY <1>1, <1>4, <1>6 DEF ChainInv, FramesNest, entries
  <2> QED
    BY <2>1, <2>2, <2>3, <1>5, <1>6 DEF FramesNest
<1>9. NoEntryTwice'
  BY <1>1, <1>5 DEF ChainInv, NoEntryTwice
<1>10. Ordered'
  <2>1. PICK rank \in [Nodes -> Int] : InOrder(rank)
    BY DEF ChainInv, Ordered
  <2>2. live' = live /\ next' = next /\ InChain' = InChain
    BY <1>4 DEF links, entries, InChain
  <2>3. Rising(rank)'
    BY <2>1, <2>2 DEF InOrder, Rising
  <2>4. FramesRise(rank)'
    BY <2>1, <2>2, <1>1, <1>5 DEF InOrder, FramesRise
  <2>5. PassedVisited(rank)'
    <3> SUFFICES ASSUME NEW i \in 1 .. m, stack'[i].entry \in InChain,
                        NEW e \in live, e \in present'[stack'[i].event],
                        rank[e] < rank[stack'[i].entry]
                 PROVE  \E k \in 1 .. i : /\ stack'[k].entry = e
                                          /\ stack'[k].event = stack'[i].event
      BY <2>2, <1>5 DEF PassedVisited
    <3>1. i \in 1 .. L /\ stack'[i] = stack[i] /\ stack[i].event \in 1 .. MaxEvents
      BY <1>1, <1>5
    <3>2. e \in present[stack[i].event]
      BY <3>1, <1>6
    <3>3. PICK k \in 1 .. i : stack[k].entry = e /\ stack[k].event = stack[i].event
      <4>1. i \in DOMAIN stack
        BY <3>1, <1>1
      <4>2. stack[i].entry \in InChain /\ rank[e] < rank[stack[i].entry]
        BY <3>1
      <4>3. e \in present[stack[i].event] \cap live
        BY <3>2
      <4>4. \E k \in 1 .. i : stack[k].entry = e /\ stack[k].event = stack[i].event
        BY <4>1, <4>2, <4>3, <2>1 DEF InOrder, PassedVisited
      <4> QED
        BY <4>4
    <3> QED
      <4>1. k \in 1 .. m /\ i \in 1 .. m
        BY <3>1, <3>3, <1>1
      <4>2. stack'[k] = stack[k]
        BY <4>1, <1>5
      <4> QED
        BY <3>1, <3>3, <4>2
  <2> QED
    BY <2>1, <2>3, <2>4, <2>5 DEF Ordered, InOrder
<1> QED
  BY <1>7, <1>8, <1>9, <1>10 DEF ChainInv

-----------------------------------------------------------------------------
(* The theorem *)

LEMMA RegisterInv ==
    ASSUME ChainInv, NEW p \in live \cup {head}, NEW n \in Names, NEW f \in Filters,
           Addable(n), Register(p, n, f)
    PROVE  ChainInv'
<1>1. Chained'
  BY RegisterChained DEF ChainInv
<1>2. Ordered' /\ FramesNest' /\ NoEntryTwice'
  BY RegisterOrdered
<1> QED
  BY <1>1, <1>2 DEF ChainInv

LEMMA DeregisterInv ==
    ASSUME ChainInv, NEW e \in live, Deregister(e), clearing' \in BOOLEAN
    PROVE  ChainInv'
BY DeregisterChained, DeregisterOrdered DEF ChainInv

\* The entries behind which the four additions put the new one.
LEMMA Places ==
    ASSUME ChainInv
    PROVE  /\ prev[tail] \in live \cup {head}
           /\ \A n \in Names : name2entry[n] # Null =>
                 /\ name2entry[n] \in live
                 /\ prev[name2entry[n]] \in live \cup {head}
BY DEF ChainInv, Chained, LinksAgree, MapMatchesList

LEMMA EditInv == ASSUME ChainInv, Edit PROVE ChainInv'
<1>1. ASSUME NEW n \in Names, NEW f \in Filters, AddFirst(n, f)
      PROVE  ChainInv'
  BY <1>1, RegisterInv DEF AddFirst
<1>2. ASSUME NEW n \in Names, NEW f \in Filters, AddLast(n, f)
      PROVE  ChainInv'
  BY <1>2, RegisterInv, Places DEF AddLast
<1>3. ASSUME NEW n \in Names, NEW f \in Filters, NEW b \in Names, AddBefore(b, n, f)
      PROVE  ChainInv'
  BY <1>3, RegisterInv, Places DEF AddBefore
<1>4. ASSUME NEW n \in Names, NEW f \in Filters, NEW b \in Names, AddAfter(b, n, f)
      PROVE  ChainInv'
  BY <1>4, RegisterInv, Places DEF AddAfter
<1>5. ASSUME NEW n \in Names, RemoveName(n)
      PROVE  ChainInv'
  <2>1. name2entry[n] \in live /\ Deregister(name2entry[n]) /\ clearing' \in BOOLEAN
    BY <1>5, Places DEF RemoveName, ChainInv, Chained, TypeOK
  <2> QED
    BY <2>1, DeregisterInv
<1>6. ASSUME NEW f \in Filters, RemoveFilter(f)
      PROVE  ChainInv'
  <2>1. PICK e \in live : Deregister(e)
    BY <1>6 DEF RemoveFilter
  <2>2. clearing' \in BOOLEAN
    BY <1>6 DEF RemoveFilter, ChainInv, Chained, TypeOK
  <2> QED
    BY <2>1, <2>2, DeregisterInv
<1> QED
  BY <1>1, <1>2, <1>3, <1>4, <1>5, <1>6 DEF Edit

\* Steps that change neither the list nor the frames.
LEMMA QuietInv ==
    ASSUME ChainInv, UNCHANGED <<links, entries, calls>>, clearing' \in BOOLEAN
    PROVE  ChainInv'
<1>1. Chained'
  BY DEF ChainInv, Chained, TypeOK, LinksAgree, MapMatchesList, links, entries, calls
<1>2. FramesNest' /\ NoEntryTwice'
  BY DEF ChainInv, FramesNest, NoEntryTwice, entries, calls
<1>3. Ordered'
  <2>1. PICK rank \in [Nodes -> Int] : InOrder(rank)
    BY DEF ChainInv, Ordered
  <2>2. InOrder(rank)'
    BY <2>1 DEF InOrder, Rising, FramesRise, PassedVisited, InChain, links, entries, calls
  <2> QED
    BY <2>2 DEF Ordered
<1> QED
  BY <1>1, <1>2, <1>3 DEF ChainInv

LEMMA StepInv == ASSUME ChainInv, [Next]_vars PROVE ChainInv'
<1>1. CASE Edit
  BY <1>1, EditInv
<1>2. CASE Clear
  <2>1. PICK e \in live : Deregister(e)
    BY <1>2 DEF Clear
  <2> QED
    BY <2>1, <1>2, DeregisterInv DEF Clear
<1>3. CASE ClearEnds
  BY <1>3, QuietInv DEF ClearEnds
<1>4. CASE Fire
  BY <1>4, FireInv
<1>5. CASE Forward
  BY <1>5, ForwardInv
<1>6. CASE Return
  BY <1>6, ReturnInv
<1>7. CASE UNCHANGED vars
  BY <1>7, QuietInv DEF vars, ChainInv, Chained, TypeOK
<1> QED
  BY <1>1, <1>2, <1>3, <1>4, <1>5, <1>6, <1>7 DEF Next

\* An event at the tail has passed everything: the tail is the last entry.
LEMMA TailIsLast == ASSUME ChainInv PROVE NobodySkipped
<1> SUFFICES ASSUME stack # <<>>, Top.entry = tail,
                    NEW e \in present[Top.event] \cap live
             PROVE  \E i \in DOMAIN stack :
                        stack[i].entry = e /\ stack[i].event = Top.event
  BY DEF NobodySkipped
<1>1. PICK rank \in [Nodes -> Int] : InOrder(rank)
  BY DEF ChainInv, Ordered
<1>2. Len(stack) \in DOMAIN stack /\ DOMAIN stack = 1 .. Len(stack) /\ Top = stack[Len(stack)]
  BY TopFrame, Frames DEF ChainInv, Chained, Top
<1>3. rank[e] < rank[tail] /\ tail \in InChain
  BY <1>1 DEF InOrder, Rising, InChain
<1> QED
  BY <1>1, <1>2, <1>3 DEF InOrder, PassedVisited

LEMMA ChainInvHolds == Spec => []ChainInv
BY InitInv, StepInv, PTL DEF Spec

\* The links, the frames and the records of a chain stay what they are declared to be; no
\* entry is alive before it is allocated.
THEOREM ChainTyped == Spec => []TypeOK
<1>1. ChainInv => TypeOK
  BY DEF ChainInv, Chained
<1> QED
  BY <1>1, ChainInvHolds, PTL

\* The list of a session's filters stays a list, whatever is added, removed or
\* cleared, and whatever events are under way.
THEOREM Consistent == Spec => []LinksAgree
<1>1. ChainInv => LinksAgree
  BY DEF ChainInv, Chained
<1> QED
  BY <1>1, ChainInvHolds, PTL

\* The map of a chain stays the index of its list: register_ and deregister change both.
THEOREM MapIndexesList == Spec => []MapMatchesList
<1>1. ChainInv => MapMatchesList
  BY DEF ChainInv, Chained
<1> QED
  BY <1>1, ChainInvHolds, PTL

\* An event goes through each filter at most once, whatever the filters it goes through do
\* to the chain.
THEOREM EventsMoveOn == Spec => []NoEntryTwice
<1>1. ChainInv => NoEntryTwice
  BY DEF ChainInv
<1> QED
  BY <1>1, ChainInvHolds, PTL

\* An event goes through every filter that stays in the chain until it has reached the
\* end, whatever the filters it goes through do to the chain.
THEOREM EventsVisitInOrder == Spec => []NobodySkipped
<1>1. ChainInv => NobodySkipped
  BY TailIsLast DEF ChainInv
<1> QED
  BY <1>1, ChainInvHolds, PTL

-----------------------------------------------------------------------------
(* The list as a sequence: for some sequence of entries, the links lead     *)
(* from head through it to tail.                                            *)

Place(s, k) == IF k = 0 THEN head ELSE IF k <= Len(s) THEN s[k] ELSE tail

Reads(s, nx, lv) ==
    /\ s \in Seq(lv)
    /\ \A e \in lv : \E i \in 1..Len(s) : s[i] = e
    /\ \A i, j \in 1..Len(s) : s[i] = s[j] => i = j
    /\ \A k \in 0..Len(s) : nx[Place(s, k)] = Place(s, k + 1)

\* Walk, for links and entries of any step.
Path(nx, lv) == CHOOSE w : w = [i \in 0 .. Cardinality(Nodes) |->
                                   IF i = 0 THEN nx[head]
                                   ELSE IF w[i - 1] \in lv THEN nx[w[i - 1]] ELSE tail]

\* What FilterSequence sees of it.
ListOf(s, nm, fl) == [i \in 1..Len(s) |-> [name |-> nm[s[i]], filter |-> fl[s[i]]]]

LEMMA ReadsFacts ==
    ASSUME NEW nx, NEW lv \in SUBSET Cells, NEW s, Reads(s, nx, lv)
    PROVE  /\ Len(s) \in Nat /\ \A i \in 1..Len(s) : s[i] \in lv
           /\ \A i \in 1..Len(s) : Place(s, i) = s[i]
           /\ \A i \in 1..Len(s) : Place(s, i) \in lv
           /\ Place(s, 0) = head /\ \A i \in Nat : i > Len(s) => Place(s, i) = tail
           /\ head \notin lv /\ tail \notin lv /\ head # tail
<1>1. s \in Seq(lv)
  BY DEF Reads
<1>2. Len(s) \in Nat
  BY <1>1, LenProperties
<1>3. \A i \in 1..Len(s) : s[i] \in lv
  BY <1>1, ElementOfSeq
<1>4. head \notin lv /\ tail \notin lv /\ head # tail
  BY ChainAssumption
<1>5. \A i \in 1..Len(s) : Place(s, i) = s[i]
  BY <1>2 DEF Place
<1>6. Place(s, 0) = head /\ \A i \in Nat : i > Len(s) => Place(s, i) = tail
  BY <1>2 DEF Place
<1> QED
  BY <1>2, <1>3, <1>4, <1>5, <1>6

\* The list is no longer than the walk.
LEMMA ListFits ==
    ASSUME IsFiniteSet(Cells), NEW nx, NEW lv \in SUBSET Cells, NEW s, Reads(s, nx, lv)
    PROVE  Cardinality(Nodes) \in Nat /\ Len(s) < Cardinality(Nodes)
<1>1. Len(s) \in Nat /\ \A i \in 1..Len(s) : s[i] \in lv
  BY ReadsFacts
<1>2. IsFiniteSet(Nodes) /\ Cardinality(Cells) \in Nat /\ Cardinality(Cells) < Cardinality(Nodes)
      /\ Cardinality(Nodes) \in Nat
  <2>1. /\ IsFiniteSet(Cells \cup {head})
        /\ Cardinality(Cells \cup {head}) = Cardinality(Cells) + 1
    BY ChainAssumption, FS_AddElement
  <2>2. PICK S : S = Cells \cup {head}
    OBVIOUS
  <2>3. IsFiniteSet(S) /\ tail \notin S
    BY <2>1, <2>2, ChainAssumption
  <2>4. IsFiniteSet(S \cup {tail}) /\ Cardinality(S \cup {tail}) = Cardinality(S) + 1
    BY <2>3, FS_AddElement
  <2>5. Nodes = S \cup {tail}
    BY <2>2 DEF Nodes
  <2>6. Cardinality(Cells) \in Nat
    BY FS_CardinalityType
  <2> QED
    BY <2>1, <2>2, <2>4, <2>5, <2>6
<1>3. Len(s) <= Cardinality(Cells)
  <2>1. PICK g : g = [i \in 1..Len(s) |-> s[i]]
    OBVIOUS
  <2>2. g \in Injection(1..Len(s), Cells)
    <3>1. g \in [1..Len(s) -> Cells]
      BY <1>1, <2>1
    <3>2. \A i, j \in 1..Len(s) : g[i] = g[j] => i = j
      BY <2>1 DEF Reads
    <3> QED
      BY <3>1, <3>2 DEF Injection, IsInjective
  <2>3. Cardinality(1..Len(s)) <= Cardinality(Cells)
    BY <2>2, FS_Injection
  <2>4. Cardinality(1..Len(s)) = Len(s)
    <3>1. PICK a \in Int, b \in Int : a = 1 /\ b = Len(s)
      BY <1>1
    <3>2. Cardinality(a..b) = IF a > b THEN 0 ELSE b - a + 1
      BY FS_Interval
    <3> QED
      BY <1>1, <3>1, <3>2
  <2> QED
    BY <2>3, <2>4
<1> QED
  BY <1>1, <1>2, <1>3

\* The walk passes the entries in their order and then stays at tail.
LEMMA PathIs ==
    ASSUME IsFiniteSet(Cells), NEW nx, NEW lv \in SUBSET Cells, NEW s, Reads(s, nx, lv)
    PROVE  /\ DOMAIN Path(nx, lv) = 0..Cardinality(Nodes)
           /\ \A i \in 0..Cardinality(Nodes) : Path(nx, lv)[i] = Place(s, i + 1)
<1>1. PICK N \in Nat : N = Cardinality(Nodes)
  BY ListFits
<1>2. /\ Len(s) \in Nat /\ \A i \in 1..Len(s) : Place(s, i) \in lv
      /\ Place(s, 0) = head /\ \A i \in Nat : i > Len(s) => Place(s, i) = tail
      /\ tail \notin lv
  <2>1. Len(s) \in Nat /\ \A i \in 1..Len(s) : s[i] \in lv
    BY ReadsFacts
  <2> QED
    BY <2>1, ChainAssumption DEF Place
<1>3. \A k \in 0..Len(s) : nx[Place(s, k)] = Place(s, k + 1)
  BY DEF Reads
<1> DEFINE Step(w, i) == IF i = 0 THEN nx[head] ELSE IF w[i - 1] \in lv THEN nx[w[i - 1]] ELSE tail
           Walks(w) == w = [i \in 0..N |-> Step(w, i)]
<1>4. PICK v : v = [i \in 0..N |-> Place(s, i + 1)]
  OBVIOUS
<1>5. Walks(v)
  <2>1. ASSUME NEW i \in 0..N PROVE v[i] = Step(v, i)
    <3>1. v[i] = Place(s, i + 1)
      BY <1>4
    <3>2. CASE i = 0
      BY <1>2, <1>3, <3>1, <3>2
    <3>3. CASE i # 0 /\ i <= Len(s)
      <4>1. v[i - 1] = Place(s, i) /\ Place(s, i) \in lv
        BY <1>2, <1>4, <3>3
      <4>2. nx[Place(s, i)] = Place(s, i + 1)
        BY <1>3, <3>3
      <4> QED
        BY <3>1, <3>3, <4>1, <4>2
    <3>4. CASE i # 0 /\ i > Len(s)
      <4>1. v[i - 1] = Place(s, i) /\ i \in Nat /\ i + 1 \in Nat /\ i + 1 > Len(s)
        BY <1>2, <1>4, <3>4
      <4>2. v[i - 1] = tail /\ v[i] = tail
        BY <1>2, <3>1, <3>4, <4>1
      <4> QED
        BY <1>2, <3>4, <4>2
    <3> QED
      BY <1>2, <3>2, <3>3, <3>4
  <2> HIDE DEF Step
  <2>2. v = [i \in 0..N |-> v[i]]
    BY <1>4
  <2> QED
    BY <2>1, <2>2
<1>6. PICK w : w = Path(nx, lv) /\ Walks(w)
  <2>1. Path(nx, lv) = CHOOSE w : Walks(w)
    BY <1>1 DEF Path
  <2>2. Walks(CHOOSE w : Walks(w))
    <3> HIDE DEF Walks
    <3> QED
      BY <1>5
  <2> QED
    BY <2>1, <2>2
<1>7. DOMAIN w = 0..N
  BY <1>6
<1>8. \A i \in 0..N : w[i] = v[i]
  <2> DEFINE Differ == {i \in 0..N : w[i] # v[i]}
  <2>1. Differ \in SUBSET Nat
    OBVIOUS
  <2>2. CASE Differ # {}
    <3>1. PICK i \in Differ : \A j \in Differ : i <= j
      <4> HIDE DEF Differ
      <4> QED
        BY <2>1, <2>2, LeastNatural
    <3>2. i \in 0..N /\ w[i] # v[i]
      OBVIOUS
    <3>3. w[i] = Step(w, i) /\ v[i] = Step(v, i)
      BY <1>5, <1>6, <3>2
    <3>4. CASE i = 0
      BY <3>2, <3>3, <3>4
    <3>5. CASE i # 0
      <4>1. i - 1 \in 0..N /\ ~(i <= i - 1)
        BY <3>2, <3>5
      <4>2. w[i - 1] = v[i - 1]
        BY <3>1, <4>1
      <4> QED
        BY <3>2, <3>3, <4>2
    <3> QED
      BY <3>4, <3>5
  <2> QED
    BY <2>2
<1> QED
  BY <1>1, <1>4, <1>6, <1>7, <1>8

\* So that the mapping of the refinement is ListOf.
LEMMA ValueIs ==
    ASSUME IsFiniteSet(Cells), NEW nx, NEW lv \in SUBSET Cells, NEW nm, NEW fl,
           NEW s, Reads(s, nx, lv)
    PROVE  /\ Cardinality({i \in DOMAIN Path(nx, lv) : Path(nx, lv)[i] \in lv}) = Len(s)
           /\ \A i \in 1..Len(s) : Path(nx, lv)[i - 1] = s[i]
           /\ [i \in 1 .. Cardinality({i \in DOMAIN Path(nx, lv) : Path(nx, lv)[i] \in lv}) |->
                  [name |-> nm[Path(nx, lv)[i - 1]], filter |-> fl[Path(nx, lv)[i - 1]]]]
              = ListOf(s, nm, fl)
<1>1. PICK N \in Nat, L \in Nat : N = Cardinality(Nodes) /\ L = Len(s) /\ L < N
  BY ListFits, ReadsFacts
<1>2. PICK w : w = Path(nx, lv)
  OBVIOUS
<1>3. DOMAIN w = 0..N /\ \A i \in 0..N : w[i] = Place(s, i + 1)
  BY <1>1, <1>2, PathIs
<1>4. /\ \A i \in 1..L : Place(s, i) = s[i] /\ s[i] \in lv
      /\ \A i \in Nat : i > L => Place(s, i) = tail
      /\ tail \notin lv
  <2>1. Len(s) \in Nat /\ \A i \in 1..Len(s) : s[i] \in lv
    BY ReadsFacts
  <2>2. \A i \in 1..Len(s) : Place(s, i) = s[i]
    BY ReadsFacts
  <2>3. \A i \in Nat : i > Len(s) => Place(s, i) = tail
    BY ReadsFacts
  <2>4. tail \notin lv
    BY ReadsFacts
  <2> QED
    BY <1>1, <2>1, <2>2, <2>3, <2>4
<1>5. \A i \in 1..L : w[i - 1] = s[i]
  BY <1>1, <1>3, <1>4
<1>6. {i \in DOMAIN w : w[i] \in lv} = 0..(L - 1)
  <2>1. ASSUME NEW i \in 0..N
        PROVE  w[i] \in lv <=> i \in 0..(L - 1)
    <3>1. CASE i < L
      BY <1>1, <1>3, <1>4, <3>1
    <3>2. CASE ~(i < L)
      <4>1. i + 1 > L /\ i + 1 \in Nat
        BY <1>1, <3>2
      <4> QED
        BY <1>3, <1>4, <3>2, <4>1
    <3> QED
      BY <3>1, <3>2
  <2> QED
    BY <1>1, <1>3, <2>1
<1>7. Cardinality({i \in DOMAIN w : w[i] \in lv}) = L
  <2>1. PICK a \in Int, b \in Int : a = 0 /\ b = L - 1
    OBVIOUS
  <2>2. Cardinality(a..b) = IF a > b THEN 0 ELSE b - a + 1
    BY FS_Interval
  <2>3. {i \in DOMAIN w : w[i] \in lv} = a..b
    BY <1>6, <2>1
  <2>4. (IF a > b THEN 0 ELSE b - a + 1) = L
    BY <2>1
  <2> QED
    BY <2>2, <2>3, <2>4
<1>8. [i \in 1..L |-> [name |-> nm[w[i - 1]], filter |-> fl[w[i - 1]]]] = ListOf(s, nm, fl)
  BY <1>1, <1>5 DEF ListOf
<1> QED
  BY <1>1, <1>2, <1>5, <1>7, <1>8

\* A new entry e behind the k-th.
LEMMA ReadsInserted ==
    ASSUME NEW nx, NEW lv \in SUBSET Cells, NEW s, Reads(s, nx, lv), NEW k \in 0..Len(s),
           NEW e \in Cells, e \notin lv, NEW nx2,
           \A x \in lv \cup {e, head} :
              nx2[x] = IF x = Place(s, k) THEN e ELSE IF x = e THEN nx[Place(s, k)] ELSE nx[x]
    PROVE  /\ InsertAt(s, k + 1, e) \in Seq(lv \cup {e})
           /\ Reads(InsertAt(s, k + 1, e), nx2, lv \cup {e})
<1>1. PICK L \in Nat : L = Len(s)
  BY ReadsFacts
<1>2. \A i \in 1..L : s[i] \in lv
  BY <1>1, ReadsFacts
<1>3. PICK t : t = InsertAt(s, k + 1, e)
  OBVIOUS
<1>4. /\ t \in Seq(lv \cup {e}) /\ Len(t) = L + 1
      /\ \A j \in 1..(L + 1) : t[j] = IF j < k + 1 THEN s[j] ELSE IF j = k + 1 THEN e ELSE s[j - 1]
  <2>1. PICK S : S = lv \cup {e}
    OBVIOUS
  <2>2. s \in Seq(S)
    <3>1. s \in Seq(lv)
      BY DEF Reads
    <3> QED
      BY <2>1, <3>1
  <2>3. PICK i \in 1..(Len(s) + 1) : i = k + 1
    BY <1>1
  <2>4. /\ InsertAt(s, i, e) \in Seq(S) /\ Len(InsertAt(s, i, e)) = Len(s) + 1
        /\ \A j \in 1..(Len(s) + 1) :
              InsertAt(s, i, e)[j] = IF j < i THEN s[j] ELSE IF j = i THEN e ELSE s[j - 1]
    BY <2>1, <2>2, InsertAtPositions
  <2> QED
    BY <1>1, <1>3, <2>1, <2>3, <2>4
<1>5. \A x \in lv \cup {e} : \E i \in 1..Len(t) : t[i] = x
  <2>1. ASSUME NEW x \in lv
        PROVE  \E i \in 1..(L + 1) : t[i] = x
    <3>1. PICK i \in 1..L : s[i] = x
      BY <1>1 DEF Reads
    <3>2. CASE i < k + 1
      BY <1>1, <1>4, <3>1, <3>2
    <3>3. CASE ~(i < k + 1)
      <4>1. i + 1 \in 1..(L + 1) /\ ~(i + 1 < k + 1) /\ i + 1 # k + 1 /\ (i + 1) - 1 = i
        BY <1>1, <3>3
      <4> QED
        BY <1>4, <3>1, <4>1
    <3> QED
      BY <3>2, <3>3
  <2>2. k + 1 \in 1..(L + 1) /\ t[k + 1] = e
    BY <1>1, <1>4
  <2> QED
    BY <1>4, <2>1, <2>2
<1>6. \A i, j \in 1..Len(t) : t[i] = t[j] => i = j
  <2> SUFFICES ASSUME NEW i \in 1..(L + 1), NEW j \in 1..(L + 1), t[i] = t[j], i < j
               PROVE  FALSE
    BY <1>1, <1>4
  <2>1. \A a, b \in 1..L : s[a] = s[b] => a = b
    BY <1>1 DEF Reads
  <2>2. CASE i < k + 1 /\ j < k + 1
    BY <1>1, <1>4, <2>1, <2>2
  <2>3. CASE i < k + 1 /\ j = k + 1
    <3>1. t[i] = s[i] /\ i \in 1..L /\ t[j] = e
      BY <1>1, <1>4, <2>3
    <3> QED
      BY <1>2, <3>1
  <2>4. CASE i < k + 1 /\ j > k + 1
    <3>1. t[i] = s[i] /\ t[j] = s[j - 1] /\ i \in 1..L /\ j - 1 \in 1..L /\ i # j - 1
      BY <1>1, <1>4, <2>4
    <3> QED
      BY <2>1, <3>1
  <2>5. CASE i = k + 1 /\ j > k + 1
    <3>1. t[i] = e /\ t[j] = s[j - 1] /\ j - 1 \in 1..L
      BY <1>1, <1>4, <2>5
    <3> QED
      BY <1>2, <3>1
  <2>6. CASE i > k + 1 /\ j > k + 1
    <3>1. t[i] = s[i - 1] /\ t[j] = s[j - 1] /\ i - 1 \in 1..L /\ j - 1 \in 1..L /\ i - 1 # j - 1
      BY <1>1, <1>4, <2>6
    <3> QED
      BY <2>1, <3>1
  <2> QED
    BY <1>1, <2>2, <2>3, <2>4, <2>5, <2>6
<1>7. /\ \A i \in 0..k : Place(t, i) = Place(s, i)
      /\ Place(t, k + 1) = e
      /\ \A i \in Nat : i > k + 1 => Place(t, i) = Place(s, i - 1)
  <2>1. ASSUME NEW i \in 0..k PROVE Place(t, i) = Place(s, i)
    BY <1>1, <1>4 DEF Place
  <2>2. Place(t, k + 1) = e
    BY <1>1, <1>4 DEF Place
  <2>3. ASSUME NEW i \in Nat, i > k + 1 PROVE Place(t, i) = Place(s, i - 1)
    BY <1>1, <1>4, <2>3 DEF Place
  <2> QED
    BY <2>1, <2>2, <2>3
<1>8. /\ \A i \in 0..L : Place(s, i) \in lv \cup {head}
      /\ \A i, j \in 0..L : Place(s, i) = Place(s, j) => i = j
  <2>1. \A i \in 1..L : Place(s, i) = s[i] /\ s[i] \in lv
    BY <1>1, <1>2 DEF Place
  <2>2. Place(s, 0) = head /\ head \notin lv
    BY ChainAssumption DEF Place
  <2>3. \A i, j \in 1..L : s[i] = s[j] => i = j
    BY <1>1 DEF Reads
  <2>4. ASSUME NEW i \in 0..L PROVE Place(s, i) \in lv \cup {head}
    BY <2>1, <2>2
  <2>5. ASSUME NEW i \in 0..L, NEW j \in 0..L, Place(s, i) = Place(s, j) PROVE i = j
    <3>1. CASE i = 0
      BY <2>1, <2>2, <2>5, <3>1
    <3>2. CASE j = 0
      BY <2>1, <2>2, <2>5, <3>2
    <3>3. CASE i # 0 /\ j # 0
      BY <2>1, <2>3, <2>5, <3>3
    <3> QED
      BY <3>1, <3>2, <3>3
  <2> QED
    BY <2>4, <2>5
<1>9. \A i \in 0..Len(t) : nx2[Place(t, i)] = Place(t, i + 1)
  <2> SUFFICES ASSUME NEW i \in 0..(L + 1) PROVE nx2[Place(t, i)] = Place(t, i + 1)
    BY <1>4
  <2>1. e # head /\ e \notin lv
    BY ChainAssumption
  <2>2. \A j \in 0..L : nx[Place(s, j)] = Place(s, j + 1)
    BY <1>1 DEF Reads
  <2>3. CASE i < k
    <3>1. i \in 0..k /\ i + 1 \in 0..k /\ i \in 0..L /\ k \in 0..L /\ i # k
      BY <1>1, <2>3
    <3>2. Place(s, i) # Place(s, k) /\ Place(s, i) \in lv \cup {head}
      BY <1>8, <3>1
    <3>3. nx2[Place(s, i)] = nx[Place(s, i)]
      BY <2>1, <3>2
    <3> QED
      BY <1>7, <2>2, <3>1, <3>3
  <2>4. CASE i = k
    <3>1. k \in 0..k /\ k \in 0..L
      BY <1>1
    <3>2. nx2[Place(s, k)] = e
      BY <1>8, <3>1
    <3> QED
      BY <1>7, <2>4, <3>1, <3>2
  <2>5. CASE i = k + 1
    <3>1. k \in 0..L /\ i + 1 > k + 1 /\ i + 1 \in Nat /\ (i + 1) - 1 = k + 1
      BY <1>1, <2>5
    <3>2. e # Place(s, k)
      BY <1>8, <2>1, <3>1
    <3>3. nx2[e] = nx[Place(s, k)]
      BY <3>2
    <3> QED
      BY <1>7, <2>2, <2>5, <3>1, <3>3
  <2>6. CASE i > k + 1
    <3>1. /\ i \in Nat /\ i + 1 \in Nat /\ i + 1 > k + 1 /\ (i + 1) - 1 = i /\ i - 1 \in 0..L
          /\ k \in 0..L /\ i - 1 # k /\ (i - 1) + 1 = i
      BY <1>1, <2>6
    <3>2. Place(s, i - 1) # Place(s, k) /\ Place(s, i - 1) \in lv \cup {head}
      BY <1>8, <3>1
    <3>3. nx2[Place(s, i - 1)] = nx[Place(s, i - 1)]
      BY <2>1, <3>2
    <3>4. nx[Place(s, i - 1)] = Place(s, (i - 1) + 1)
      BY <2>2, <3>1
    <3> QED
      BY <1>7, <2>6, <3>1, <3>3, <3>4
  <2> QED
    BY <1>1, <2>3, <2>4, <2>5, <2>6
<1> QED
  BY <1>3, <1>4, <1>5, <1>6, <1>9 DEF Reads

\* The k-th entry is taken out.
LEMMA ReadsRemoved ==
    ASSUME NEW nx, NEW lv \in SUBSET Cells, NEW s, Reads(s, nx, lv), NEW k \in 1..Len(s), NEW nx2,
           \A x \in (lv \cup {head}) \ {s[k]} :
              nx2[x] = IF x = Place(s, k - 1) THEN nx[s[k]] ELSE nx[x]
    PROVE  Reads(RemoveAt(s, k), nx2, lv \ {s[k]})
<1>1. PICK L \in Nat : L = Len(s)
  BY ReadsFacts
<1>2. \A i \in 1..L : s[i] \in lv
  BY <1>1, ReadsFacts
<1>3. PICK t : t = RemoveAt(s, k)
  OBVIOUS
<1>4. \A i, j \in 1..L : s[i] = s[j] => i = j
  BY <1>1 DEF Reads
<1>5. /\ t \in Seq(lv) /\ Len(t) = L - 1
      /\ \A j \in 1..(L - 1) : t[j] = IF j < k THEN s[j] ELSE s[j + 1]
  <2>1. s \in Seq(lv)
    BY DEF Reads
  <2> QED
    BY <1>1, <1>3, <2>1, RemoveAtPositions
<1>6. \A j \in 1..(L - 1) : t[j] \in lv \ {s[k]}
  <2> TAKE j \in 1..(L - 1)
  <2>1. CASE j < k
    <3>1. t[j] = s[j] /\ j \in 1..L /\ k \in 1..L /\ j # k
      BY <1>1, <1>5, <2>1
    <3> QED
      BY <1>2, <1>4, <3>1
  <2>2. CASE ~(j < k)
    <3>1. t[j] = s[j + 1] /\ j + 1 \in 1..L /\ k \in 1..L /\ j + 1 # k
      BY <1>1, <1>5, <2>2
    <3> QED
      BY <1>2, <1>4, <3>1
  <2> QED
    BY <2>1, <2>2
<1>7. t \in Seq(lv \ {s[k]})
  <2>1. PICK S : S = lv \ {s[k]}
    OBVIOUS
  <2>2. t = [i \in 1..(L - 1) |-> t[i]]
    BY <1>5
  <2>3. L - 1 \in Nat
    BY <1>1
  <2>4. [i \in 1..(L - 1) |-> t[i]] \in Seq(S)
    BY <1>6, <2>1, <2>3
  <2> QED
    BY <2>1, <2>2, <2>4
<1>8. \A x \in lv \ {s[k]} : \E i \in 1..Len(t) : t[i] = x
  <2> TAKE x \in lv \ {s[k]}
  <2>1. PICK i \in 1..L : s[i] = x
    BY <1>1 DEF Reads
  <2>2. CASE i < k
    <3>1. i \in 1..(L - 1)
      BY <1>1, <2>2
    <3> QED
      BY <1>5, <2>1, <2>2, <3>1
  <2>3. CASE i > k
    <3>1. i - 1 \in 1..(L - 1) /\ ~(i - 1 < k) /\ (i - 1) + 1 = i
      BY <1>1, <2>3
    <3> QED
      BY <1>5, <2>1, <3>1
  <2> QED
    BY <1>1, <2>1, <2>2, <2>3
<1>9. \A i, j \in 1..Len(t) : t[i] = t[j] => i = j
  <2> SUFFICES ASSUME NEW i \in 1..(L - 1), NEW j \in 1..(L - 1), t[i] = t[j], i < j
               PROVE  FALSE
    BY <1>1, <1>5
  <2>1. PICK a \in 1..L : t[i] = s[a] /\ a = IF i < k THEN i ELSE i + 1
    BY <1>1, <1>5
  <2>2. PICK b \in 1..L : t[j] = s[b] /\ b = IF j < k THEN j ELSE j + 1
    BY <1>1, <1>5
  <2>3. a = b
    BY <1>4, <2>1, <2>2
  <2>4. a < b
    BY <2>1, <2>2
  <2> QED
    BY <2>3, <2>4
<1>10. /\ \A i \in 0..(k - 1) : Place(t, i) = Place(s, i)
       /\ \A i \in Nat : i >= k => Place(t, i) = Place(s, i + 1)
  <2>1. ASSUME NEW i \in 0..(k - 1) PROVE Place(t, i) = Place(s, i)
    <3>1. i = 0 \/ (i \in 1..(L - 1) /\ i < k /\ i <= L)
      BY <1>1
    <3> QED
      BY <1>1, <1>5, <3>1 DEF Place
  <2>2. ASSUME NEW i \in Nat, i >= k PROVE Place(t, i) = Place(s, i + 1)
    BY <1>1, <1>5, <2>2 DEF Place
  <2> QED
    BY <2>1, <2>2
<1>11. \A i \in 0..L : Place(s, i) \in lv \cup {head} /\ \A j \in 0..L : Place(s, i) = Place(s, j) => i = j
  <2>1. \A i \in 1..L : Place(s, i) = s[i] /\ s[i] \in lv
    BY <1>1, <1>2 DEF Place
  <2>2. Place(s, 0) = head /\ head \notin lv
    BY ChainAssumption DEF Place
  <2>3. ASSUME NEW i \in 0..L PROVE Place(s, i) \in lv \cup {head}
    BY <2>1, <2>2
  <2>4. ASSUME NEW i \in 0..L, NEW j \in 0..L, Place(s, i) = Place(s, j) PROVE i = j
    <3>1. CASE i = 0
      BY <2>1, <2>2, <2>4, <3>1
    <3>2. CASE j = 0
      BY <2>1, <2>2, <2>4, <3>2
    <3>3. CASE i # 0 /\ j # 0
      BY <1>4, <2>1, <2>4, <3>3
    <3> QED
      BY <3>1, <3>2, <3>3
  <2> QED
    BY <2>3, <2>4
<1>12. \A i \in 0..Len(t) : nx2[Place(t, i)] = Place(t, i + 1)
  <2> SUFFICES ASSUME NEW i \in 0..(L - 1) PROVE nx2[Place(t, i)] = Place(t, i + 1)
    BY <1>5
  <2>1. \A j \in 0..L : nx[Place(s, j)] = Place(s, j + 1)
    BY <1>1 DEF Reads
  <2>2. k \in 0..L /\ Place(s, k) = s[k] /\ k - 1 \in 0..L
    BY <1>1 DEF Place
  <2>3. CASE i < k - 1
    <3>1. i \in 0..(k - 1) /\ i + 1 \in 0..(k - 1) /\ i \in 0..L /\ i # k /\ i # k - 1
      BY <1>1, <2>3
    <3>2. Place(s, i) # s[k] /\ Place(s, i) # Place(s, k - 1) /\ Place(s, i) \in lv \cup {head}
      BY <1>11, <2>2, <3>1
    <3>3. nx2[Place(s, i)] = nx[Place(s, i)]
      BY <3>2
    <3> QED
      BY <1>10, <2>1, <3>1, <3>3
  <2>4. CASE i = k - 1
    <3>1. i \in 0..(k - 1) /\ i + 1 = k /\ k >= k /\ k \in Nat /\ k - 1 # k
      BY <2>4
    <3>2. Place(s, k - 1) # s[k] /\ Place(s, k - 1) \in lv \cup {head}
      BY <1>11, <2>2, <3>1
    <3>3. nx2[Place(s, k - 1)] = nx[s[k]]
      BY <3>2
    <3>4. nx[s[k]] = Place(s, k + 1)
      BY <2>1, <2>2
    <3>5. Place(t, k) = Place(s, k + 1) /\ Place(t, k - 1) = Place(s, k - 1)
      BY <1>10, <2>4, <3>1
    <3> QED
      BY <2>4, <3>1, <3>3, <3>4, <3>5
  <2>5. CASE i > k - 1
    <3>1. /\ i \in Nat /\ i + 1 \in Nat /\ i >= k /\ i + 1 >= k /\ i + 1 \in 0..L
          /\ i + 1 # k /\ i + 1 # k - 1
      BY <1>1, <2>5
    <3>2. Place(s, i + 1) # s[k] /\ Place(s, i + 1) # Place(s, k - 1) /\ Place(s, i + 1) \in lv \cup {head}
      BY <1>11, <2>2, <3>1
    <3>3. nx2[Place(s, i + 1)] = nx[Place(s, i + 1)]
      BY <3>2
    <3>4. nx[Place(s, i + 1)] = Place(s, (i + 1) + 1)
      BY <2>1, <3>1
    <3> QED
      BY <1>10, <3>1, <3>3, <3>4
  <2> QED
    BY <1>1, <2>3, <2>4, <2>5
<1> QED
  BY <1>3, <1>7, <1>8, <1>9, <1>12 DEF Reads

\* InsertAt as a function.
LEMMA InsertAtIs ==
    ASSUME NEW S, NEW s \in Seq(S), NEW i \in 1..(Len(s) + 1), NEW e \in S
    PROVE  InsertAt(s, i, e) = [j \in 1..(Len(s) + 1) |->
                                  IF j < i THEN s[j] ELSE IF j = i THEN e ELSE s[j - 1]]
<1>1. /\ InsertAt(s, i, e) \in Seq(S) /\ Len(InsertAt(s, i, e)) = Len(s) + 1
      /\ \A j \in 1..(Len(s) + 1) :
            InsertAt(s, i, e)[j] = IF j < i THEN s[j] ELSE IF j = i THEN e ELSE s[j - 1]
  BY InsertAtPositions
<1>2. PICK t : t = InsertAt(s, i, e)
  OBVIOUS
<1>3. t = [j \in 1..(Len(s) + 1) |-> t[j]]
  BY <1>1, <1>2
<1> QED
  BY <1>1, <1>2, <1>3

\* What the two do to the sequence of FilterSequence.
LEMMA ListInserted ==
    ASSUME NEW lv \in SUBSET Cells, NEW s \in Seq(lv), NEW k \in 1..(Len(s) + 1), NEW e \in Cells, e \notin lv,
           NEW nm, NEW fl, NEW nm2, NEW fl2, \A x \in lv : nm2[x] = nm[x] /\ fl2[x] = fl[x],
           NEW r, r = [name |-> nm2[e], filter |-> fl2[e]]
    PROVE  ListOf(InsertAt(s, k, e), nm2, fl2) = InsertAt(ListOf(s, nm, fl), k, r)
<1>1. PICK L \in Nat : L = Len(s)
  BY LenProperties
<1>2. \A i \in 1..L : s[i] \in lv
  BY <1>1, ElementOfSeq
<1>3. PICK t : t = InsertAt(s, k, e)
  OBVIOUS
<1>4. /\ Len(t) = L + 1
      /\ \A j \in 1..(L + 1) : t[j] = IF j < k THEN s[j] ELSE IF j = k THEN e ELSE s[j - 1]
  <2>1. PICK S : S = lv \cup {e}
    OBVIOUS
  <2>2. s \in Seq(S) /\ e \in S
    BY <2>1
  <2>3. PICK i \in 1..(Len(s) + 1) : i = k
    OBVIOUS
  <2>4. /\ Len(InsertAt(s, i, e)) = Len(s) + 1
        /\ \A j \in 1..(Len(s) + 1) :
              InsertAt(s, i, e)[j] = IF j < i THEN s[j] ELSE IF j = i THEN e ELSE s[j - 1]
    BY <2>2, InsertAtPositions
  <2> QED
    BY <1>1, <1>3, <2>3, <2>4
<1>5a. PICK c : c = ListOf(s, nm, fl)
  OBVIOUS
<1>5b. PICK d : d = r
  OBVIOUS
<1>5c. PICK S : S = {c[i] : i \in 1..L} \cup {d}
  OBVIOUS
<1>5. d = r /\ c = ListOf(s, nm, fl) /\ S = {c[i] : i \in 1..L} \cup {d}
  BY <1>5a, <1>5b, <1>5c
<1>6. c \in Seq(S) /\ Len(c) = L /\ \A i \in 1..L : c[i] = [name |-> nm[s[i]], filter |-> fl[s[i]]]
  <2>1. c = [i \in 1..L |-> [name |-> nm[s[i]], filter |-> fl[s[i]]]]
    BY <1>1, <1>5 DEF ListOf
  <2>2. c = [i \in 1..L |-> c[i]]
    BY <2>1
  <2>3. \A i \in 1..L : c[i] \in S
    BY <1>5
  <2>4. [i \in 1..L |-> c[i]] \in Seq(S)
    BY <2>3
  <2> QED
    BY <2>1, <2>2, <2>4
<1>7. PICK u : u = InsertAt(c, k, d)
  OBVIOUS
<1>8. /\ u \in Seq(S) /\ Len(u) = L + 1
      /\ \A j \in 1..(L + 1) : u[j] = IF j < k THEN c[j] ELSE IF j = k THEN d ELSE c[j - 1]
  <2>1. d \in S /\ k \in 1..(Len(c) + 1)
    BY <1>1, <1>5, <1>6
  <2>a. PICK i \in 1..(Len(c) + 1) : i = k
    BY <2>1
  <2>b. c \in Seq(S) /\ d \in S
    BY <1>6, <2>1
  <2>c. InsertAt(c, i, d) \in Seq(S)
    BY <2>b, InsertAtPositions
  <2>d. Len(InsertAt(c, i, d)) = Len(c) + 1
    BY <2>b, InsertAtPositions
  <2>e. \A j \in 1..(Len(c) + 1) :
              InsertAt(c, i, d)[j] = IF j < i THEN c[j] ELSE IF j = i THEN d ELSE c[j - 1]
    BY <2>b, InsertAtIs
  <2> QED
    BY <1>6, <1>7, <2>a, <2>c, <2>d, <2>e
<1>9. PICK v : v = ListOf(t, nm2, fl2)
  OBVIOUS
<1>10. v = [i \in 1..(L + 1) |-> [name |-> nm2[t[i]], filter |-> fl2[t[i]]]]
  BY <1>4, <1>9 DEF ListOf
<1>11. ASSUME NEW i \in 1..(L + 1) PROVE v[i] = u[i]
  <2>1. v[i] = [name |-> nm2[t[i]], filter |-> fl2[t[i]]]
    BY <1>10
  <2>2. CASE i = k
    <3>1. t[i] = e /\ u[i] = d
      BY <1>1, <1>4, <1>8, <2>2
    <3> QED
      BY <1>5, <2>1, <3>1
  <2>3. CASE i # k
    <3>1. PICK j \in 1..L : t[i] = s[j] /\ u[i] = c[j]
      <4>1. CASE i < k
        BY <1>1, <1>4, <1>8, <4>1
      <4>2. CASE i > k
        <5>1. i - 1 \in 1..L
          BY <1>1, <4>2
        <5> QED
          BY <1>1, <1>4, <1>8, <4>2, <5>1
      <4> QED
        BY <1>1, <2>3, <4>1, <4>2
    <3>2. s[j] \in lv /\ s[j] \in Cells /\ s[j] # e
      BY <1>2
    <3>3. nm2[s[j]] = nm[s[j]] /\ fl2[s[j]] = fl[s[j]]
      BY <3>2
    <3> QED
      BY <1>6, <2>1, <3>1, <3>3
  <2> QED
    BY <2>2, <2>3
<1>12. v = u
  <2>1. u = [i \in 1..(L + 1) |-> u[i]]
    BY <1>8
  <2>2. v = [i \in 1..(L + 1) |-> v[i]]
    BY <1>10
  <2> QED
    BY <1>11, <2>1, <2>2
<1> QED
  BY <1>3, <1>5, <1>7, <1>9, <1>12

LEMMA ListRemoved ==
    ASSUME NEW lv \in SUBSET Cells, NEW s \in Seq(lv), NEW k \in 1..Len(s),
           \A i, j \in 1..Len(s) : s[i] = s[j] => i = j,
           NEW nm, NEW fl, NEW nm2, NEW fl2,
           \A x \in lv \ {s[k]} : nm2[x] = nm[x] /\ fl2[x] = fl[x]
    PROVE  ListOf(RemoveAt(s, k), nm2, fl2)
              = RemoveAt(ListOf(s, nm, fl), k)
<1>1. PICK L \in Nat : L = Len(s)
  BY LenProperties
<1>2. \A i \in 1..L : s[i] \in lv
  BY <1>1, ElementOfSeq
<1>3a. PICK t : t = RemoveAt(s, k)
  OBVIOUS
<1>3b. PICK e : e = s[k]
  OBVIOUS
<1>3. t = RemoveAt(s, k) /\ e = s[k]
  BY <1>3a, <1>3b
<1>4. Len(t) = L - 1 /\ \A j \in 1..(L - 1) : t[j] = IF j < k THEN s[j] ELSE s[j + 1]
  <2>1. s \in Seq(lv) /\ k \in 1..Len(s)
    OBVIOUS
  <2>2. /\ Len(RemoveAt(s, k)) = Len(s) - 1
        /\ \A j \in 1..(Len(s) - 1) : RemoveAt(s, k)[j] = IF j < k THEN s[j] ELSE s[j + 1]
    BY <2>1, RemoveAtPositions
  <2> QED
    BY <1>1, <1>3, <2>2
<1>5a. PICK c : c = ListOf(s, nm, fl)
  OBVIOUS
<1>5b. PICK S : S = {c[i] : i \in 1..L}
  OBVIOUS
<1>5. c = ListOf(s, nm, fl) /\ S = {c[i] : i \in 1..L}
  BY <1>5a, <1>5b
<1>6. c \in Seq(S) /\ Len(c) = L /\ \A i \in 1..L : c[i] = [name |-> nm[s[i]], filter |-> fl[s[i]]]
  <2>1. c = [i \in 1..L |-> [name |-> nm[s[i]], filter |-> fl[s[i]]]]
    BY <1>1, <1>5 DEF ListOf
  <2>2. c = [i \in 1..L |-> c[i]]
    BY <2>1
  <2>3. \A i \in 1..L : c[i] \in S
    BY <1>5
  <2>4. [i \in 1..L |-> c[i]] \in Seq(S)
    BY <2>3
  <2> QED
    BY <2>1, <2>2, <2>4
<1>7. PICK u : u = RemoveAt(c, k)
  OBVIOUS
<1>8. /\ u \in Seq(S) /\ Len(u) = L - 1
      /\ \A j \in 1..(L - 1) : u[j] = IF j < k THEN c[j] ELSE c[j + 1]
  <2>1. k \in 1..Len(c)
    BY <1>1, <1>6
  <2>2. /\ RemoveAt(c, k) \in Seq(S) /\ Len(RemoveAt(c, k)) = Len(c) - 1
        /\ \A j \in 1..(Len(c) - 1) : RemoveAt(c, k)[j] = IF j < k THEN c[j] ELSE c[j + 1]
    BY <1>6, <2>1, RemoveAtPositions
  <2> QED
    BY <1>6, <1>7, <2>2
<1>9. PICK v : v = ListOf(t, nm2, fl2)
  OBVIOUS
<1>10. v = [i \in 1..(L - 1) |-> [name |-> nm2[t[i]], filter |-> fl2[t[i]]]]
  BY <1>4, <1>9 DEF ListOf
<1>11. ASSUME NEW i \in 1..(L - 1) PROVE v[i] = u[i]
  <2>1. v[i] = [name |-> nm2[t[i]], filter |-> fl2[t[i]]]
    BY <1>10
  <2>2. PICK j \in 1..L : t[i] = s[j] /\ u[i] = c[j] /\ j # k
    <3>1. CASE i < k
      BY <1>1, <1>4, <1>8, <3>1
    <3>2. CASE ~(i < k)
      <4>1. i + 1 \in 1..L /\ i + 1 # k
        BY <1>1, <3>2
      <4> QED
        BY <1>1, <1>4, <1>8, <3>2, <4>1
    <3> QED
      BY <3>1, <3>2
  <2>3. s[j] \in lv /\ s[j] # e
    BY <1>1, <1>2, <1>3, <2>2
  <2>4. nm2[s[j]] = nm[s[j]] /\ fl2[s[j]] = fl[s[j]]
    BY <1>3, <2>3
  <2> QED
    BY <1>6, <2>1, <2>2, <2>4
<1>12. v = u
  <2>1. u = [i \in 1..(L - 1) |-> u[i]]
    BY <1>8
  <2>2. v = [i \in 1..(L - 1) |-> v[i]]
    BY <1>10
  <2> QED
    BY <1>11, <2>1, <2>2
<1> QED
  BY <1>3, <1>5, <1>7, <1>9, <1>12

-----------------------------------------------------------------------------
(* The refinement: what FilterSequence sees is the list. *)

Mapped == [i \in 1 .. Length |-> [name |-> name[Walk[i - 1]], filter |-> filter[Walk[i - 1]]]]

Listed == \E s : Reads(s, next, live)

LEMMA MappedNow ==
    ASSUME IsFiniteSet(Cells), live \in SUBSET Cells, NEW s, Reads(s, next, live)
    PROVE  /\ Mapped = ListOf(s, name, filter)
           /\ DOMAIN Walk = 0..Cardinality(Nodes)
           /\ \A i \in 0..Cardinality(Nodes) : Walk[i] = Place(s, i + 1)
<1>1. Walk = Path(next, live)
  BY DEF Walk, Path
<1>2. Length = Cardinality({i \in DOMAIN Path(next, live) : Path(next, live)[i] \in live})
  BY <1>1 DEF Length
<1>3. [i \in 1 .. Cardinality({i \in DOMAIN Path(next, live) : Path(next, live)[i] \in live}) |->
          [name |-> name[Path(next, live)[i - 1]], filter |-> filter[Path(next, live)[i - 1]]]]
      = ListOf(s, name, filter)
  BY ValueIs
<1>4. Mapped = ListOf(s, name, filter)
  BY <1>1, <1>2, <1>3 DEF Mapped
<1>5. /\ DOMAIN Path(next, live) = 0..Cardinality(Nodes)
      /\ \A i \in 0..Cardinality(Nodes) : Path(next, live)[i] = Place(s, i + 1)
  BY PathIs
<1> QED
  BY <1>1, <1>4, <1>5

LEMMA MappedNext ==
    ASSUME IsFiniteSet(Cells), live' \in SUBSET Cells, NEW s, Reads(s, next', live')
    PROVE  Mapped' = ListOf(s, name', filter')
<1>1. Walk' = Path(next', live')
  BY DEF Walk, Path
<1>2. Length' = Cardinality({i \in DOMAIN Path(next', live') : Path(next', live')[i] \in live'})
  BY <1>1 DEF Length
<1>3. [i \in 1 .. Cardinality({i \in DOMAIN Path(next', live') : Path(next', live')[i] \in live'}) |->
          [name |-> name'[Path(next', live')[i - 1]], filter |-> filter'[Path(next', live')[i - 1]]]]
      = ListOf(s, name', filter')
  BY ValueIs
<1> QED
  BY <1>1, <1>2, <1>3 DEF Mapped

\* The links back lead to the place before.
LEMMA Before ==
    ASSUME ChainInv, NEW s, Reads(s, next, live)
    PROVE  /\ \A k \in 1..Len(s) : prev[s[k]] = Place(s, k - 1)
           /\ prev[tail] = Place(s, Len(s))
           /\ \A k \in 0..Len(s) : Place(s, k) \in live \cup {head}
           /\ live \in SUBSET Cells
<1>1. live \in SUBSET Cells
  BY DEF ChainInv, Chained, TypeOK
<1>2. /\ Len(s) \in Nat
      /\ \A i \in 1..Len(s) : Place(s, i) = s[i]
      /\ \A i \in 1..Len(s) : Place(s, i) \in live
      /\ Place(s, 0) = head /\ \A i \in Nat : i > Len(s) => Place(s, i) = tail
  <2>1. s \in Seq(live)
    BY DEF Reads
  <2>2. Len(s) \in Nat
    BY <2>1, LenProperties
  <2>3. \A i \in 1..Len(s) : s[i] \in live
    BY <2>1, ElementOfSeq
  <2> QED
    BY <2>2, <2>3 DEF Place
<1>3. \A k \in 0..Len(s) : next[Place(s, k)] = Place(s, k + 1)
  BY DEF Reads
<1>4. \A k \in 0..Len(s) : Place(s, k) \in live \cup {head}
  BY <1>2
<1>5. \A e \in live \cup {head} : prev[next[e]] = e
  BY DEF ChainInv, Chained, LinksAgree
<1>6. ASSUME NEW k \in 1..Len(s) PROVE prev[s[k]] = Place(s, k - 1)
  <2>1. k - 1 \in 0..Len(s) /\ (k - 1) + 1 = k
    BY <1>2
  <2>2. next[Place(s, k - 1)] = s[k]
    BY <1>2, <1>3, <2>1
  <2> QED
    BY <1>4, <1>5, <2>1, <2>2
<1>7. prev[tail] = Place(s, Len(s))
  <2>1. Len(s) \in 0..Len(s) /\ Len(s) + 1 \in Nat /\ Len(s) + 1 > Len(s)
    BY <1>2
  <2>2. next[Place(s, Len(s))] = tail
    BY <1>2, <1>3, <2>1
  <2> QED
    BY <1>4, <1>5, <2>1, <2>2
<1> QED
  BY <1>1, <1>4, <1>6, <1>7

LEMMA RegisterList ==
    ASSUME IsFiniteSet(Cells), ChainInv, NEW s, Reads(s, next, live),
           NEW p \in live \cup {head}, NEW n \in Names, NEW f \in Filters, Register(p, n, f)
    PROVE  \A k \in 0..Len(s) : p = Place(s, k) =>
              Listed' /\ Mapped' = InsertAt(Mapped, k + 1, [name |-> n, filter |-> f])
<1>1. Chained
  BY DEF ChainInv
<1>2. PICK e \in unused :
            /\ e \in Cells /\ e \notin live /\ e # p /\ next[p] \in live \cup {tail}
            /\ e # next[p]
            /\ next' \in [Nodes -> Nodes \cup {Null}]
            /\ prev' \in [Nodes -> Nodes \cup {Null}]
            /\ \A x \in Nodes : next'[x] = IF x = p THEN e ELSE IF x = e THEN next[p] ELSE next[x]
            /\ \A x \in Nodes : prev'[x] = IF x = next[p] THEN e ELSE IF x = e THEN p ELSE prev[x]
            /\ unused' = unused \ {e} /\ live' = live \cup {e}
            /\ name' = [name EXCEPT ![e] = n]
            /\ filter' = [filter EXCEPT ![e] = f]
            /\ name2entry' = [name2entry EXCEPT ![n] = e]
            /\ stack' = stack /\ present' = present /\ clearing' = clearing
  BY <1>1, RegisterEffect
<1> TAKE k \in 0..Len(s)
<1> HAVE p = Place(s, k)
<1>3. live \in SUBSET Cells /\ live' \in SUBSET Cells /\ DOMAIN name = Cells /\ DOMAIN filter = Cells
  BY <1>2 DEF ChainInv, Chained, TypeOK
<1>4. \A x \in live \cup {e, head} :
         next'[x] = IF x = Place(s, k) THEN e ELSE IF x = e THEN next[Place(s, k)] ELSE next[x]
  BY <1>1, <1>2, <1>3 DEF Nodes
<1>5. PICK nx2 : nx2 = next'
  OBVIOUS
<1>6. \A x \in live \cup {e, head} :
         nx2[x] = IF x = Place(s, k) THEN e ELSE IF x = e THEN next[Place(s, k)] ELSE next[x]
  BY <1>4, <1>5
<1>7. Reads(InsertAt(s, k + 1, e), nx2, live \cup {e})
  BY <1>2, <1>3, <1>6, ReadsInserted
<1>8. PICK t : t = InsertAt(s, k + 1, e)
  OBVIOUS
<1>9. Reads(t, next', live')
  BY <1>2, <1>5, <1>7, <1>8
<1>10. Mapped = ListOf(s, name, filter)
  BY <1>3, MappedNow
<1>11. Mapped' = ListOf(t, name', filter')
  BY <1>3, <1>9, MappedNext
<1>12. PICK r : r = [name |-> n, filter |-> f]
  OBVIOUS
<1>13. ListOf(t, name', filter') = InsertAt(ListOf(s, name, filter), k + 1, r)
  <2>1. s \in Seq(live) /\ Len(s) \in Nat
    BY <1>3, ReadsFacts DEF Reads
  <2>2. PICK i \in 1..(Len(s) + 1) : i = k + 1
    BY <2>1
  <2>3. PICK nm : nm = name
    OBVIOUS
  <2>4. PICK fl : fl = filter
    OBVIOUS
  <2>5. PICK nm2 : nm2 = name'
    OBVIOUS
  <2>6. PICK fl2 : fl2 = filter'
    OBVIOUS
  <2>7. PICK lv \in SUBSET Cells : lv = live
    BY <1>3
  <2>8. \A x \in lv : nm2[x] = nm[x] /\ fl2[x] = fl[x]
    BY <1>2, <1>3, <2>3, <2>4, <2>5, <2>6, <2>7
  <2>9. r = [name |-> nm2[e], filter |-> fl2[e]]
    BY <1>2, <1>3, <1>12, <2>5, <2>6
  <2>10. s \in Seq(lv) /\ e \in Cells /\ e \notin lv
    BY <1>2, <2>1, <2>7
  <2>11. ListOf(InsertAt(s, i, e), nm2, fl2) = InsertAt(ListOf(s, nm, fl), i, r)
    BY <2>8, <2>9, <2>10, ListInserted
  <2> QED
    BY <1>8, <2>2, <2>3, <2>4, <2>5, <2>6, <2>11
<1> QED
  BY <1>9, <1>10, <1>11, <1>12, <1>13 DEF Listed

LEMMA DeregisterList ==
    ASSUME IsFiniteSet(Cells), ChainInv, NEW s, Reads(s, next, live), NEW k \in 1..Len(s),
           Deregister(s[k])
    PROVE  Listed' /\ Mapped' = RemoveAt(Mapped, k)
<1>1. /\ live \in SUBSET Cells /\ DOMAIN name = Cells /\ DOMAIN filter = Cells
      /\ s[k] \in live /\ prev[s[k]] = Place(s, k - 1) /\ s \in Seq(live)
  <2>1. live \in SUBSET Cells /\ DOMAIN name = Cells /\ DOMAIN filter = Cells
    BY DEF ChainInv, Chained, TypeOK
  <2>2. \A i \in 1..Len(s) : s[i] \in live
    BY <2>1, ReadsFacts
  <2>3. \A i \in 1..Len(s) : prev[s[i]] = Place(s, i - 1)
    BY Before
  <2>4. s \in Seq(live)
    BY DEF Reads
  <2> QED
    BY <2>1, <2>2, <2>3, <2>4
<1>2. PICK e \in live : e = s[k]
  BY <1>1
<1>3. /\ \A x \in Nodes : next'[x] = IF x = e THEN Null
                                          ELSE IF x = prev[e] THEN next[e] ELSE next[x]
      /\ live' = live \ {e}
      /\ name' = [name EXCEPT ![e] = Null]
      /\ filter' = [filter EXCEPT ![e] = Null]
  <2>1. Deregister(e)
    BY <1>2
  <2> QED
    BY <2>1, DeregisterEffect
<1>4. PICK nx2 : nx2 = next'
  OBVIOUS
<1>5. \A x \in (live \cup {head}) \ {s[k]} :
         nx2[x] = IF x = Place(s, k - 1) THEN next[s[k]] ELSE next[x]
  BY <1>1, <1>2, <1>3, <1>4 DEF Nodes
<1>6. Reads(RemoveAt(s, k), nx2, live \ {s[k]})
  BY <1>1, <1>5, ReadsRemoved
<1>7. PICK t : t = RemoveAt(s, k)
  OBVIOUS
<1>8. Reads(t, next', live') /\ live' \in SUBSET Cells
  BY <1>1, <1>2, <1>3, <1>4, <1>6, <1>7
<1>9. Mapped = ListOf(s, name, filter)
  BY <1>1, MappedNow
<1>10. Mapped' = ListOf(t, name', filter')
  BY <1>8, MappedNext
<1>11. ListOf(t, name', filter') = RemoveAt(ListOf(s, name, filter), k)
  <2>1. \A i, j \in 1..Len(s) : s[i] = s[j] => i = j
    BY DEF Reads
  <2>2. PICK nm : nm = name
    OBVIOUS
  <2>3. PICK fl : fl = filter
    OBVIOUS
  <2>4. PICK nm2 : nm2 = name'
    OBVIOUS
  <2>5. PICK fl2 : fl2 = filter'
    OBVIOUS
  <2>6. PICK lv \in SUBSET Cells : lv = live
    BY <1>1
  <2>7. \A x \in lv \ {s[k]} : nm2[x] = nm[x] /\ fl2[x] = fl[x]
    BY <1>1, <1>2, <1>3, <2>2, <2>3, <2>4, <2>5, <2>6
  <2>8. s \in Seq(lv)
    BY <1>1, <2>6
  <2>9. ListOf(RemoveAt(s, k), nm2, fl2) = RemoveAt(ListOf(s, nm, fl), k)
    BY <2>1, <2>7, <2>8, ListRemoved
  <2> QED
    BY <1>7, <2>2, <2>3, <2>4, <2>5, <2>9
<1> QED
  BY <1>8, <1>9, <1>10, <1>11 DEF Listed

\* A name in the sequence and in the map.
LEMMA NamesMapped ==
    ASSUME IsFiniteSet(Cells), ChainInv, NEW s, Reads(s, next, live), NEW n \in Names
    PROVE  /\ Addable(n) => List!Named(Mapped, n) = {}
           /\ name2entry[n] # Null =>
                 \E k \in 1..Len(s) : s[k] = name2entry[n] /\ k \in List!Named(Mapped, n)
           /\ DOMAIN Mapped = 1..Len(s) /\ Len(Mapped) = Len(s)
           /\ \A k \in 1..Len(s) : /\ Mapped[k].name = name[s[k]]
                                   /\ Mapped[k].filter = filter[s[k]]
<1>1. live \in SUBSET Cells /\ Len(s) \in Nat /\ \A k \in 1..Len(s) : s[k] \in live
  BY Before, ReadsFacts
<1>2. Mapped = [i \in 1..Len(s) |-> [name |-> name[s[i]], filter |-> filter[s[i]]]]
  BY <1>1, MappedNow DEF ListOf
<1>3. /\ DOMAIN Mapped = 1..Len(s)
      /\ \A k \in 1..Len(s) : Mapped[k].name = name[s[k]] /\ Mapped[k].filter = filter[s[k]]
  BY <1>2
<1>4. Len(Mapped) = Len(s)
  BY <1>1, <1>2
<1>5. /\ name2entry[n] # Null => name2entry[n] \in live /\ name[name2entry[n]] = n
      /\ \A e \in live : name2entry[name[e]] = e
      /\ Null \notin live
  BY <1>1, ChainAssumption DEF ChainInv, Chained, MapMatchesList
<1>6. ASSUME Addable(n) PROVE List!Named(Mapped, n) = {}
  <2>1. ASSUME NEW k \in 1..Len(s), Mapped[k].name = n PROVE FALSE
    BY <1>1, <1>3, <1>5, <1>6, <2>1 DEF Addable
  <2> QED
    BY <1>3, <2>1 DEF List!Named
<1>7. ASSUME name2entry[n] # Null
      PROVE  \E k \in 1..Len(s) : s[k] = name2entry[n] /\ k \in List!Named(Mapped, n)
  <2>1. PICK k \in 1..Len(s) : s[k] = name2entry[n]
    BY <1>5, <1>7 DEF Reads
  <2>2. Mapped[k].name = n
    BY <1>3, <1>5, <1>7, <2>1
  <2> QED
    BY <1>3, <2>1, <2>2 DEF List!Named
<1> QED
  BY <1>3, <1>4, <1>6, <1>7

\* Each call is the one of the same name.
LEMMA AddFirstMapped ==
    ASSUME IsFiniteSet(Cells), ChainInv, Listed, NEW n \in Names, NEW f \in Filters,
           AddFirst(n, f)
    PROVE  Listed' /\ List!AddFirst(n, f)
<1>1. PICK s : Reads(s, next, live)
  BY DEF Listed
<1>2. Register(head, n, f) /\ Addable(n)
  BY DEF AddFirst
<1>3. PICK k \in 0..Len(s) : k = 0 /\ head = Place(s, k)
  <2>1. live \in SUBSET Cells
    BY DEF ChainInv, Chained, TypeOK
  <2> QED
    BY <1>1, <2>1, ReadsFacts
<1>4. PICK p \in live \cup {head} : p = head
  OBVIOUS
<1>5. Listed' /\ Mapped' = InsertAt(Mapped, k + 1, [name |-> n, filter |-> f])
  BY <1>1, <1>2, <1>3, <1>4, RegisterList
<1>6. List!Named(Mapped, n) = {}
  BY <1>1, <1>2, NamesMapped
<1>7. Mapped' = List!Insert(Mapped, 1, n, f)
  BY <1>3, <1>5 DEF List!Insert, InsertAt, List!InsertAt
<1> QED
  BY <1>5, <1>6, <1>7 DEF Mapped, List!AddFirst

LEMMA AddLastMapped ==
    ASSUME IsFiniteSet(Cells), ChainInv, Listed, NEW n \in Names, NEW f \in Filters,
           AddLast(n, f)
    PROVE  Listed' /\ List!AddLast(n, f)
<1>1. PICK s : Reads(s, next, live)
  BY DEF Listed
<1>2. Register(prev[tail], n, f) /\ Addable(n)
  BY DEF AddLast
<1>3. PICK k \in 0..Len(s) : k = Len(s)
  <2>1. live \in SUBSET Cells
    BY DEF ChainInv, Chained, TypeOK
  <2>2. Len(s) \in Nat
    BY <1>1, <2>1, ReadsFacts
  <2> QED
    BY <2>2
<1>4. PICK p \in live \cup {head} : p = prev[tail] /\ p = Place(s, k)
  BY <1>1, <1>3, Before
<1>5. Register(p, n, f)
  BY <1>2, <1>4
<1>6. Listed' /\ Mapped' = InsertAt(Mapped, k + 1, [name |-> n, filter |-> f])
  BY <1>1, <1>4, <1>5, RegisterList
<1>7. List!Named(Mapped, n) = {} /\ Len(Mapped) = Len(s)
  BY <1>1, <1>2, NamesMapped
<1>8. Mapped' = List!Insert(Mapped, Len(Mapped) + 1, n, f)
  BY <1>3, <1>6, <1>7 DEF List!Insert, InsertAt, List!InsertAt
<1> QED
  BY <1>6, <1>7, <1>8 DEF Mapped, List!AddLast

LEMMA AddBeforeMapped ==
    ASSUME IsFiniteSet(Cells), ChainInv, Listed, NEW n \in Names, NEW f \in Filters,
           NEW b \in Names, AddBefore(b, n, f)
    PROVE  Listed' /\ List!AddBefore(b, n, f)
<1>1. PICK s : Reads(s, next, live)
  BY DEF Listed
<1>2. name2entry[b] # Null /\ Register(prev[name2entry[b]], n, f) /\ Addable(n)
  BY DEF AddBefore
<1>3. PICK i \in 1..Len(s) : s[i] = name2entry[b] /\ i \in List!Named(Mapped, b)
  BY <1>1, <1>2, NamesMapped
<1>4. PICK k \in 0..Len(s) : k = i - 1
  <2>1. live \in SUBSET Cells
    BY DEF ChainInv, Chained, TypeOK
  <2>2. Len(s) \in Nat
    BY <1>1, <2>1, ReadsFacts
  <2> QED
    BY <2>2
<1>5. PICK p \in live \cup {head} : p = prev[s[i]] /\ p = Place(s, k)
  BY <1>1, <1>4, Before
<1>6. Register(p, n, f)
  BY <1>2, <1>3, <1>5
<1>7. Listed' /\ Mapped' = InsertAt(Mapped, k + 1, [name |-> n, filter |-> f])
  BY <1>1, <1>5, <1>6, RegisterList
<1>8. List!Named(Mapped, n) = {}
  BY <1>1, <1>2, NamesMapped
<1>9. k + 1 = i
  BY <1>4
<1>10. Mapped' = List!Insert(Mapped, i, n, f)
  BY <1>7, <1>9 DEF List!Insert, InsertAt, List!InsertAt
<1> QED
  BY <1>3, <1>7, <1>8, <1>10 DEF Mapped, List!AddBefore

LEMMA AddAfterMapped ==
    ASSUME IsFiniteSet(Cells), ChainInv, Listed, NEW n \in Names, NEW f \in Filters,
           NEW b \in Names, AddAfter(b, n, f)
    PROVE  Listed' /\ List!AddAfter(b, n, f)
<1>1. PICK s : Reads(s, next, live)
  BY DEF Listed
<1>2. name2entry[b] # Null /\ Register(name2entry[b], n, f) /\ Addable(n)
  BY DEF AddAfter
<1>3. PICK i \in 1..Len(s) : s[i] = name2entry[b] /\ i \in List!Named(Mapped, b)
  BY <1>1, <1>2, NamesMapped
<1>4. live \in SUBSET Cells
  BY DEF ChainInv, Chained, TypeOK
<1>5. PICK k \in 0..Len(s) : k = i
  OBVIOUS
<1>6. PICK p \in live \cup {head} : p = s[i] /\ p = Place(s, k)
  BY <1>1, <1>4, <1>5, ReadsFacts
<1>7. Register(p, n, f)
  BY <1>2, <1>3, <1>6
<1>8. Listed' /\ Mapped' = InsertAt(Mapped, k + 1, [name |-> n, filter |-> f])
  BY <1>1, <1>6, <1>7, RegisterList
<1>9. List!Named(Mapped, n) = {}
  BY <1>1, <1>2, NamesMapped
<1>10. Mapped' = List!Insert(Mapped, i + 1, n, f)
  BY <1>5, <1>8 DEF List!Insert, InsertAt, List!InsertAt
<1> QED
  BY <1>3, <1>8, <1>9, <1>10 DEF Mapped, List!AddAfter

\* An entry that is removed takes its name with it.
LEMMA RemovalMapped ==
    ASSUME IsFiniteSet(Cells), ChainInv, Listed, NEW n \in Names, name2entry[n] # Null,
           Deregister(name2entry[n])
    PROVE  Listed' /\ List!RemoveName(n)
<1>1. PICK s : Reads(s, next, live)
  BY DEF Listed
<1>2. PICK i \in 1..Len(s) : s[i] = name2entry[n] /\ i \in List!Named(Mapped, n)
  BY <1>1, NamesMapped
<1>3. Deregister(s[i])
  BY <1>2
<1>4. Listed' /\ Mapped' = RemoveAt(Mapped, i)
  BY <1>1, <1>3, DeregisterList
<1>5. Mapped' = List!RemoveAt(Mapped, i)
  BY <1>4 DEF RemoveAt, List!RemoveAt
<1> QED
  BY <1>2, <1>4, <1>5 DEF Mapped, List!RemoveName

LEMMA RemoveFilterMapped ==
    ASSUME IsFiniteSet(Cells), ChainInv, Listed, NEW f \in Filters, RemoveFilter(f)
    PROVE  Listed' /\ List!RemoveFilter(f)
<1>1. PICK s : Reads(s, next, live)
  BY DEF Listed
<1>2. live \in SUBSET Cells
  BY DEF ChainInv, Chained, TypeOK
<1>3. DOMAIN Walk = 0..Cardinality(Nodes) /\ \A j \in 0..Cardinality(Nodes) : Walk[j] = Place(s, j + 1)
  BY <1>1, <1>2, MappedNow
<1>4. /\ Len(s) \in Nat
      /\ \A j \in 1..Len(s) : Place(s, j) = s[j]
      /\ \A j \in Nat : j > Len(s) => Place(s, j) = tail
      /\ tail \notin live
  <2>1. Len(s) \in Nat /\ tail \notin live
    BY <1>1, <1>2, ChainAssumption DEF Reads
  <2>2. \A j \in 1..Len(s) : Place(s, j) = s[j]
    BY <2>1 DEF Place
  <2>3. \A j \in Nat : j > Len(s) => Place(s, j) = tail
    BY <2>1 DEF Place
  <2> QED
    BY <2>1, <2>2, <2>3
<1>5. Cardinality(Nodes) \in Nat
  BY <1>1, <1>2, ListFits
<1>6. PICK i \in DOMAIN Walk :
        /\ Walk[i] \in live
        /\ filter[Walk[i]] = f
        /\ \A j \in 0 .. i - 1 : filter[Walk[j]] # f
        /\ Deregister(Walk[i])
  BY DEF RemoveFilter
<1>7. PICK k \in 1..Len(s) : k = i + 1
  <2>1. i \in Nat /\ i + 1 \in Nat
    BY <1>6, <1>3, <1>5
  <2>2. CASE i + 1 > Len(s)
    <3>1. Walk[i] = tail
      BY <1>6, <1>3, <1>4, <2>1, <2>2
    <3> QED
      BY <1>6, <1>4, <3>1
  <2> QED
    BY <1>4, <2>1, <2>2
<1>8. Walk[i] = s[k]
  BY <1>6, <1>3, <1>4, <1>7
<1>9. \A j \in 1..(k - 1) : filter[s[j]] # f
  <2> TAKE j \in 1..(k - 1)
  <2>1. j \in 1..Len(s) /\ j - 1 \in 0..(i - 1) /\ j - 1 \in 0..Cardinality(Nodes) /\ (j - 1) + 1 = j
    BY <1>6, <1>3, <1>4, <1>5, <1>7
  <2>2. Walk[j - 1] = s[j]
    BY <1>3, <1>4, <2>1
  <2> QED
    BY <1>6, <2>1, <2>2
<1>10. Listed' /\ Mapped' = RemoveAt(Mapped, k)
  <2>1. Deregister(s[k])
    BY <1>6, <1>8
  <2> QED
    BY <1>1, <2>1, DeregisterList
<1>11. Mapped' = List!RemoveAt(Mapped, k)
  BY <1>10 DEF RemoveAt, List!RemoveAt
<1>12. /\ DOMAIN Mapped = 1..Len(s)
       /\ \A j \in 1..Len(s) : Mapped[j].filter = filter[s[j]]
  <2>1. Mapped = [j \in 1..Len(s) |-> [name |-> name[s[j]], filter |-> filter[s[j]]]]
    BY <1>1, <1>2, MappedNow DEF ListOf
  <2> QED
    BY <2>1
<1>13. k \in DOMAIN Mapped /\ Mapped[k].filter = f /\ \A j \in 1..(k - 1) : Mapped[j].filter # f
  BY <1>6, <1>4, <1>8, <1>9, <1>12
<1> QED
  BY <1>10, <1>11, <1>13 DEF Mapped, List!RemoveFilter

\* What a call does to the sequence, whichever step it is part of.
CallsMapped ==
    /\ \A n \in Names, f \in Filters :
        /\ AddFirst(n, f) => List!AddFirst(n, f)
        /\ AddLast(n, f) => List!AddLast(n, f)
        /\ \A b \in Names :
            /\ AddBefore(b, n, f) => List!AddBefore(b, n, f)
            /\ AddAfter(b, n, f) => List!AddAfter(b, n, f)
    /\ \A n \in Names : RemoveName(n) => List!RemoveName(n)
    /\ \A f \in Filters : RemoveFilter(f) => List!RemoveFilter(f)

LEMMA CallsStep ==
    ASSUME IsFiniteSet(Cells), ChainInv, Listed
    PROVE  CallsMapped
<1>1. ASSUME NEW n \in Names, NEW f \in Filters
      PROVE  /\ AddFirst(n, f) => List!AddFirst(n, f)
             /\ AddLast(n, f) => List!AddLast(n, f)
  BY AddFirstMapped, AddLastMapped
<1>2. ASSUME NEW n \in Names, NEW f \in Filters, NEW b \in Names
      PROVE  /\ AddBefore(b, n, f) => List!AddBefore(b, n, f)
             /\ AddAfter(b, n, f) => List!AddAfter(b, n, f)
  BY AddBeforeMapped, AddAfterMapped
<1>3. ASSUME NEW n \in Names, RemoveName(n)
      PROVE  List!RemoveName(n)
  BY <1>3, RemovalMapped DEF RemoveName
<1>4. ASSUME NEW f \in Filters, RemoveFilter(f)
      PROVE  List!RemoveFilter(f)
  BY <1>4, RemoveFilterMapped
<1> QED
  BY <1>1, <1>2, <1>3, <1>4 DEF CallsMapped

LEMMA ListQuiet ==
    ASSUME IsFiniteSet(Cells), ChainInv, Listed, UNCHANGED <<links, entries>>
    PROVE  Listed' /\ Mapped' = Mapped
<1>1. PICK s : Reads(s, next, live)
  BY DEF Listed
<1>2. next' = next /\ live' = live /\ name' = name /\ filter' = filter
  BY DEF links, entries
<1>3. live \in SUBSET Cells /\ live' \in SUBSET Cells /\ Reads(s, next', live')
  BY <1>1, <1>2 DEF ChainInv, Chained, TypeOK
<1>4. Mapped = ListOf(s, name, filter) /\ Mapped' = ListOf(s, name', filter')
  BY <1>1, <1>3, MappedNow, MappedNext
<1> QED
  BY <1>2, <1>3, <1>4 DEF Listed

LEMMA ListStep ==
    ASSUME IsFiniteSet(Cells), ChainInv, Listed, [Next]_vars
    PROVE  Listed' /\ (List!Next \/ Mapped' = Mapped)
<1>1. ASSUME NEW n \in Names, NEW f \in Filters, AddFirst(n, f) \/ AddLast(n, f)
      PROVE  Listed' /\ List!Next
  BY <1>1, AddFirstMapped, AddLastMapped DEF List!Next
<1>2. ASSUME NEW n \in Names, NEW f \in Filters, NEW b \in Names,
             AddBefore(b, n, f) \/ AddAfter(b, n, f)
      PROVE  Listed' /\ List!Next
  BY <1>2, AddBeforeMapped, AddAfterMapped DEF List!Next
<1>3. ASSUME NEW n \in Names, RemoveName(n)
      PROVE  Listed' /\ List!Next
  BY <1>3, RemovalMapped DEF RemoveName, List!Next
<1>4. ASSUME NEW f \in Filters, RemoveFilter(f)
      PROVE  Listed' /\ List!Next
  BY <1>4, RemoveFilterMapped DEF List!Next
<1>5. CASE Edit
  BY <1>1, <1>2, <1>3, <1>4, <1>5 DEF Edit
<1>6. CASE Clear
  <2>1. PICK e \in live : Deregister(e)
    BY <1>6 DEF Clear
  <2>2. PICK n \in Names : n = name[e] /\ name2entry[n] = e
    BY DEF ChainInv, Chained, MapMatchesList
  <2>3. e # Null
    BY ChainAssumption DEF ChainInv, Chained, TypeOK
  <2>4. Deregister(name2entry[n]) /\ name2entry[n] # Null
    BY <2>1, <2>2, <2>3
  <2>5. Listed' /\ List!RemoveName(n)
    BY <2>4, RemovalMapped
  <2> QED
    BY <2>5 DEF List!Next
<1>7. CASE UNCHANGED <<links, entries>>
  BY <1>7, ListQuiet
<1> QED
  BY <1>5, <1>6, <1>7 DEF Next, ClearEnds, Fire, Forward, Return, vars

LEMMA ListInit ==
    ASSUME IsFiniteSet(Cells), Init
    PROVE  Listed /\ Mapped = <<>>
<1>1. PICK s : s = <<>>
  OBVIOUS
<1>2. s \in Seq(live) /\ Len(s) = 0 /\ live = {}
  BY <1>1 DEF Init
<1>3. ASSUME NEW k \in 0..Len(s)
      PROVE  next[Place(s, k)] = Place(s, k + 1)
  <2>1. Place(s, k) = head /\ Place(s, k + 1) = tail
    BY <1>2 DEF Place
  <2> QED
    BY <2>1 DEF Init, Nodes
<1>4. Reads(s, next, live)
  BY <1>2, <1>3 DEF Reads
<1>5. Mapped = ListOf(s, name, filter)
  BY <1>2, <1>4, MappedNow
<1>6. ListOf(s, name, filter) = <<>>
  BY <1>2 DEF ListOf
<1> QED
  BY <1>4, <1>5, <1>6 DEF Listed

\* The links of a chain, read from head to tail, are the sequence of filters that
\* FilterSequence edits: every call is one edit of it, clear() is a removal per turn of
\* its loop, and an event never changes it.
THEOREM ChainRefines ==
    ASSUME IsFiniteSet(Cells)
    PROVE  Spec => ImplementsSequence
<1>1. Init => Listed /\ List!Init
  BY ListInit DEF List!Init, Mapped
<1>2. ChainInv /\ Listed /\ [Next]_vars => Listed'
  BY ListStep
<1>3. Spec => []Listed
  BY <1>1, <1>2, ChainInvHolds, PTL DEF Spec
<1>4. ChainInv /\ Listed /\ [Next]_vars => [List!Next]_Mapped
  BY ListStep
<1> QED
  BY <1>1, <1>3, <1>4, ChainInvHolds, PTL DEF Spec, ImplementsSequence, List!Spec, Mapped

\* Each call of a chain does to the sequence what the call of the same name promises: the
\* new filter comes first, last, before or after the one named, and the one removed is the
\* one of the name, or the first one of the filter.
THEOREM CallsExact ==
    ASSUME IsFiniteSet(Cells)
    PROVE  Spec => CallsAsPromised
<1>1. Init => Listed
  BY ListInit
<1>2. ChainInv /\ Listed /\ [Next]_vars => Listed'
  BY ListStep
<1>3. Spec => []Listed
  BY <1>1, <1>2, ChainInvHolds, PTL DEF Spec
<1>4. ChainInv /\ Listed => CallsMapped
  BY CallsStep
<1> QED
  BY <1>3, <1>4, ChainInvHolds, PTL DEF Spec, CallsAsPromised, CallsMapped

-----------------------------------------------------------------------------
(* The numbering TLC is given is one that orders the list. *)

LEMMA PositionIs ==
    ASSUME IsFiniteSet(Cells), ChainInv, NEW s, Reads(s, next, live)
    PROVE  /\ \A k \in 0..(Len(s) + 1) : Position[Place(s, k)] = k
           /\ \A d \in InChain : \E k \in 0..(Len(s) + 1) : d = Place(s, k)
<1>1. live \in SUBSET Cells
  BY DEF ChainInv, Chained, TypeOK
<1>2. PICK L \in Nat, N \in Nat : L = Len(s) /\ N = Cardinality(Nodes) /\ L < N
  <2>1. Len(s) \in Nat
    BY <1>1, ReadsFacts
  <2> QED
    BY <1>1, <2>1, ListFits
<1>3. PICK w : w = Walk
  OBVIOUS
<1>4. DOMAIN w = 0..N /\ \A i \in 0..N : w[i] = Place(s, i + 1)
  BY <1>1, <1>2, <1>3, MappedNow
<1>5. /\ \A i \in 1..L : Place(s, i) = s[i] /\ s[i] \in live
      /\ Place(s, 0) = head /\ Place(s, L + 1) = tail
  <2>1. \A i \in 1..L : s[i] \in live
    BY <1>1, <1>2, ReadsFacts
  <2> QED
    BY <1>2, <2>1 DEF Place
<1>6. \A i, j \in 1..L : s[i] = s[j] => i = j
  BY <1>2 DEF Reads
<1>7. \A i, j \in 0..(L + 1) : Place(s, i) = Place(s, j) => i = j
  <2>1. head \notin live /\ tail \notin live /\ head # tail
    BY <1>1, ChainAssumption
  <2> SUFFICES ASSUME NEW i \in 0..(L + 1), NEW j \in 0..(L + 1), Place(s, i) = Place(s, j)
               PROVE  i = j
    OBVIOUS
  <2>2. CASE i \in 1..L /\ j \in 1..L
    BY <1>5, <1>6, <2>2
  <2>3. CASE i = 0 \/ i = L + 1
    BY <1>5, <2>1, <2>3
  <2>4. CASE j = 0 \/ j = L + 1
    BY <1>5, <2>1, <2>4
  <2> QED
    BY <2>2, <2>3, <2>4
<1>8. ASSUME NEW k \in 0..(L + 1) PROVE Position[Place(s, k)] = k
  <2>1. PICK e \in Nodes : e = Place(s, k)
    BY <1>1, <1>5 DEF Nodes
  <2>2. Position[e] = IF e = head THEN 0
                      ELSE Cardinality({i \in DOMAIN w : \A j \in 0 .. i : w[j] # e}) + 1
    BY <1>3 DEF Position
  <2>3. CASE k = 0
    BY <1>5, <2>1, <2>2, <2>3
  <2>4. CASE k # 0
    <3>1. e # head
      BY <1>5, <1>7, <2>1, <2>4
    <3>2. k - 1 \in 0..N /\ w[k - 1] = e
      BY <1>2, <1>4, <2>1, <2>4
    <3>3. ASSUME NEW i \in 0..N
          PROVE  (\A j \in 0..i : w[j] # e) <=> i \in 0..(k - 2)
      <4>1. CASE i < k - 1
        <5>1. ASSUME NEW j \in 0..i PROVE w[j] # e
          <6>1. j \in 0..N /\ j + 1 \in 0..(L + 1) /\ j + 1 # k
            BY <1>2, <4>1
          <6> QED
            BY <1>4, <1>7, <2>1, <6>1
        <5> QED
          BY <4>1, <5>1
      <4>2. CASE ~(i < k - 1)
        <5>1. k - 1 \in 0..i
          BY <2>4, <4>2
        <5> QED
          BY <3>2, <4>2, <5>1
      <4> QED
        BY <4>1, <4>2
    <3>4. {i \in DOMAIN w : \A j \in 0 .. i : w[j] # e} = 0..(k - 2)
      BY <1>2, <1>4, <3>3
    <3>5. Cardinality(0..(k - 2)) = k - 1
      <4>1. PICK a \in Int, b \in Int : a = 0 /\ b = k - 2
        OBVIOUS
      <4>2. Cardinality(a..b) = IF a > b THEN 0 ELSE b - a + 1
        BY FS_Interval
      <4>3. (IF a > b THEN 0 ELSE b - a + 1) = k - 1
        BY <2>4, <4>1
      <4> QED
        BY <4>1, <4>2, <4>3
    <3>6. PICK S : S = {i \in DOMAIN w : \A j \in 0 .. i : w[j] # e}
      OBVIOUS
    <3>7. Position[e] = Cardinality(S) + 1
      BY <2>2, <3>1, <3>6
    <3>8. Cardinality(S) = k - 1
      BY <3>4, <3>5, <3>6
    <3> QED
      BY <2>1, <3>7, <3>8
  <2> QED
    BY <2>3, <2>4
<1>9. ASSUME NEW d \in InChain PROVE \E k \in 0..(L + 1) : d = Place(s, k)
  <2>1. CASE d \in live
    <3>1. PICK k \in 1..L : s[k] = d
      BY <1>2, <2>1 DEF Reads
    <3> QED
      BY <1>5, <3>1
  <2>2. CASE d = head
    BY <1>5, <2>2
  <2>3. CASE d = tail
    BY <1>5, <2>3
  <2> QED
    BY <2>1, <2>2, <2>3 DEF InChain
<1> QED
  BY <1>2, <1>8, <1>9

\* Every numbering that rises along the list compares its places alike.
LEMMA RankFollows ==
    ASSUME ChainInv, NEW s, Reads(s, next, live),
           NEW rank \in [Nodes -> Int], Rising(rank),
           NEW i \in 0..(Len(s) + 1), NEW j \in 0..(Len(s) + 1)
    PROVE  rank[Place(s, i)] < rank[Place(s, j)] <=> i < j
<1>1. live \in SUBSET Cells
  BY DEF ChainInv, Chained, TypeOK
<1>2. PICK L \in Nat : L = Len(s)
  BY <1>1, ReadsFacts
<1>3. \A k \in 0..L : Place(s, k) \in live \cup {head} /\ next[Place(s, k)] = Place(s, k + 1)
  <2>1. \A k \in 0..L : Place(s, k) \in live \cup {head}
    BY <1>2, Before
  <2> QED
    BY <1>2, <2>1 DEF Reads
<1>4. \A k \in 0..(L + 1) : Place(s, k) \in Nodes
  <2>1. Place(s, L + 1) = tail
    BY <1>2 DEF Place
  <2> QED
    BY <1>1, <1>3, <2>1 DEF Nodes
<1>5. PICK r \in [0..(L + 1) -> Int] : \A k \in 0..(L + 1) : r[k] = rank[Place(s, k)]
  <2>1. PICK r : r = [k \in 0..(L + 1) |-> rank[Place(s, k)]]
    OBVIOUS
  <2> QED
    BY <1>4, <2>1
<1>6. \A k \in 0..L : r[k] < r[k + 1]
  <2> TAKE k \in 0..L
  <2>1. rank[Place(s, k)] < rank[next[Place(s, k)]]
    BY <1>3 DEF Rising
  <2> QED
    BY <1>3, <1>5, <2>1
<1>7. \A b \in 0..(L + 1) : \A a \in 0..(b - 1) : r[a] < r[b]
  <2> DEFINE Bad == {b \in 0..(L + 1) : \E a \in 0..(b - 1) : ~(r[a] < r[b])}
  <2>1. CASE Bad # {}
    <3>1. PICK b \in Bad : \A c \in Bad : b <= c
      <4>1. Bad \in SUBSET Nat
        OBVIOUS
      <4> HIDE DEF Bad
      <4> QED
        BY <2>1, <4>1, LeastNatural
    <3>2. PICK a \in 0..(b - 1) : ~(r[a] < r[b])
      OBVIOUS
    <3>3. b - 1 \in 0..L /\ b - 1 \in 0..(L + 1) /\ a \in 0..(L + 1) /\ b \in 0..(L + 1) /\ (b - 1) + 1 = b
      OBVIOUS
    <3>4. r[b - 1] < r[b]
      BY <1>6, <3>3
    <3>5. CASE a = b - 1
      BY <3>2, <3>4, <3>5
    <3>6. CASE a # b - 1
      <4>1. b - 1 \notin Bad
        BY <3>1, <3>3
      <4>2. a \in 0..((b - 1) - 1)
        BY <3>3, <3>6
      <4>3. r[a] < r[b - 1]
        BY <3>3, <4>1, <4>2
      <4>4. r[a] \in Int /\ r[b - 1] \in Int /\ r[b] \in Int
        BY <1>5, <3>3
      <4> QED
        BY <3>2, <3>4, <4>3, <4>4
    <3> QED
      BY <3>5, <3>6
  <2> QED
    BY <2>1
<1>8. i \in 0..(L + 1) /\ j \in 0..(L + 1) /\ r[i] \in Int /\ r[j] \in Int
  BY <1>2, <1>5
<1>9. r[i] < r[j] <=> i < j
  <2>1. CASE i < j
    <3>1. i \in 0..(j - 1)
      BY <1>8, <2>1
    <3> QED
      BY <1>7, <1>8, <2>1, <3>1
  <2>2. CASE i = j
    BY <1>8, <2>2
  <2>3. CASE j < i
    <3>1. j \in 0..(i - 1)
      BY <1>8, <2>3
    <3>2. r[j] < r[i]
      BY <1>7, <1>8, <3>1
    <3> QED
      BY <1>8, <2>3, <3>2
  <2> QED
    BY <1>8, <2>1, <2>2, <2>3
<1> QED
  BY <1>5, <1>8, <1>9

LEMMA PositionOrders ==
    ASSUME IsFiniteSet(Cells), ChainInv, Listed
    PROVE  OrderInv
<1>1. PICK s : Reads(s, next, live)
  BY DEF Listed
<1>2. PICK rank \in [Nodes -> Int] : InOrder(rank)
  BY DEF ChainInv, Ordered
<1>3. live \in SUBSET Cells
  BY DEF ChainInv, Chained, TypeOK
<1>4. PICK L \in Nat : L = Len(s)
  BY <1>1, <1>3, ReadsFacts
<1>5. PICK pos : pos = Position
  OBVIOUS
<1>6. /\ \A k \in 0..(L + 1) : pos[Place(s, k)] = k
      /\ \A d \in InChain : \E k \in 0..(L + 1) : d = Place(s, k)
  BY <1>1, <1>4, <1>5, PositionIs
<1>7. \A d, e \in InChain : rank[d] < rank[e] <=> pos[d] < pos[e]
  <2> TAKE d, e \in InChain
  <2>1. PICK i \in 0..(L + 1) : d = Place(s, i)
    BY <1>6
  <2>2. PICK j \in 0..(L + 1) : e = Place(s, j)
    BY <1>6
  <2>3. rank[Place(s, i)] < rank[Place(s, j)] <=> i < j
    <3>1. i \in 0..(Len(s) + 1) /\ j \in 0..(Len(s) + 1) /\ Rising(rank)
      BY <1>2, <1>4 DEF InOrder
    <3> QED
      BY <1>1, <3>1, RankFollows
  <2> QED
    BY <1>6, <2>1, <2>2, <2>3
<1>8. \A d \in InChain : pos[d] \in 0..(L + 1) /\ d = Place(s, pos[d])
  BY <1>6
<1>9. /\ pos[head] = 0 /\ pos[tail] = L + 1
      /\ \A e \in live : pos[e] \in 1..L
  <2>1. Place(s, 0) = head /\ Place(s, L + 1) = tail
    BY <1>4 DEF Place
  <2>2. pos[head] = 0 /\ pos[tail] = L + 1
    BY <1>6, <2>1
  <2>3. ASSUME NEW e \in live PROVE pos[e] \in 1..L
    <3>1. e # head /\ e # tail /\ e \in InChain
      BY <1>3, ChainAssumption DEF InChain
    <3> QED
      BY <1>8, <2>1, <3>1
  <2> QED
    BY <2>2, <2>3
<1>10. \A e \in live \cup {head} : next[e] \in InChain /\ pos[next[e]] = pos[e] + 1
  <2> TAKE e \in live \cup {head}
  <2>1. e \in InChain /\ pos[e] \in 0..L
    BY <1>4, <1>9 DEF InChain
  <2>2. next[e] = Place(s, pos[e] + 1)
    <3>1. next[Place(s, pos[e])] = Place(s, pos[e] + 1)
      BY <1>1, <1>4, <2>1 DEF Reads
    <3> QED
      BY <1>8, <2>1, <3>1
  <2>3. next[e] \in InChain
    BY DEF ChainInv, Chained, LinksAgree, InChain
  <2> QED
    BY <1>6, <2>1, <2>2, <2>3
<1>11. Rising(pos)
  <2>1. \A e \in live : pos[head] < pos[e] /\ pos[e] < pos[tail]
    BY <1>9
  <2>2. \A e \in live \cup {head} : pos[e] < pos[next[e]]
    <3> TAKE e \in live \cup {head}
    <3>1. pos[e] \in 0..(L + 1)
      BY <1>8 DEF InChain
    <3> QED
      BY <1>10, <3>1
  <2>3. \A d, e \in InChain : pos[d] = pos[e] => d = e
    BY <1>8
  <2>4. \A e \in live \cup {head}, d \in InChain : pos[e] < pos[d] => pos[next[e]] <= pos[d]
    <3> TAKE e \in live \cup {head}, d \in InChain
    <3>1. pos[e] \in 0..(L + 1) /\ pos[d] \in 0..(L + 1)
      BY <1>8 DEF InChain
    <3> QED
      BY <1>10, <3>1
  <2> QED
    BY <2>1, <2>2, <2>3, <2>4 DEF Rising
<1>12. FramesRise(pos)
  BY <1>2, <1>7 DEF InOrder, FramesRise
<1>13. PassedVisited(pos)
  <2>1. live \subseteq InChain
    BY DEF InChain
  <2> QED
    BY <1>2, <1>7, <2>1 DEF InOrder, PassedVisited
<1>14. InOrder(Position)
  BY <1>5, <1>11, <1>12, <1>13 DEF InOrder
<1> QED
  BY <1>14 DEF ChainInv, OrderInv

\* The numbering that orders the frames of the events is the place of an entry in the walk
\* along the list: while an event is under way, what it has passed lies before it in the
\* list and what it has yet to visit behind it.
THEOREM PositionsOrderEvents ==
    ASSUME IsFiniteSet(Cells)
    PROVE  Spec => []OrderInv
<1>1. Init => Listed
  BY ListInit
<1>2. ChainInv /\ Listed /\ [Next]_vars => Listed'
  BY ListStep
<1>3. Spec => []Listed
  BY <1>1, <1>2, ChainInvHolds, PTL DEF Spec
<1>4. ChainInv /\ Listed => OrderInv
  BY PositionOrders
<1> QED
  BY <1>3, <1>4, ChainInvHolds, PTL
=============================================================================
