----------------------------- MODULE DataLemmas -----------------------------
(***************************************************************************)
(* What the proofs need to know of data: the positions of sequences that   *)
(* are edited, sums, how they grow and split, and least numbers.           *)
(***************************************************************************)
EXTENDS Sums, SequencesExt, SequenceTheorems, FiniteSetTheorems, FunctionTheorems, TLAPS

-----------------------------------------------------------------------------
(* Numbers *)

\* A set of numbers has a least one: the initial segments up to its numbers are finite.
LEMMA LeastNatural ==
    ASSUME NEW S \in SUBSET Nat, S # {}
    PROVE  \E i \in S : \A j \in S : i <= j
<1> DEFINE Segments == {1..i : i \in S}
<1>1. Segments \subseteq FiniteSubsetsOf(Nat) /\ Segments # {}
  <2>1. ASSUME NEW T \in Segments
        PROVE  T \in FiniteSubsetsOf(Nat)
    <3>1. PICK i \in S : T = 1..i
      OBVIOUS
    <3>2. IsFiniteSet(1..i)
      BY FS_Interval
    <3>3. 1..i \in SUBSET Nat
      OBVIOUS
    <3> QED
      BY <3>1, <3>2, <3>3 DEF FiniteSubsetsOf
  <2> QED
    BY <2>1
<1>2. \E T \in Segments : \A U \in Segments : ~(<<U, T>> \in StrictSubsetOrdering(Nat))
  <2> HIDE DEF Segments
  <2> QED
    BY <1>1, FS_StrictSubsetOrderingWellFounded, WFMin
<1>3. PICK i \in S : \A U \in Segments : ~(<<U, 1..i>> \in StrictSubsetOrdering(Nat))
  BY <1>2
<1>4. ASSUME NEW j \in S, j < i
      PROVE  FALSE
  <2>1. 1..j \in SUBSET Nat /\ 1..i \in SUBSET Nat /\ 1..j \subseteq 1..i
    BY <1>4
  <2>2. i \in 1..i /\ i \notin 1..j
    BY <1>4
  <2>3. <<1..j, 1..i>> \in StrictSubsetOrdering(Nat)
    BY <2>1, <2>2 DEF StrictSubsetOrdering
  <2> QED
    BY <1>3, <2>3
<1> QED
  BY <1>4

-----------------------------------------------------------------------------
(* Insertion and removal, position by position *)

LEMMA Piece ==
    ASSUME NEW S, NEW s \in Seq(S), NEW p \in Int, NEW q \in Int,
           1 <= p, q <= Len(s), p <= q + 1
    PROVE  /\ SubSeq(s, p, q) \in Seq(S)
           /\ Len(SubSeq(s, p, q)) = q - p + 1
           /\ \A j \in 1 .. q - p + 1 : SubSeq(s, p, q)[j] = s[p + j - 1]
<1>1. Len(s) \in Nat
  BY LenProperties
<1>2. ASSUME NEW j \in p .. q
      PROVE  s[j] \in S
  <2>1. j \in 1 .. Len(s)
    BY <1>1
  <2> QED
    BY <2>1, ElementOfSeq
<1>3. /\ SubSeq(s, p, q) \in Seq(S)
      /\ Len(SubSeq(s, p, q)) = IF p <= q THEN q - p + 1 ELSE 0
      /\ \A j \in 1 .. q - p + 1 : SubSeq(s, p, q)[j] = s[p + j - 1]
  BY <1>2, SubSeqProperties
<1>4. (IF p <= q THEN q - p + 1 ELSE 0) = q - p + 1
  OBVIOUS
<1> QED
  BY <1>3, <1>4

LEMMA InsertAtPositions ==
    ASSUME NEW S, NEW s \in Seq(S), NEW i \in 1 .. Len(s) + 1, NEW e \in S
    PROVE  /\ InsertAt(s, i, e) \in Seq(S)
           /\ Len(InsertAt(s, i, e)) = Len(s) + 1
           /\ \A j \in 1 .. Len(s) + 1 :
                InsertAt(s, i, e)[j] = IF j < i THEN s[j] ELSE IF j = i THEN e ELSE s[j - 1]
<1> DEFINE n == Len(s)
           a == SubSeq(s, 1, i - 1)
           b == <<e>>
           c == SubSeq(s, i, n)
           ab == a \o b
<1>1. n \in Nat /\ i \in Int /\ 1 <= i /\ i <= n + 1
  BY LenProperties
<1> HIDE DEF n
<1>2. /\ a \in Seq(S) /\ Len(a) = i - 1 - 1 + 1
      /\ \A j \in 1 .. i - 1 - 1 + 1 : a[j] = s[1 + j - 1]
  BY <1>1, Piece, i - 1 \in Int, i - 1 <= n, 1 <= (i - 1) + 1 DEF n
<1>3. b \in Seq(S) /\ Len(b) = 1 /\ b[1] = e
  OBVIOUS
<1>4. /\ c \in Seq(S) /\ Len(c) = n - i + 1
      /\ \A j \in 1 .. n - i + 1 : c[j] = s[i + j - 1]
  BY <1>1, Piece DEF n
<1>5. InsertAt(s, i, e) = ab \o c
  BY DEF InsertAt, n
<1>6. /\ ab \in Seq(S)
      /\ Len(ab) = Len(a) + Len(b)
      /\ \A j \in 1 .. Len(a) + Len(b) : ab[j] = IF j <= Len(a) THEN a[j] ELSE b[j - Len(a)]
  <2> HIDE DEF a, b
  <2> QED
    BY <1>2, <1>3, ConcatProperties
<1>7. /\ ab \o c \in Seq(S)
      /\ Len(ab \o c) = Len(ab) + Len(c)
      /\ \A j \in 1 .. Len(ab) + Len(c) :
            (ab \o c)[j] = IF j <= Len(ab) THEN ab[j] ELSE c[j - Len(ab)]
  <2>1. ab \in Seq(S) /\ c \in Seq(S)
    BY <1>4, <1>6
  <2> HIDE DEF ab, c
  <2> QED
    BY <2>1, ConcatProperties
<1> DEFINE t == ab \o c
<1> HIDE DEF a, b, c, ab, t
<1>8. Len(a) = i - 1 /\ Len(ab) = i /\ Len(c) = n - i + 1 /\ Len(t) = n + 1
  BY <1>1, <1>2, <1>3, <1>4, <1>6, <1>7 DEF t
<1>9. ASSUME NEW j \in 1 .. n + 1
      PROVE  t[j] = IF j < i THEN s[j] ELSE IF j = i THEN e ELSE s[j - 1]
  <2>1. /\ j \in 1 .. Len(ab) + Len(c)
        /\ t[j] = IF j <= i THEN ab[j] ELSE c[j - i]
    BY <1>1, <1>7, <1>8 DEF t
  <2>2. CASE j < i
    <3>1. j <= i /\ j \in 1 .. Len(a) + Len(b) /\ j <= Len(a) /\ j \in 1 .. i - 1 - 1 + 1
      BY <2>2, <1>1, <1>3, <1>8
    <3>2. ab[j] = a[j] /\ a[j] = s[1 + j - 1] /\ 1 + j - 1 = j
      BY <3>1, <1>2, <1>6
    <3> QED
      BY <2>1, <2>2, <3>1, <3>2
  <2>3. CASE j = i
    <3>1. j \in 1 .. Len(a) + Len(b) /\ ~(j <= Len(a)) /\ j - Len(a) = 1 /\ j <= i /\ ~(j < i)
      BY <2>3, <1>1, <1>3, <1>8
    <3>2. ab[j] = e
      BY <3>1, <1>3, <1>6
    <3> QED
      BY <2>1, <2>3, <3>1, <3>2
  <2>4. CASE j > i
    <3>1. ~(j <= i) /\ ~(j < i) /\ j # i /\ j - i \in 1 .. n - i + 1 /\ i + (j - i) - 1 = j - 1
      BY <2>4, <1>1
    <3>2. c[j - i] = s[i + (j - i) - 1]
      BY <3>1, <1>4
    <3> QED
      BY <2>1, <3>1, <3>2
  <2> QED
    BY <2>2, <2>3, <2>4, <1>1
<1> QED
  BY <1>5, <1>7, <1>8, <1>9 DEF t, n

LEMMA RemoveAtPositions ==
    ASSUME NEW S, NEW s \in Seq(S), NEW i \in 1 .. Len(s)
    PROVE  /\ RemoveAt(s, i) \in Seq(S)
           /\ Len(RemoveAt(s, i)) = Len(s) - 1
           /\ \A j \in 1 .. Len(s) - 1 :
                RemoveAt(s, i)[j] = IF j < i THEN s[j] ELSE s[j + 1]
<1> DEFINE n == Len(s)
           a == SubSeq(s, 1, i - 1)
           c == SubSeq(s, i + 1, n)
<1>1. n \in Nat /\ i \in Int /\ 1 <= i /\ i <= n
  BY LenProperties
<1> HIDE DEF n
<1>2. /\ a \in Seq(S) /\ Len(a) = i - 1 - 1 + 1
      /\ \A j \in 1 .. i - 1 - 1 + 1 : a[j] = s[1 + j - 1]
  BY <1>1, Piece, i - 1 \in Int, i - 1 <= n, 1 <= (i - 1) + 1 DEF n
<1>3. /\ c \in Seq(S) /\ Len(c) = n - (i + 1) + 1
      /\ \A j \in 1 .. n - (i + 1) + 1 : c[j] = s[i + 1 + j - 1]
  BY <1>1, Piece, i + 1 \in Int, 1 <= i + 1, i + 1 <= n + 1 DEF n
<1>4. RemoveAt(s, i) = a \o c
  BY DEF RemoveAt, n
<1> DEFINE t == a \o c
<1>5. /\ t \in Seq(S)
      /\ Len(t) = Len(a) + Len(c)
      /\ \A j \in 1 .. Len(a) + Len(c) : t[j] = IF j <= Len(a) THEN a[j] ELSE c[j - Len(a)]
  <2> HIDE DEF a, c
  <2> QED
    BY <1>2, <1>3, ConcatProperties
<1> HIDE DEF a, c, t
<1>6. Len(a) = i - 1 /\ Len(c) = n - i /\ Len(t) = n - 1
  BY <1>1, <1>2, <1>3, <1>5
<1>7. ASSUME NEW j \in 1 .. n - 1
      PROVE  t[j] = IF j < i THEN s[j] ELSE s[j + 1]
  <2>1. /\ j \in 1 .. Len(a) + Len(c)
        /\ t[j] = IF j <= i - 1 THEN a[j] ELSE c[j - (i - 1)]
    BY <1>1, <1>5, <1>6
  <2>2. CASE j < i
    <3>1. j <= i - 1 /\ j \in 1 .. i - 1 - 1 + 1 /\ 1 + j - 1 = j
      BY <2>2, <1>1
    <3>2. a[j] = s[1 + j - 1]
      BY <3>1, <1>2
    <3> QED
      BY <2>1, <2>2, <3>1, <3>2
  <2>3. CASE ~(j < i)
    <3>1. /\ ~(j <= i - 1) /\ j - (i - 1) \in 1 .. n - (i + 1) + 1
          /\ i + 1 + (j - (i - 1)) - 1 = j + 1
      BY <2>3, <1>1
    <3>2. c[j - (i - 1)] = s[i + 1 + (j - (i - 1)) - 1]
      BY <3>1, <1>3
    <3> QED
      BY <2>1, <2>3, <3>1, <3>2
  <2> QED
    BY <2>2, <2>3
<1> QED
  BY <1>4, <1>5, <1>6, <1>7 DEF t, n

-----------------------------------------------------------------------------
(* Sums *)

LEMMA UnitsOf ==
    ASSUME NEW f, NEW x
    PROVE  x \in Units(f) <=> \E i \in DOMAIN f : \E j \in 1..f[i] : x = <<i, j>>
<1>1. x \in Units(f) <=> \E i \in DOMAIN f : x \in {i} \X (1..f[i])
  BY DEF Units
<1>2. \A i : x \in {i} \X (1..f[i]) <=> \E j \in 1..f[i] : x = <<i, j>>
  OBVIOUS
<1> QED
  BY <1>1, <1>2

\* A sum over a finite domain is a number, 0 when every summand is.
LEMMA TotalType ==
    ASSUME NEW f, IsFiniteSet(DOMAIN f), \A i \in DOMAIN f : f[i] \in Nat
    PROVE  /\ IsFiniteSet(Units(f)) /\ Total(f) \in Nat
           /\ Total(f) = 0 <=> \A i \in DOMAIN f : f[i] = 0
<1>1. IsFiniteSet(Units(f))
  <2> DEFINE Parts == {{i} \X (1..f[i]) : i \in DOMAIN f}
  <2>1. IsFiniteSet(Parts)
    <3>1. Parts = {({i} \X (1..f[i])) : i \in DOMAIN f}
      OBVIOUS
    <3> DEFINE g == [i \in DOMAIN f |-> {i} \X (1..f[i])]
    <3>2. g \in Surjection(DOMAIN f, Parts)
      BY DEF Surjection
    <3> QED
      BY <3>2, FS_Surjection
  <2>2. ASSUME NEW T \in Parts PROVE IsFiniteSet(T)
    <3>1. PICK i \in DOMAIN f : T = {i} \X (1..f[i])
      OBVIOUS
    <3>2. IsFiniteSet({i})
      BY FS_Singleton
    <3>3. IsFiniteSet(1..f[i])
      BY FS_Interval, f[i] \in Int, 1 \in Int
    <3> QED
      BY <3>1, <3>2, <3>3, FS_Product
  <2>3. IsFiniteSet(UNION Parts)
    <3> HIDE DEF Parts
    <3> QED
      BY <2>1, <2>2, FS_UNION
  <2> QED
    BY <2>3 DEF Units
<1>2. Total(f) \in Nat /\ (Total(f) = 0 <=> Units(f) = {})
  BY <1>1, FS_CardinalityType, FS_EmptySet DEF Total
<1>3. Units(f) = {} <=> \A i \in DOMAIN f : f[i] = 0
  <2>1. ASSUME NEW i \in DOMAIN f, f[i] # 0
        PROVE  <<i, 1>> \in Units(f)
    <3>1. 1 \in 1..f[i]
      BY <2>1
    <3> QED
      BY <3>1, UnitsOf
  <2>2. ASSUME NEW x \in Units(f), \A i \in DOMAIN f : f[i] = 0
        PROVE  FALSE
    <3>1. PICK i \in DOMAIN f : \E j \in 1..f[i] : x = <<i, j>>
      BY UnitsOf
    <3> QED
      BY <2>2, <3>1
  <2> QED
    BY <2>1, <2>2
<1> QED
  BY <1>1, <1>2, <1>3

\* Of two functions, the one that counts more has the greater sum.
LEMMA TotalMonotone ==
    ASSUME NEW S, IsFiniteSet(S), NEW f \in [S -> Nat], NEW g \in [S -> Nat],
           \A i \in S : f[i] <= g[i]
    PROVE  Total(f) <= Total(g)
<1>1. IsFiniteSet(Units(g))
  BY TotalType
<1>2. Units(f) \in SUBSET Units(g)
  <2>1. ASSUME NEW x \in Units(f) PROVE x \in Units(g)
    <3>1. PICK i \in S : \E j \in 1..f[i] : x = <<i, j>>
      BY UnitsOf
    <3>2. PICK j \in 1..f[i] : x = <<i, j>>
      BY <3>1
    <3>3. j \in 1..g[i]
      OBVIOUS
    <3> QED
      BY <3>2, <3>3, UnitsOf
  <2> QED
    BY <2>1
<1> QED
  BY <1>1, <1>2, FS_Subset DEF Total

\* One summand grows.
LEMMA TotalGrows ==
    ASSUME NEW S, IsFiniteSet(S), NEW f \in [S -> Nat], NEW g \in [S -> Nat],
           NEW t \in S, NEW k \in Nat, g[t] = f[t] + k, \A i \in S \ {t} : g[i] = f[i]
    PROVE  Total(g) = Total(f) + k
<1> DEFINE New == {t} \X ((f[t] + 1)..(f[t] + k))
<1>1. IsFiniteSet(Units(f)) /\ Total(f) \in Nat
  BY TotalType
<1>2. IsFiniteSet(New) /\ Cardinality(New) = k
  <2>1. IsFiniteSet({t}) /\ Cardinality({t}) = 1
    BY FS_Singleton
  <2>2. f[t] + 1 \in Int /\ f[t] + k \in Int
    OBVIOUS
  <2>3. /\ IsFiniteSet((f[t] + 1)..(f[t] + k))
        /\ Cardinality((f[t] + 1)..(f[t] + k)) = IF f[t] + 1 > f[t] + k THEN 0 ELSE (f[t] + k) - (f[t] + 1) + 1
    BY <2>2, FS_Interval
  <2>4. Cardinality((f[t] + 1)..(f[t] + k)) = k
    BY <2>3
  <2>5. /\ IsFiniteSet(New)
        /\ Cardinality(New) = Cardinality({t}) * Cardinality((f[t] + 1)..(f[t] + k))
    BY <2>1, <2>3, FS_Product
  <2> QED
    BY <2>1, <2>4, <2>5
<1>3. Units(g) = Units(f) \cup New
  <2>1. ASSUME NEW x \in Units(g) PROVE x \in Units(f) \cup New
    <3>1. PICK i \in S : \E j \in 1..g[i] : x = <<i, j>>
      BY UnitsOf
    <3>2. PICK j \in 1..g[i] : x = <<i, j>>
      BY <3>1
    <3>3. CASE j \in 1..f[i]
      BY <3>2, <3>3, UnitsOf
    <3>4. CASE j \notin 1..f[i]
      <4>1. i = t /\ j \in (f[t] + 1)..(f[t] + k)
        BY <3>4
      <4> QED
        BY <3>2, <4>1
    <3> QED
      BY <3>3, <3>4
  <2>2. ASSUME NEW x \in Units(f) PROVE x \in Units(g)
    <3>1. PICK i \in S : \E j \in 1..f[i] : x = <<i, j>>
      BY UnitsOf
    <3>2. PICK j \in 1..f[i] : x = <<i, j>>
      BY <3>1
    <3>3. j \in 1..g[i]
      OBVIOUS
    <3> QED
      BY <3>2, <3>3, UnitsOf
  <2>3. ASSUME NEW x \in New PROVE x \in Units(g)
    <3>1. PICK j \in (f[t] + 1)..(f[t] + k) : x = <<t, j>>
      OBVIOUS
    <3>2. j \in 1..g[t]
      OBVIOUS
    <3> QED
      BY <3>1, <3>2, UnitsOf
  <2> HIDE DEF New
  <2> QED
    BY <2>1, <2>2, <2>3
<1>4. Units(f) \cap New = {}
  <2> SUFFICES ASSUME NEW x \in Units(f), x \in New PROVE FALSE
    OBVIOUS
  <2>1. PICK i \in S : \E j \in 1..f[i] : x = <<i, j>>
    BY UnitsOf
  <2>2. PICK j \in 1..f[i] : x = <<i, j>>
    BY <2>1
  <2>3. PICK m \in (f[t] + 1)..(f[t] + k) : x = <<t, m>>
    OBVIOUS
  <2>4. i = t /\ j = m
    BY <2>2, <2>3
  <2> QED
    BY <2>4
<1> HIDE DEF New
<1>5. Cardinality(Units(f) \cup New) = Cardinality(Units(f)) + Cardinality(New) - Cardinality(Units(f) \cap New)
  BY <1>1, <1>2, FS_Union
<1>6. Cardinality(Units(f) \cap New) = 0
  BY <1>4, FS_EmptySet
<1> QED
  BY <1>1, <1>2, <1>3, <1>5, <1>6 DEF Total

\* A sequence after another.
LEMMA TotalConcat ==
    ASSUME NEW s \in Seq(Nat), NEW r \in Seq(Nat)
    PROVE  Total(s \o r) = Total(s) + Total(r)
<1> DEFINE Up == {<<Len(s) + x[1], x[2]>> : x \in Units(r)}
           shift == [x \in Units(r) |-> <<Len(s) + x[1], x[2]>>]
<1>1. /\ DOMAIN s = 1..Len(s) /\ Len(s) \in Nat /\ IsFiniteSet(DOMAIN s)
      /\ DOMAIN r = 1..Len(r) /\ Len(r) \in Nat /\ IsFiniteSet(DOMAIN r)
      /\ \A i \in 1..Len(s) : s[i] \in Nat
      /\ \A i \in 1..Len(r) : r[i] \in Nat
  <2>1. /\ DOMAIN s = 1..Len(s) /\ Len(s) \in Nat /\ \A i \in 1..Len(s) : s[i] \in Nat
        /\ DOMAIN r = 1..Len(r) /\ Len(r) \in Nat /\ \A i \in 1..Len(r) : r[i] \in Nat
    BY LenProperties, ElementOfSeq
  <2>2. IsFiniteSet(1..Len(s)) /\ IsFiniteSet(1..Len(r))
    BY <2>1, FS_Interval
  <2> QED
    BY <2>1, <2>2
<1>2. /\ IsFiniteSet(Units(s)) /\ Total(s) \in Nat
      /\ IsFiniteSet(Units(r)) /\ Total(r) \in Nat
  BY <1>1, TotalType
<1>3. /\ DOMAIN (s \o r) = 1..(Len(s) + Len(r))
      /\ \A i \in 1..(Len(s) + Len(r)) : (s \o r)[i] = IF i <= Len(s) THEN s[i] ELSE r[i - Len(s)]
  BY <1>1
<1>4. \A x \in Units(r) : /\ x[1] \in 1..Len(r) /\ x[2] \in 1..r[x[1]]
                          /\ x = <<x[1], x[2]>>
  <2> TAKE x \in Units(r)
  <2>1. PICK i \in DOMAIN r : \E j \in 1..r[i] : x = <<i, j>>
    BY UnitsOf
  <2> QED
    BY <1>1, <2>1
<1>5. IsFiniteSet(Up) /\ Cardinality(Up) = Total(r)
  <2>1. shift \in Bijection(Units(r), Up)
    <3>1. shift \in [Units(r) -> Up]
      OBVIOUS
    <3>2. \A x, y \in Units(r) : shift[x] = shift[y] => x = y
      <4> TAKE x, y \in Units(r)
      <4> HAVE shift[x] = shift[y]
      <4>1. Len(s) + x[1] = Len(s) + y[1] /\ x[2] = y[2]
        OBVIOUS
      <4>2. x[1] = y[1]
        BY <1>1, <1>4, <4>1
      <4>3. x = <<x[1], x[2]>> /\ y = <<y[1], y[2]>>
        BY <1>4
      <4> QED
        BY <4>1, <4>2, <4>3
    <3>3. \A y \in Up : \E x \in Units(r) : shift[x] = y
      OBVIOUS
    <3> HIDE DEF shift, Up
    <3> QED
      BY <3>1, <3>2, <3>3, Fun_IsBij
  <2> HIDE DEF shift, Up
  <2> QED
    BY <1>2, <2>1, FS_Bijection DEF ExistsBijection, Total
<1>6. Units(s \o r) = Units(s) \cup Up
  <2>1. ASSUME NEW x \in Units(s \o r) PROVE x \in Units(s) \cup Up
    <3>5. \E i \in DOMAIN (s \o r) : \E j \in 1..(s \o r)[i] : x = <<i, j>>
      <4>1. PICK c : c = s \o r
        OBVIOUS
      <4>2. x \in Units(c)
        BY <2>1, <4>1
      <4>3. \E i \in DOMAIN c : \E j \in 1..c[i] : x = <<i, j>>
        BY <4>2, UnitsOf
      <4> QED
        BY <4>1, <4>3
    <3>1. PICK i \in 1..(Len(s) + Len(r)) : \E j \in 1..(s \o r)[i] : x = <<i, j>>
      BY <1>3, <3>5
    <3>2. PICK j \in 1..(s \o r)[i] : x = <<i, j>>
      BY <3>1
    <3>3. CASE i <= Len(s)
      <4>1. i \in DOMAIN s /\ j \in 1..s[i]
        BY <1>1, <1>3, <3>3
      <4> QED
        BY <3>2, <4>1, UnitsOf
    <3>4. CASE ~(i <= Len(s))
      <4>1. i - Len(s) \in DOMAIN r /\ j \in 1..r[i - Len(s)] /\ Len(s) + (i - Len(s)) = i
        BY <1>1, <1>3, <3>4
      <4>2. <<i - Len(s), j>> \in Units(r)
        BY <4>1, UnitsOf
      <4> QED
        BY <3>2, <4>1, <4>2
    <3> QED
      BY <3>3, <3>4
  <2>2. ASSUME NEW x \in Units(s) PROVE x \in Units(s \o r)
    <3>1. PICK i \in DOMAIN s : \E j \in 1..s[i] : x = <<i, j>>
      BY UnitsOf
    <3>2. i \in DOMAIN (s \o r) /\ (s \o r)[i] = s[i]
      BY <1>1, <1>3
    <3> QED
      BY <3>1, <3>2, UnitsOf
  <2>3. ASSUME NEW y \in Up PROVE y \in Units(s \o r)
    <3>1. PICK x \in Units(r) : y = <<Len(s) + x[1], x[2]>>
      OBVIOUS
    <3>2. x[1] \in 1..Len(r) /\ x[2] \in 1..r[x[1]]
      BY <1>4
    <3>3. Len(s) + x[1] \in DOMAIN (s \o r) /\ (s \o r)[Len(s) + x[1]] = r[x[1]]
      BY <1>1, <1>3, <3>2
    <3> QED
      BY <3>1, <3>2, <3>3, UnitsOf
  <2> HIDE DEF Up
  <2> QED
    BY <2>1, <2>2, <2>3
<1>7. Units(s) \cap Up = {}
  <2> SUFFICES ASSUME NEW y \in Units(s), y \in Up PROVE FALSE
    OBVIOUS
  <2>1. PICK i \in DOMAIN s : \E j \in 1..s[i] : y = <<i, j>>
    BY UnitsOf
  <2>2. PICK x \in Units(r) : y = <<Len(s) + x[1], x[2]>>
    OBVIOUS
  <2>3. i = Len(s) + x[1]
    BY <2>1, <2>2
  <2> QED
    BY <1>1, <1>4, <2>3
<1> HIDE DEF Up
<1>8. Cardinality(Units(s) \cup Up) = Cardinality(Units(s)) + Cardinality(Up) - Cardinality(Units(s) \cap Up)
  BY <1>2, <1>5, FS_Union
<1>9. Cardinality(Units(s) \cap Up) = 0
  BY <1>7, FS_EmptySet
<1> QED
  BY <1>2, <1>5, <1>6, <1>8, <1>9 DEF Total

\* A sequence of one number.
LEMMA TotalOne == ASSUME NEW x \in Nat PROVE Total(<<x>>) = x
<1>1. <<x>> \in [{1} -> Nat] /\ <<0>> \in [{1} -> Nat]
  <2>1. \A y \in Nat : <<y>> \in Seq(Nat) /\ Len(<<y>>) = 1
    OBVIOUS
  <2>2. \A y \in Nat : <<y>> \in [1..1 -> Nat]
    BY <2>1, LenProperties
  <2>3. 1..1 = {1}
    OBVIOUS
  <2> QED
    BY <2>2, <2>3
<1>2. IsFiniteSet({1}) /\ <<x>>[1] = x /\ <<0>>[1] = 0
  BY FS_Singleton
<1>3. Total(<<0>>) = 0
  <2>1. DOMAIN <<0>> = {1}
    BY <1>1
  <2> QED
    BY <1>2, <2>1, TotalType
<1>4. Total(<<x>>) = Total(<<0>>) + x
  <2>1. <<x>>[1] = <<0>>[1] + x /\ 1 \in {1} /\ \A i \in {1} \ {1} : <<x>>[i] = <<0>>[i]
    BY <1>2
  <2> HIDE DEF Total
  <2>2. PICK g \in [{1} -> Nat] : g = <<x>>
    BY <1>1
  <2>3. PICK f \in [{1} -> Nat] : f = <<0>>
    BY <1>1
  <2>4. Total(g) = Total(f) + x
    BY <1>2, <2>1, <2>2, <2>3, TotalGrows
  <2> QED
    BY <2>2, <2>3, <2>4
<1> QED
  BY <1>3, <1>4

LEMMA TotalEmpty == Total(<< >>) = 0
<1>1. DOMAIN << >> = {} /\ IsFiniteSet({})
  BY FS_EmptySet
<1> QED
  BY <1>1, TotalType

LEMMA TotalAppend ==
    ASSUME NEW s \in Seq(Nat), NEW x \in Nat
    PROVE  Total(Append(s, x)) = Total(s) + x
<1>1. Append(s, x) = s \o <<x>> /\ <<x>> \in Seq(Nat)
  OBVIOUS
<1> QED
  BY <1>1, TotalConcat, TotalOne

\* A sequence is cut in two.
LEMMA TotalSplit ==
    ASSUME NEW s \in Seq(Nat), NEW i \in 0..Len(s)
    PROVE  /\ SubSeq(s, i + 1, Len(s)) \in Seq(Nat)
           /\ Total(SubSeq(s, 1, i)) + Total(SubSeq(s, i + 1, Len(s))) = Total(s)
<1>1. Len(s) \in Nat /\ DOMAIN s = 1..Len(s)
  BY LenProperties
<1>2. SubSeq(s, 1, i) \in Seq(Nat) /\ SubSeq(s, i + 1, Len(s)) \in Seq(Nat)
  <2>1. /\ \A j \in 1..i : s[j] \in Nat
        /\ \A j \in (i + 1)..Len(s) : s[j] \in Nat
    <3>1. \A j \in 1..Len(s) : s[j] \in Nat
      BY ElementOfSeq
    <3> QED
      BY <1>1, <3>1
  <2> QED
    BY <1>1, <2>1, SubSeqProperties
<1>3. SubSeq(s, 1, i) \o SubSeq(s, i + 1, Len(s)) = s
  <2>1. 1 \in 1..Len(s) + 1 /\ i \in 1 - 1 .. Len(s) /\ Len(s) \in i..Len(s)
    BY <1>1
  <2>2. SubSeq(s, 1, i) \o SubSeq(s, i + 1, Len(s)) = SubSeq(s, 1, Len(s))
    BY <2>1, ConcatAdjacentSubSeq
  <2> QED
    BY <2>2, SubSeqFull
<1> QED
  BY <1>2, <1>3, TotalConcat

\* A sum of positive numbers is 0 only when there are none.
LEMMA TotalNothing ==
    ASSUME NEW s \in Seq(Nat \ {0})
    PROVE  Total(s) \in Nat /\ (Total(s) = 0 <=> s = << >>)
<1>1. /\ DOMAIN s = 1..Len(s) /\ Len(s) \in Nat /\ IsFiniteSet(DOMAIN s)
      /\ \A i \in DOMAIN s : s[i] \in Nat /\ s[i] # 0
  BY LenProperties, ElementOfSeq, FS_Interval
<1>2. Total(s) \in Nat /\ (Total(s) = 0 <=> \A i \in DOMAIN s : s[i] = 0)
  BY <1>1, TotalType
<1>3. s = << >> <=> Len(s) = 0
  BY EmptySeq
<1>4. Len(s) # 0 => 1 \in DOMAIN s
  BY <1>1
<1> QED
  BY <1>1, <1>2, <1>3, <1>4

\* As many times the same.
LEMMA TotalConstant ==
    ASSUME NEW n \in Nat, NEW m \in Nat
    PROVE  Total([t \in 1..n |-> m]) = n * m
<1> DEFINE f == [t \in 1..n |-> m]
<1>1. Units(f) = (1..n) \X (1..m)
  <2>1. ASSUME NEW x PROVE x \in Units(f) <=> x \in (1..n) \X (1..m)
    <3>1. x \in Units(f) <=> \E i \in DOMAIN f : \E j \in 1..f[i] : x = <<i, j>>
      BY UnitsOf
    <3>2. DOMAIN f = 1..n /\ \A i \in 1..n : f[i] = m
      OBVIOUS
    <3> HIDE DEF f
    <3> QED
      BY <3>1, <3>2
  <2> HIDE DEF f
  <2> QED
    BY <2>1
<1>2. /\ IsFiniteSet(1..n) /\ Cardinality(1..n) = n
      /\ IsFiniteSet(1..m) /\ Cardinality(1..m) = m
  <2>1. IsFiniteSet(1..n) /\ IsFiniteSet(1..m)
    BY FS_Interval
  <2>2. Cardinality(1..n) = n
    BY FS_Interval
  <2>3. Cardinality(1..m) = m
    BY FS_Interval
  <2> QED
    BY <2>1, <2>2, <2>3
<1>3. Cardinality((1..n) \X (1..m)) = Cardinality(1..n) * Cardinality(1..m)
  BY <1>2, FS_Product
<1> QED
  BY <1>1, <1>2, <1>3 DEF Total
=============================================================================
