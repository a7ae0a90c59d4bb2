-------------------------- MODULE HttpPipelineProofs --------------------------
(***************************************************************************)
(* Theorems of HttpPipeline, for any number of connections, streams and    *)
(* workers and channels of any capacity: no request is lost or doubled on  *)
(* its way, and no encoder is used that the codec has destroyed.           *)
(***************************************************************************)
EXTENDS HttpPipeline, SequenceTheorems, FiniteSetTheorems, FunctionTheorems, TLAPS

(***************************************************************************)
(* The inductive invariant.  Where a request is says how far it is: it is  *)
(* counted once from its last byte to the last byte of its response.  What *)
(* is not counted yet has no response, streams are opened one after        *)
(* another, and an encoder dies of its response, of its client or of the   *)
(* refusal of its request.                                                 *)
(***************************************************************************)
PuttingOne ==
    \A s \in Sessions : conn[s] = "put" => putting[s] \in 1..MaxStreams

OpenedInOrder ==
    \A s \in Sessions : \E k \in 0..MaxStreams : Opened(s) = 1..k

BusyHasRequest ==
    /\ \A w \in Workers : worker[w].at # "idle" => worker[w].q \in Requests
    /\ \A w \in Workers : worker[w].at = "idle" => worker[w].q = End
    /\ \A s \in Sessions : writer[s].at \in Stages => writer[s].q \in Requests
    /\ \A s \in Sessions : writer[s].at \notin Stages => writer[s].q = End
    /\ \A s \in Sessions : conn[s] = "open" => writer[s].at = "none"

OwnSession ==
    \A s \in Sessions :
        /\ writer[s].q # End => writer[s].q[1] = s
        /\ \A i \in DOMAIN responseChannel[s] :
              responseChannel[s][i] # End => responseChannel[s][i][1] = s

Unanswered ==
    \A q \in Requests :
        /\ stream[q] \in {"none", "body"} => sent[q] = "nothing"
        /\ encoder[q] = "none" <=> stream[q] = "none"
        /\ encoder[q] = "dead" =>
              q \in disturbed \/ sent[q] = "all" \/ stream[q] = "refused and complete"

PipelineInv ==
    /\ TypeOK /\ PuttingOne /\ OpenedInOrder /\ BusyHasRequest /\ OwnSession
    /\ Unanswered /\ NothingForgotten /\ EncoderOutlivesResponse

-----------------------------------------------------------------------------
(* How often a sequence holds an element *)

LEMMA OccurrencesType ==
    ASSUME NEW S, NEW s \in Seq(S), NEW q
    PROVE  /\ IsFiniteSet({i \in DOMAIN s : s[i] = q})
           /\ Occurrences(s, q) \in Nat
           /\ Occurrences(s, q) = 0 => \A i \in DOMAIN s : s[i] # q
<1> DEFINE P == {i \in DOMAIN s : s[i] = q}
<1>1. DOMAIN s = 1 .. Len(s) /\ Len(s) \in Nat
  BY LenProperties
<1>2. IsFiniteSet(1 .. Len(s)) /\ P \in SUBSET (1 .. Len(s))
  BY <1>1, FS_Interval
<1>3. IsFiniteSet(P)
  BY <1>2, FS_Subset
<1>4. Occurrences(s, q) = Cardinality(P)
  BY DEF Occurrences
<1>5. Cardinality(P) \in Nat /\ (Cardinality(P) = 0 => P = {})
  BY <1>3, FS_CardinalityType, FS_EmptySet
<1> QED
  BY <1>3, <1>4, <1>5

LEMMA OccurrencesAppend ==
    ASSUME NEW S, NEW s \in Seq(S), NEW e \in S, NEW q
    PROVE  Occurrences(Append(s, e), q) = Occurrences(s, q) + (IF e = q THEN 1 ELSE 0)
<1> DEFINE P == {i \in DOMAIN s : s[i] = q}
           Q == {i \in DOMAIN Append(s, e) : Append(s, e)[i] = q}
<1>1. DOMAIN s = 1 .. Len(s) /\ Len(s) \in Nat
  BY LenProperties
<1>2. /\ DOMAIN Append(s, e) = 1 .. Len(s) + 1
      /\ \A i \in 1 .. Len(s) : Append(s, e)[i] = s[i]
      /\ Append(s, e)[Len(s) + 1] = e
  BY <1>1
<1>3. Q = IF e = q THEN P \cup {Len(s) + 1} ELSE P
  <2> HIDE DEF P, Q
  <2>1. \A i : i \in Q <=> i \in P \/ (e = q /\ i = Len(s) + 1)
    BY <1>1, <1>2 DEF P, Q
  <2>2. CASE e = q
    BY <2>1, <2>2
  <2>3. CASE e # q
    BY <2>1, <2>3
  <2> QED
    BY <2>2, <2>3
<1>4. IsFiniteSet(P) /\ Len(s) + 1 \notin P /\ Cardinality(P) \in Nat
  <2>1. IsFiniteSet(P)
    BY OccurrencesType
  <2>2. Len(s) + 1 \notin P
    BY <1>1
  <2> QED
    BY <2>1, <2>2, FS_CardinalityType
<1>5. Cardinality(P \cup {Len(s) + 1}) = Cardinality(P) + 1
  BY <1>4, FS_AddElement
<1>6. Occurrences(s, q) = Cardinality(P) /\ Occurrences(Append(s, e), q) = Cardinality(Q)
  BY DEF Occurrences
<1> HIDE DEF P, Q
<1> QED
  BY <1>3, <1>4, <1>5, <1>6

LEMMA OccurrencesTail ==
    ASSUME NEW S, NEW s \in Seq(S), s # <<>>, NEW q
    PROVE  Occurrences(Tail(s), q) = Occurrences(s, q) - (IF Head(s) = q THEN 1 ELSE 0)
<1> DEFINE t == Tail(s)
           P == {i \in DOMAIN s : s[i] = q}
           Q == {i \in DOMAIN t : t[i] = q}
           f == [i \in Q |-> i + 1]
<1>1. DOMAIN s = 1 .. Len(s) /\ Len(s) \in Nat /\ Len(s) # 0
  BY LenProperties, EmptySeq
<1>2. /\ t \in Seq(S) /\ DOMAIN t = 1 .. Len(s) - 1
      /\ \A i \in 1 .. Len(s) - 1 : t[i] = s[i + 1]
      /\ Head(s) = s[1]
  <2>1. t \in Seq(S) /\ Len(t) = Len(s) - 1 /\ \A i \in 1 .. Len(t) : t[i] = s[i + 1]
    BY HeadTailProperties
  <2>2. DOMAIN t = 1 .. Len(t)
    BY <2>1, LenProperties
  <2>3. Head(s) = s[1]
    BY <1>1
  <2> QED
    BY <2>1, <2>2, <2>3
<1> HIDE DEF t
<1>3. IsFiniteSet(P) /\ IsFiniteSet(Q) /\ Cardinality(P) \in Nat
  BY <1>2, OccurrencesType DEF Occurrences
<1>4. f \in Bijection(Q, P \ {1})
  <2>1. f \in [Q -> P \ {1}]
    BY <1>1, <1>2
  <2>2. \A a, b \in Q : f[a] = f[b] => a = b
    BY <1>2
  <2>3. \A b \in P \ {1} : \E a \in Q : f[a] = b
    <3> TAKE b \in P \ {1}
    <3>1. b - 1 \in Q /\ (b - 1) + 1 = b
      BY <1>1, <1>2
    <3> QED
      BY <3>1
  <2> HIDE DEF f, P, Q
  <2> QED
    BY <2>1, <2>2, <2>3, Fun_IsBij
<1>5. Cardinality(P \ {1}) = Cardinality(Q)
  BY <1>3, <1>4, FS_Bijection DEF ExistsBijection
<1>6. 1 \in P <=> Head(s) = q
  BY <1>1, <1>2
<1>7. Cardinality(P \ {1}) = IF 1 \in P THEN Cardinality(P) - 1 ELSE Cardinality(P)
  BY <1>3, FS_RemoveElement
<1>8. Occurrences(s, q) = Cardinality(P) /\ Occurrences(t, q) = Cardinality(Q)
  BY DEF Occurrences
<1> HIDE DEF P, Q
<1> QED
  BY <1>3, <1>5, <1>6, <1>7, <1>8 DEF t
-----------------------------------------------------------------------------
(* Types *)

\* The records and sequences behind the variables.
LEMMA Parts ==
    ASSUME TypeOK
    PROVE  /\ \A w \in Workers : /\ worker[w].at \in {"idle", "handler", "reply"} \cup Stages
                                 /\ worker[w].q \in Requests \cup {End}
           /\ \A s \in Sessions : /\ writer[s].at \in {"none", "loop", "wait", "done", "failed"} \cup Stages
                                  /\ writer[s].q \in Requests \cup {End}
                                  /\ responseChannel[s] \in Seq(Requests \cup {End})
           /\ requestChannel \in Seq(Requests)
           /\ \A q \in Requests : /\ q[1] \in Sessions /\ q[2] \in 1..MaxStreams
                                  /\ q = <<q[1], q[2]>> /\ q # End
<1>1. \A w \in Workers : worker[w] \in [at: {"idle", "handler", "reply"} \cup Stages, q: Requests \cup {End}]
  BY DEF TypeOK
<1>2. \A s \in Sessions : /\ writer[s] \in [at: {"none", "loop", "wait", "done", "failed"} \cup Stages,
                                            q: Requests \cup {End}]
                          /\ responseChannel[s] \in Seq(Requests \cup {End})
  BY DEF TypeOK
<1>3. requestChannel \in Seq(Requests)
  BY DEF TypeOK
<1>4. \A q \in Requests : q[1] \in Sessions /\ q[2] \in 1..MaxStreams /\ q = <<q[1], q[2]>>
  BY DEF Requests
<1>5. \A q \in Requests : q # End
  BY PipelineAssumption
<1> QED
  BY <1>1, <1>2, <1>3, <1>4, <1>5

\* Each call of an encoder.
LEMMA EncodeTypes ==
    ASSUME TypeOK, NEW q, NEW part \in Stages,
           Encode(part, q) \/ UNCHANGED <<sent, encoder, misused>>
    PROVE  /\ sent' \in [Requests -> {"nothing", "headers", "data", "all"}]
           /\ encoder' \in [Requests -> {"none", "live", "dead"}]
           /\ q \in Requests => misused' \subseteq Requests
<1>1. (IF IsLast(part, q) THEN "all" ELSE part) \in {"nothing", "headers", "data", "all"}
  BY DEF IsLast, Stages
<1>2. sent' \in [Requests -> {"nothing", "headers", "data", "all"}]
  <2>1. sent \in [Requests -> {"nothing", "headers", "data", "all"}]
    BY DEF TypeOK
  <2>2. \/ sent' = [sent EXCEPT ![q] = IF IsLast(part, q) THEN "all" ELSE part]
        \/ sent' = sent
    BY DEF Encode
  <2> QED
    BY <1>1, <2>1, <2>2
<1>3. encoder' \in [Requests -> {"none", "live", "dead"}]
  <2>1. encoder \in [Requests -> {"none", "live", "dead"}]
    BY DEF TypeOK
  <2>2. \/ encoder' = [encoder EXCEPT ![q] = "dead"]
        \/ encoder' = [encoder EXCEPT ![q] = "live"]
        \/ encoder' = encoder
    BY DEF Encode
  <2> QED
    BY <2>1, <2>2
<1>4. q \in Requests => misused' \subseteq Requests
  <2>1. misused \subseteq Requests
    BY DEF TypeOK
  <2>2. misused' \in {misused, misused \cup {q}}
    BY DEF Encode
  <2> QED
    BY <2>1, <2>2
<1> QED
  BY <1>2, <1>3, <1>4

\* A call that is not the last one is followed by another.
LEMMA NextCall ==
    ASSUME NEW part \in Stages, NEW q, ~IsLast(part, q)
    PROVE  After(part) \in Stages
BY DEF IsLast, After, Stages
LEMMA TypeInit == Init => TypeOK
<1> SUFFICES ASSUME Init PROVE TypeOK
  OBVIOUS
<1>1. /\ detached \in BOOLEAN
      /\ protocol \in [Sessions -> {"none", "Http1", "Http2"}]
      /\ conn \in [Sessions -> {"open", "read", "put", "left", "closing", "gone"}]
      /\ putting \in [Sessions -> 0..MaxStreams]
      /\ closed \in [Sessions -> BOOLEAN] /\ down \in [Sessions -> BOOLEAN]
  BY PipelineAssumption DEF Init
<1>2. /\ stream \in [Requests -> {"none", "body", "complete", "refused", "refused and complete"}]
      /\ encoder \in [Requests -> {"none", "live", "dead"}]
      /\ body \in [Requests -> BOOLEAN]
      /\ sent \in [Requests -> {"nothing", "headers", "data", "all"}]
      /\ disturbed \subseteq Requests /\ misused \subseteq Requests
  BY DEF Init
<1>3. /\ requestChannel \in Seq(Requests) /\ Len(requestChannel) <= RequestCapacity
      /\ responseChannel \in [Sessions -> Seq(Requests \cup {End})]
  BY PipelineAssumption DEF Init
<1>4. /\ worker \in [Workers -> [at: {"idle", "handler", "reply"} \cup Stages, q: Requests \cup {End}]]
      /\ writer \in [Sessions -> [at: {"none", "loop", "wait", "done", "failed"} \cup Stages,
                                  q: Requests \cup {End}]]
  BY DEF Init, Idle
<1> QED
  BY <1>1, <1>2, <1>3, <1>4 DEF TypeOK

WorkerStates == {"idle", "handler", "reply"} \cup Stages
WriterStates == {"none", "loop", "wait", "done", "failed"} \cup Stages
WorkerType == [Workers -> [at: WorkerStates, q: Requests \cup {End}]]
WriterType == [Sessions -> [at: WriterStates, q: Requests \cup {End}]]

\* The workers and write fibers on whose side a step happens keep their records.
LEMMA WorkerTyped ==
    ASSUME TypeOK, NEW w \in Workers, NEW a \in WorkerStates, NEW q \in Requests \cup {End},
           worker' = [worker EXCEPT ![w] = [at |-> a, q |-> q]]
    PROVE  worker' \in WorkerType
<1>1. worker \in WorkerType
  BY DEF TypeOK, WorkerType, WorkerStates
<1> QED
  BY <1>1 DEF WorkerType

LEMMA WriterTyped ==
    ASSUME TypeOK, NEW s \in Sessions, NEW a \in WriterStates, NEW q \in Requests \cup {End},
           writer' = [writer EXCEPT ![s] = [at |-> a, q |-> q]]
    PROVE  writer' \in WriterType
<1>1. writer \in WriterType
  BY DEF TypeOK, WriterType, WriterStates
<1> QED
  BY <1>1 DEF WriterType

\* A record of which one field changes.
LEMMA WorkerGoes ==
    ASSUME TypeOK, NEW w \in Workers, NEW a \in WorkerStates, worker' = [worker EXCEPT ![w].at = a]
    PROVE  /\ worker' = [worker EXCEPT ![w] = [at |-> a, q |-> worker[w].q]]
           /\ worker' \in WorkerType
<1>1. worker[w] \in [at: WorkerStates, q: Requests \cup {End}]
  BY DEF TypeOK, WorkerStates
<1>2. [worker[w] EXCEPT !.at = a] = [at |-> a, q |-> worker[w].q] /\ worker[w].q \in Requests \cup {End}
  BY <1>1
<1>3. worker' = [worker EXCEPT ![w] = [at |-> a, q |-> worker[w].q]]
  BY <1>2
<1> QED
  BY <1>2, <1>3, WorkerTyped

LEMMA WriterGoes ==
    ASSUME TypeOK, NEW s \in Sessions, NEW a \in WriterStates, writer' = [writer EXCEPT ![s].at = a]
    PROVE  /\ writer' = [writer EXCEPT ![s] = [at |-> a, q |-> writer[s].q]]
           /\ writer' \in WriterType
<1>1. writer[s] \in [at: WriterStates, q: Requests \cup {End}]
  BY DEF TypeOK, WriterStates
<1>2. [writer[s] EXCEPT !.at = a] = [at |-> a, q |-> writer[s].q] /\ writer[s].q \in Requests \cup {End}
  BY <1>1
<1>3. writer' = [writer EXCEPT ![s] = [at |-> a, q |-> writer[s].q]]
  BY <1>2
<1> QED
  BY <1>2, <1>3, WriterTyped

LEMMA TypeStep == ASSUME TypeOK, PuttingOne, BusyHasRequest, [Next]_vars PROVE TypeOK'
<1> USE DEF connVars, streamVars
<1>1. ASSUME NEW s \in Sessions, OpenSession(s)
      PROVE  TypeOK'
  <2>1. conn' \in [Sessions -> {"open", "read", "put", "left", "closing", "gone"}]
    BY <1>1 DEF OpenSession, TypeOK
  <2>2. writer' \in WriterType
    <3>1. CASE detached
      <4>1. PICK a \in WriterStates : a = "loop"
        BY DEF WriterStates
      <4>2. writer' = [writer EXCEPT ![s].at = a]
        BY <1>1, <3>1, <4>1 DEF OpenSession
      <4> QED
        BY <4>2, WriterGoes
    <3>2. CASE ~detached
      BY <1>1, <3>2 DEF OpenSession, TypeOK, WriterType, WriterStates
    <3> QED
      BY <3>1, <3>2
  <2> QED
    BY <1>1, <2>1, <2>2 DEF OpenSession, TypeOK, WriterType, WriterStates
<1>2. ASSUME NEW s \in Sessions, NEW p \in {"Http1", "Http2"},
             NEW refused \in BOOLEAN, NEW endStream \in BOOLEAN,
             DecodeHeaders(s, p, refused, endStream)
      PROVE  TypeOK'
  <2> DEFINE n == Cardinality(Opened(s)) + 1
  <2>1. n \in 1..MaxStreams
    <3>1. Opened(s) \in SUBSET (1..MaxStreams) /\ IsFiniteSet(1..MaxStreams)
      <4>1. IsFiniteSet(1..MaxStreams)
        BY FS_Interval, PipelineAssumption
      <4> QED
        BY <4>1 DEF Opened
    <3>2. Cardinality(Opened(s)) \in Nat
      BY <3>1, FS_Subset, FS_CardinalityType
    <3>3. n <= MaxStreams
      BY <1>2 DEF DecodeHeaders
    <3> QED
      BY <3>2, <3>3, PipelineAssumption
  <2> HIDE DEF n
  <2>2. <<s, n>> \in Requests
    BY <2>1 DEF Requests
  <2>3. protocol' \in [Sessions -> {"none", "Http1", "Http2"}]
    BY <1>2 DEF DecodeHeaders, TypeOK
  <2>4. stream' \in [Requests -> {"none", "body", "complete", "refused", "refused and complete"}]
    <3>1. \E v \in {"body", "complete", "refused", "refused and complete"} :
             stream' = [stream EXCEPT ![<<s, n>>] = v]
      BY <1>2 DEF DecodeHeaders, n
    <3> QED
      BY <3>1 DEF TypeOK
  <2>5. sent' \in [Requests -> {"nothing", "headers", "data", "all"}]
    BY <1>2 DEF DecodeHeaders, TypeOK, n
  <2>6. encoder' \in [Requests -> {"none", "live", "dead"}]
    BY <1>2 DEF DecodeHeaders, TypeOK
  <2>7. disturbed' \subseteq Requests
    BY <1>2 DEF DecodeHeaders, TypeOK
  <2>8. conn' \in [Sessions -> {"open", "read", "put", "left", "closing", "gone"}]
    <3>1. \E v \in {"read", "put", "left"} : conn' = [conn EXCEPT ![s] = v]
      BY <1>2 DEF DecodeHeaders
    <3> QED
      BY <3>1 DEF TypeOK
  <2>9. putting' \in [Sessions -> 0..MaxStreams]
    <3>1. n \in 0..MaxStreams
      BY <2>1, PipelineAssumption
    <3>2. putting' = [putting EXCEPT ![s] = IF endStream /\ ~refused THEN n ELSE @]
      BY <1>2 DEF DecodeHeaders, n
    <3> QED
      BY <3>1, <3>2 DEF TypeOK
  <2> QED
    BY <1>2, <2>3, <2>4, <2>5, <2>6, <2>7, <2>8, <2>9 DEF DecodeHeaders, TypeOK
<1>3. ASSUME NEW s \in Sessions, NEW n \in 1..MaxStreams, DecodeDataEnd(s, n)
      PROVE  TypeOK'
  <2>1. <<s, n>> \in Requests /\ n \in 0..MaxStreams
    BY PipelineAssumption DEF Requests
  <2>2. /\ stream' \in [Requests -> {"none", "body", "complete", "refused", "refused and complete"}]
        /\ conn' \in [Sessions -> {"open", "read", "put", "left", "closing", "gone"}]
    BY <1>3 DEF DecodeDataEnd, TypeOK
  <2>3. putting' \in [Sessions -> 0..MaxStreams]
    <3>1. putting \in [Sessions -> 0..MaxStreams]
      BY DEF TypeOK
    <3>2. putting' = putting \/ putting' = [putting EXCEPT ![s] = n]
      BY <1>3 DEF DecodeDataEnd
    <3> QED
      BY <2>1, <3>1, <3>2
  <2>4. misused' \subseteq Requests
    <3>1. misused \subseteq Requests
      BY DEF TypeOK
    <3>2. misused' = misused \/ misused' = misused \cup {<<s, n>>}
      BY <1>3 DEF DecodeDataEnd
    <3> QED
      BY <2>1, <3>1, <3>2
  <2> QED
    BY <1>3, <2>2, <2>3, <2>4 DEF DecodeDataEnd, TypeOK
<1>4. ASSUME NEW s \in Sessions, PutRequest(s)
      PROVE  TypeOK'
  <2>1. <<s, putting[s]>> \in Requests
    BY <1>4 DEF PutRequest, PuttingOne, Requests
  <2>2. /\ requestChannel' \in Seq(Requests)
        /\ Len(requestChannel') = Len(requestChannel) + 1 /\ Len(requestChannel) \in Nat
    <3>1. requestChannel' = Append(requestChannel, <<s, putting[s]>>)
      BY <1>4 DEF PutRequest
    <3>2. requestChannel \in Seq(Requests)
      BY DEF TypeOK
    <3> QED
      BY <2>1, <3>1, <3>2
  <2>3. Len(requestChannel') <= RequestCapacity
    BY <1>4, <2>2, PipelineAssumption DEF PutRequest
  <2>4. /\ conn' \in [Sessions -> {"open", "read", "put", "left", "closing", "gone"}]
    BY <1>4 DEF PutRequest, TypeOK
  <2>5. putting' \in [Sessions -> 0..MaxStreams]
    <3>1. 0 \in 0..MaxStreams
      BY PipelineAssumption
    <3> QED
      BY <1>4, <3>1 DEF PutRequest, TypeOK
  <2> QED
    BY <1>4, <2>2, <2>3, <2>4, <2>5 DEF PutRequest, TypeOK
<1>5. ASSUME NEW s \in Sessions, NEW n \in 1..MaxStreams, ResetByClient(s, n)
      PROVE  TypeOK'
  <2>1. <<s, n>> \in Requests
    BY DEF Requests
  <2>2. encoder' \in [Requests -> {"none", "live", "dead"}] /\ disturbed' \subseteq Requests
    BY <1>5, <2>1 DEF ResetByClient, TypeOK
  <2> QED
    BY <1>5, <2>2 DEF ResetByClient, TypeOK
<1>6. ASSUME NEW s \in Sessions, Leave(s)
      PROVE  TypeOK'
  BY <1>6 DEF Leave, TypeOK
<1>7. ASSUME NEW s \in Sessions, PutEnd(s)
      PROVE  TypeOK'
  <2>1. responseChannel' \in [Sessions -> Seq(Requests \cup {End})]
    <3>1. Append(responseChannel[s], End) \in Seq(Requests \cup {End})
      BY Parts
    <3>2. responseChannel' = [responseChannel EXCEPT ![s] = Append(responseChannel[s], End)]
      BY <1>7 DEF PutEnd
    <3> QED
      BY <3>1, <3>2 DEF TypeOK
  <2>2. conn' \in [Sessions -> {"open", "read", "put", "left", "closing", "gone"}]
    BY <1>7 DEF PutEnd, TypeOK
  <2> QED
    BY <1>7, <2>1, <2>2 DEF PutEnd, TypeOK
<1>8. ASSUME NEW s \in Sessions, CloseSocket(s)
      PROVE  TypeOK'
  BY <1>8 DEF CloseSocket, TypeOK
<1>9. ASSUME NEW s \in Sessions, PeerGone(s)
      PROVE  TypeOK'
  BY <1>9 DEF PeerGone, TypeOK
<1>10. ASSUME NEW w \in Workers, TakeRequest(w)
       PROVE  TypeOK'
  <2>1. requestChannel \in Seq(Requests) /\ requestChannel # <<>> /\ requestChannel' = Tail(requestChannel)
    BY <1>10 DEF TakeRequest, TypeOK
  <2>2. /\ Head(requestChannel) \in Requests /\ requestChannel' \in Seq(Requests)
        /\ Len(requestChannel') = Len(requestChannel) - 1 /\ Len(requestChannel) \in Nat
    BY <2>1, HeadTailProperties, LenProperties
  <2>3. Len(requestChannel') <= RequestCapacity
    <3>1. Len(requestChannel) <= RequestCapacity /\ RequestCapacity \in Nat
      BY PipelineAssumption DEF TypeOK
    <3> QED
      BY <2>2, <3>1
  <2>4. worker' \in WorkerType
    BY <1>10, <2>2, WorkerTyped DEF TakeRequest, WorkerStates
  <2> QED
    BY <1>10, <2>2, <2>3, <2>4 DEF TakeRequest, TypeOK, WorkerType, WorkerStates
<1>11. ASSUME NEW w \in Workers, NEW withBody \in BOOLEAN, RunHandler(w, withBody)
       PROVE  TypeOK'
  <2>1. PICK a \in WorkerStates : worker' = [worker EXCEPT ![w].at = a]
    BY <1>11 DEF RunHandler, WorkerStates, Stages
  <2>2. worker' \in WorkerType
    BY <2>1, WorkerGoes
  <2>3. body' \in [Requests -> BOOLEAN]
    BY <1>11 DEF RunHandler, TypeOK
  <2> QED
    BY <1>11, <2>2, <2>3 DEF RunHandler, TypeOK, WorkerType, WorkerStates
<1>12. ASSUME NEW w \in Workers, PutResponse(w)
       PROVE  TypeOK'
  <2>1. responseChannel' \in [Sessions -> Seq(Requests \cup {End})]
    <3>1. worker[w].q \in Requests \cup {End}
      BY Parts
    <3>2. \A s \in Sessions : Append(responseChannel[s], worker[w].q) \in Seq(Requests \cup {End})
      BY <3>1, Parts
    <3>3. PICK s : responseChannel' = [responseChannel EXCEPT ![s] = Append(responseChannel[s], worker[w].q)]
      BY <1>12 DEF PutResponse
    <3> QED
      BY <3>2, <3>3 DEF TypeOK
  <2>2. worker' \in WorkerType
    BY <1>12, WorkerTyped DEF PutResponse, Idle, WorkerStates
  <2> QED
    BY <1>12, <2>1, <2>2 DEF PutResponse, TypeOK, WorkerType, WorkerStates
<1>13. ASSUME NEW w \in Workers, WorkerEncodes(w)
       PROVE  TypeOK'
  <2>0. worker[w].q \in Requests
    BY <1>13 DEF WorkerEncodes, BusyHasRequest
  <2> DEFINE part == worker[w].at
  <2>1. part \in Stages /\ (Encode(part, worker[w].q) \/ UNCHANGED <<sent, encoder, misused>>)
    BY <1>13 DEF WorkerEncodes, Stages
  <2>2. /\ sent' \in [Requests -> {"nothing", "headers", "data", "all"}]
        /\ encoder' \in [Requests -> {"none", "live", "dead"}]
        /\ misused' \subseteq Requests
    BY <2>0, <2>1, EncodeTypes
  <2>3. \/ worker' = [worker EXCEPT ![w] = [at |-> "idle", q |-> End]]
        \/ ~IsLast(part, worker[w].q) /\ worker' = [worker EXCEPT ![w].at = After(part)]
    BY <1>13 DEF WorkerEncodes, Idle
  <2>4. worker' \in WorkerType
    <3>1. CASE worker' = [worker EXCEPT ![w] = [at |-> "idle", q |-> End]]
      BY <3>1, WorkerTyped DEF WorkerStates
    <3>2. CASE ~IsLast(part, worker[w].q) /\ worker' = [worker EXCEPT ![w].at = After(part)]
      <4>1. PICK a \in WorkerStates : a = After(part)
        BY <2>1, <3>2, NextCall DEF WorkerStates
      <4> QED
        BY <3>2, <4>1, WorkerGoes
    <3> QED
      BY <2>3, <3>1, <3>2
  <2> QED
    BY <1>13, <2>2, <2>4 DEF WorkerEncodes, TypeOK, WorkerType, WorkerStates
<1>14. ASSUME NEW s \in Sessions, WriterLoops(s)
       PROVE  TypeOK'
  <2>1. PICK a \in WriterStates : writer' = [writer EXCEPT ![s].at = a]
    BY <1>14 DEF WriterLoops, WriterStates
  <2>2. writer' \in WriterType
    BY <2>1, WriterGoes
  <2> QED
    BY <1>14, <2>2 DEF WriterLoops, TypeOK, WriterType, WriterStates
<1>15. ASSUME NEW s \in Sessions, WriterTakes(s)
       PROVE  TypeOK'
  <2>1. responseChannel[s] \in Seq(Requests \cup {End}) /\ responseChannel[s] # <<>>
    BY <1>15 DEF WriterTakes, TypeOK
  <2>2. Head(responseChannel[s]) \in Requests \cup {End} /\ Tail(responseChannel[s]) \in Seq(Requests \cup {End})
    BY <2>1, HeadTailProperties
  <2>3. responseChannel' \in [Sessions -> Seq(Requests \cup {End})]
    BY <1>15, <2>2 DEF WriterTakes, TypeOK
  <2>4. \/ writer' = [writer EXCEPT ![s].at = "done"]
        \/ writer' = [writer EXCEPT ![s] = [at |-> "headers", q |-> Head(responseChannel[s])]]
    BY <1>15 DEF WriterTakes
  <2>5. writer' \in WriterType
    <3>1. CASE writer' = [writer EXCEPT ![s].at = "done"]
      <4>1. PICK a \in WriterStates : a = "done"
        BY DEF WriterStates
      <4> QED
        BY <3>1, <4>1, WriterGoes
    <3>2. CASE writer' = [writer EXCEPT ![s] = [at |-> "headers", q |-> Head(responseChannel[s])]]
      <4>1. "headers" \in WriterStates
        BY DEF WriterStates, Stages
      <4> QED
        BY <2>2, <3>2, <4>1, WriterTyped
    <3> QED
      BY <2>4, <3>1, <3>2
  <2> QED
    BY <1>15, <2>3, <2>5 DEF WriterTakes, TypeOK, WriterType, WriterStates
<1>16. ASSUME NEW s \in Sessions, WriterEncodes(s)
       PROVE  TypeOK'
  <2>0. writer[s].q \in Requests
    BY <1>16 DEF WriterEncodes, BusyHasRequest, Stages
  <2> DEFINE part == writer[s].at
  <2>1. part \in Stages /\ (Encode(part, writer[s].q) \/ UNCHANGED <<sent, encoder, misused>>)
    BY <1>16 DEF WriterEncodes, Stages
  <2>2. /\ sent' \in [Requests -> {"nothing", "headers", "data", "all"}]
        /\ encoder' \in [Requests -> {"none", "live", "dead"}]
        /\ misused' \subseteq Requests
    BY <2>0, <2>1, EncodeTypes
  <2>3. \/ \E a \in {"failed", "loop"} : writer' = [writer EXCEPT ![s] = [at |-> a, q |-> End]]
        \/ ~IsLast(part, writer[s].q) /\ writer' = [writer EXCEPT ![s].at = After(part)]
    BY <1>16 DEF WriterEncodes
  <2>4. writer' \in WriterType
    <3>1. ASSUME NEW a \in {"failed", "loop"}, writer' = [writer EXCEPT ![s] = [at |-> a, q |-> End]]
          PROVE  writer' \in WriterType
      BY <3>1, WriterTyped DEF WriterStates
    <3>2. CASE ~IsLast(part, writer[s].q) /\ writer' = [writer EXCEPT ![s].at = After(part)]
      <4>1. PICK a \in WriterStates : a = After(part)
        BY <2>1, <3>2, NextCall DEF WriterStates
      <4> QED
        BY <3>2, <4>1, WriterGoes
    <3> QED
      BY <2>3, <3>1, <3>2
  <2> QED
    BY <1>16, <2>2, <2>4 DEF WriterEncodes, TypeOK, WriterType, WriterStates
<1>17. CASE UNCHANGED vars
  BY <1>17 DEF vars, TypeOK
<1> QED
  BY <1>1, <1>2, <1>3, <1>4, <1>5, <1>6, <1>7, <1>8, <1>9, <1>10, <1>11, <1>12, <1>13, <1>14,
     <1>15, <1>16, <1>17 DEF Next, Client, Connection, WriteFiber, Work
-----------------------------------------------------------------------------
(* What busy workers and write fibers hold *)

LEMMA BusyStep ==
    ASSUME TypeOK, PuttingOne, BusyHasRequest, OwnSession, [Next]_vars
    PROVE  BusyHasRequest' /\ OwnSession'
<1> USE DEF connVars, streamVars
<1>a. /\ worker \in WorkerType /\ writer \in WriterType
      /\ responseChannel \in [Sessions -> Seq(Requests \cup {End})]
  BY DEF TypeOK, WorkerType, WorkerStates, WriterType, WriterStates
<1>b. \A w \in Workers : /\ worker[w].at \in WorkerStates /\ worker[w].q \in Requests \cup {End}
                         /\ worker[w].at # "idle" => worker[w].q \in Requests
                         /\ worker[w].at = "idle" => worker[w].q = End
  BY Parts DEF WorkerStates, BusyHasRequest
<1>c. \A s \in Sessions : /\ writer[s].at \in WriterStates /\ writer[s].q \in Requests \cup {End}
                          /\ writer[s].at \in Stages => writer[s].q \in Requests
                          /\ writer[s].at \notin Stages => writer[s].q = End
                          /\ writer[s].q # End => writer[s].q[1] = s
                          /\ conn[s] = "open" => writer[s].at = "none"
  BY Parts DEF WriterStates, BusyHasRequest, OwnSession
<1>d. \A s \in Sessions : \A i \in DOMAIN responseChannel[s] :
         responseChannel[s][i] # End => responseChannel[s][i][1] = s
  BY DEF OwnSession
<1>e. End \notin Requests
  BY PipelineAssumption
<1>w. ASSUME NEW w \in Workers, NEW a \in WorkerStates, NEW q \in Requests \cup {End},
             a = "idle" <=> q = End, worker' = [worker EXCEPT ![w] = [at |-> a, q |-> q]]
      PROVE  /\ \A x \in Workers : worker'[x].at # "idle" => worker'[x].q \in Requests
             /\ \A x \in Workers : worker'[x].at = "idle" => worker'[x].q = End
  <2>1. \A x \in Workers : worker'[x] = IF x = w THEN [at |-> a, q |-> q] ELSE worker[x]
    BY <1>w, <1>a DEF WorkerType
  <2> QED
    BY <2>1, <1>w, <1>b
<1>x. ASSUME NEW s \in Sessions, NEW a \in WriterStates, NEW q \in Requests \cup {End},
             a \in Stages <=> q # End, q # End => q[1] = s,
             writer' = [writer EXCEPT ![s] = [at |-> a, q |-> q]]
      PROVE  /\ \A x \in Sessions : x # s => writer'[x] = writer[x]
             /\ \A x \in Sessions : writer'[x].at \in Stages => writer'[x].q \in Requests
             /\ \A x \in Sessions : writer'[x].at \notin Stages => writer'[x].q = End
             /\ \A x \in Sessions : writer'[x].q # End => writer'[x].q[1] = x
  <2>1. \A x \in Sessions : writer'[x] = IF x = s THEN [at |-> a, q |-> q] ELSE writer[x]
    BY <1>x, <1>a DEF WriterType
  <2> QED
    BY <2>1, <1>x, <1>c, <1>e
<1>y. ASSUME NEW s \in Sessions, NEW e \in Requests \cup {End}, e # End => e[1] = s,
             responseChannel' = [responseChannel EXCEPT ![s] = Append(responseChannel[s], e)]
      PROVE  \A x \in Sessions : \A i \in DOMAIN responseChannel'[x] :
                responseChannel'[x][i] # End => responseChannel'[x][i][1] = x
  <2>1. \A x \in Sessions : responseChannel'[x] = IF x = s THEN Append(responseChannel[s], e)
                                                           ELSE responseChannel[x]
    BY <1>y, <1>a
  <2>2. responseChannel[s] \in Seq(Requests \cup {End})
    BY <1>a
  <2>3. \A i \in DOMAIN Append(responseChannel[s], e) :
           \/ Append(responseChannel[s], e)[i] = e
           \/ i \in DOMAIN responseChannel[s] /\ Append(responseChannel[s], e)[i] = responseChannel[s][i]
    BY <2>2
  <2> QED
    BY <2>1, <2>3, <1>d, <1>y
<1>z. ASSUME NEW s \in Sessions, responseChannel[s] # <<>>,
             responseChannel' = [responseChannel EXCEPT ![s] = Tail(responseChannel[s])]
      PROVE  /\ \A x \in Sessions : \A i \in DOMAIN responseChannel'[x] :
                   responseChannel'[x][i] # End => responseChannel'[x][i][1] = x
             /\ Head(responseChannel[s]) \in Requests \cup {End}
             /\ Head(responseChannel[s]) # End => Head(responseChannel[s])[1] = s
  <2>1. \A x \in Sessions : responseChannel'[x] = IF x = s THEN Tail(responseChannel[s])
                                                           ELSE responseChannel[x]
    BY <1>z, <1>a
  <2>2. responseChannel[s] \in Seq(Requests \cup {End})
    BY <1>a
  <2>3. /\ Tail(responseChannel[s]) \in Seq(Requests \cup {End})
        /\ Len(Tail(responseChannel[s])) = Len(responseChannel[s]) - 1
        /\ \A i \in 1 .. Len(Tail(responseChannel[s])) : Tail(responseChannel[s])[i] = responseChannel[s][i + 1]
        /\ Head(responseChannel[s]) \in Requests \cup {End}
    BY <1>z, <2>2, HeadTailProperties
  <2>4. /\ DOMAIN responseChannel[s] = 1 .. Len(responseChannel[s])
        /\ DOMAIN Tail(responseChannel[s]) = 1 .. Len(Tail(responseChannel[s]))
        /\ Len(responseChannel[s]) \in Nat /\ Len(responseChannel[s]) # 0
    BY <1>z, <2>2, <2>3, LenProperties, EmptySeq
  <2>5. \A i \in DOMAIN Tail(responseChannel[s]) :
           i + 1 \in DOMAIN responseChannel[s] /\ Tail(responseChannel[s])[i] = responseChannel[s][i + 1]
    BY <2>3, <2>4
  <2>6. 1 \in DOMAIN responseChannel[s] /\ Head(responseChannel[s]) = responseChannel[s][1]
    BY <2>2, <2>4
  <2>7. ASSUME NEW x \in Sessions, NEW i \in DOMAIN responseChannel'[x],
               responseChannel'[x][i] # End
        PROVE  responseChannel'[x][i][1] = x
    <3>1. CASE x = s
      <4>1. responseChannel'[x] = Tail(responseChannel[s])
        BY <2>1, <3>1
      <4>2. i + 1 \in DOMAIN responseChannel[s] /\ responseChannel'[x][i] = responseChannel[s][i + 1]
        BY <2>5, <2>7, <4>1
      <4> QED
        BY <2>7, <3>1, <4>2, <1>d
    <3>2. CASE x # s
      BY <2>1, <2>7, <3>2, <1>d
    <3> QED
      BY <3>1, <3>2
  <2>8. Head(responseChannel[s]) # End => Head(responseChannel[s])[1] = s
    BY <2>6, <1>d
  <2> QED
    BY <2>3, <2>7, <2>8
<1>o. ASSUME NEW s \in Sessions, NEW v \in {"read", "put", "left", "closing", "gone"},
             conn' = [conn EXCEPT ![s] = v], UNCHANGED writer
      PROVE  \A x \in Sessions : conn'[x] = "open" => writer'[x].at = "none"
  <2>1. \A x \in Sessions : conn'[x] = IF x = s THEN v ELSE conn[x]
    BY <1>o DEF TypeOK
  <2> QED
    BY <2>1, <1>o, <1>c
<1>1. ASSUME UNCHANGED <<worker, writer, responseChannel>>,
             \/ UNCHANGED conn
             \/ \E s \in Sessions, v \in {"read", "put", "left", "closing", "gone"} :
                   conn' = [conn EXCEPT ![s] = v]
      PROVE  BusyHasRequest' /\ OwnSession'
  BY <1>1, <1>o, <1>c, <1>b, <1>d DEF BusyHasRequest, OwnSession
<1>2. ASSUME NEW s \in Sessions, OpenSession(s)
      PROVE  BusyHasRequest' /\ OwnSession'
  <2>1. CASE ~detached
    BY <1>1, <1>2, <2>1 DEF OpenSession
  <2>2. CASE detached
    <3>1. PICK a \in WriterStates : a = "loop"
      BY DEF WriterStates
    <3>2. writer' = [writer EXCEPT ![s].at = a] /\ UNCHANGED <<worker, responseChannel>>
      BY <1>2, <2>2, <3>1 DEF OpenSession
    <3>3. writer[s].q = End /\ a \notin Stages
      BY <1>2, <1>c, <3>1 DEF OpenSession, Stages
    <3>4. writer' = [writer EXCEPT ![s] = [at |-> a, q |-> End]]
      BY <3>2, <3>3, WriterGoes
    <3>5. \A x \in Sessions : conn'[x] = IF x = s THEN "read" ELSE conn[x]
      BY <1>2 DEF OpenSession, TypeOK
    <3>6. \A x \in Sessions : conn'[x] = "open" => writer'[x].at = "none"
      BY <3>3, <3>4, <3>5, <1>x, <1>c
    <3> QED
      BY <3>2, <3>3, <3>4, <3>6, <1>x, <1>b, <1>d DEF BusyHasRequest, OwnSession
  <2> QED
    BY <2>1, <2>2
<1>3. ASSUME NEW s \in Sessions, NEW p \in {"Http1", "Http2"},
             NEW refused \in BOOLEAN, NEW endStream \in BOOLEAN,
             DecodeHeaders(s, p, refused, endStream)
      PROVE  BusyHasRequest' /\ OwnSession'
  <2>1. \E v \in {"read", "put", "left"} : conn' = [conn EXCEPT ![s] = v]
    BY <1>3 DEF DecodeHeaders
  <2>2. UNCHANGED <<worker, writer, responseChannel>>
    BY <1>3 DEF DecodeHeaders
  <2> QED
    BY <2>1, <2>2, <1>1
<1>4. ASSUME NEW s \in Sessions, NEW n \in 1..MaxStreams, DecodeDataEnd(s, n)
      PROVE  BusyHasRequest' /\ OwnSession'
  BY <1>4, <1>1 DEF DecodeDataEnd
<1>5. ASSUME NEW s \in Sessions, PutRequest(s) \/ Leave(s) \/ CloseSocket(s) \/ PeerGone(s)
      PROVE  BusyHasRequest' /\ OwnSession'
  BY <1>5, <1>1 DEF PutRequest, Leave, CloseSocket, PeerGone
<1>6. ASSUME NEW s \in Sessions, NEW n \in 1..MaxStreams, ResetByClient(s, n)
      PROVE  BusyHasRequest' /\ OwnSession'
  BY <1>6, <1>1 DEF ResetByClient
<1>7. ASSUME NEW s \in Sessions, PutEnd(s)
      PROVE  BusyHasRequest' /\ OwnSession'
  <2>1. /\ responseChannel' = [responseChannel EXCEPT ![s] = Append(responseChannel[s], End)]
        /\ conn' = [conn EXCEPT ![s] = "closing"] /\ UNCHANGED <<worker, writer>>
    BY <1>7 DEF PutEnd
  <2> QED
    BY <2>1, <1>y, <1>o, <1>b, <1>c DEF BusyHasRequest, OwnSession
<1>8. ASSUME UNCHANGED <<conn, writer, responseChannel>>, NEW w \in Workers, NEW a \in WorkerStates,
             NEW q \in Requests \cup {End}, a = "idle" <=> q = End,
             worker' = [worker EXCEPT ![w] = [at |-> a, q |-> q]]
      PROVE  BusyHasRequest' /\ OwnSession'
  BY <1>8, <1>w, <1>c, <1>d DEF BusyHasRequest, OwnSession
<1>9. ASSUME NEW w \in Workers, TakeRequest(w)
      PROVE  BusyHasRequest' /\ OwnSession'
  <2>1. Head(requestChannel) \in Requests
    BY <1>9, Parts, HeadTailProperties DEF TakeRequest
  <2>2. "handler" \in WorkerStates /\ Head(requestChannel) # End
    BY <2>1, <1>e DEF WorkerStates
  <2> QED
    BY <1>9, <2>1, <2>2, <1>8 DEF TakeRequest
<1>10. ASSUME NEW w \in Workers, NEW withBody \in BOOLEAN, RunHandler(w, withBody)
       PROVE  BusyHasRequest' /\ OwnSession'
  <2>1. PICK a \in WorkerStates : worker' = [worker EXCEPT ![w].at = a] /\ a # "idle"
    BY <1>10 DEF RunHandler, WorkerStates, Stages
  <2>2. worker' = [worker EXCEPT ![w] = [at |-> a, q |-> worker[w].q]]
    BY <2>1, WorkerGoes
  <2>3. worker[w].q \in Requests /\ worker[w].q # End
    BY <1>10, <1>b, <1>e DEF RunHandler
  <2> QED
    BY <1>10, <2>1, <2>2, <2>3, <1>8 DEF RunHandler
<1>11. ASSUME NEW w \in Workers, PutResponse(w)
       PROVE  BusyHasRequest' /\ OwnSession'
  <2>1. worker[w].q \in Requests /\ worker[w].q[1] \in Sessions
    BY <1>11, <1>b, Parts DEF PutResponse
  <2>2. worker' = [worker EXCEPT ![w] = [at |-> "idle", q |-> End]] /\ "idle" \in WorkerStates
    BY <1>11 DEF PutResponse, Idle, WorkerStates
  <2>3. /\ UNCHANGED <<conn, writer>>
        /\ responseChannel' = [responseChannel EXCEPT ![worker[w].q[1]] =
                                 Append(responseChannel[worker[w].q[1]], worker[w].q)]
    BY <1>11 DEF PutResponse
  <2> QED
    BY <2>1, <2>2, <2>3, <1>w, <1>y, <1>c DEF BusyHasRequest, OwnSession
<1>12. ASSUME NEW w \in Workers, WorkerEncodes(w)
       PROVE  BusyHasRequest' /\ OwnSession'
  <2> DEFINE part == worker[w].at
  <2>1. /\ part \in Stages /\ UNCHANGED <<conn, writer, responseChannel>>
        /\ \/ worker' = [worker EXCEPT ![w] = [at |-> "idle", q |-> End]]
           \/ ~IsLast(part, worker[w].q) /\ worker' = [worker EXCEPT ![w].at = After(part)]
    BY <1>12 DEF WorkerEncodes, Stages, Idle
  <2>2. CASE worker' = [worker EXCEPT ![w] = [at |-> "idle", q |-> End]]
    BY <2>1, <2>2, <1>8 DEF WorkerStates
  <2>3. CASE ~IsLast(part, worker[w].q) /\ worker' = [worker EXCEPT ![w].at = After(part)]
    <3>1. PICK a \in WorkerStates : a = After(part) /\ a # "idle"
      BY <2>1, <2>3, NextCall DEF WorkerStates, Stages
    <3>2. worker' = [worker EXCEPT ![w] = [at |-> a, q |-> worker[w].q]]
      BY <2>3, <3>1, WorkerGoes
    <3>3. worker[w].q \in Requests /\ worker[w].q # End
      BY <2>1, <1>b, <1>e DEF Stages
    <3> QED
      BY <2>1, <3>1, <3>2, <3>3, <1>8
  <2> QED
    BY <2>1, <2>2, <2>3
<1>13. ASSUME UNCHANGED <<conn, worker>>, NEW s \in Sessions, NEW a \in WriterStates,
              NEW q \in Requests \cup {End}, a \in Stages <=> q # End, q # End => q[1] = s,
              a # "none", conn[s] = "open" => a = "none",
              writer' = [writer EXCEPT ![s] = [at |-> a, q |-> q]],
              \A x \in Sessions : \A i \in DOMAIN responseChannel'[x] :
                 responseChannel'[x][i] # End => responseChannel'[x][i][1] = x
       PROVE  BusyHasRequest' /\ OwnSession'
  <2>1. \A x \in Sessions : conn'[x] = "open" => writer'[x].at = "none"
    BY <1>13, <1>x, <1>c
  <2> QED
    BY <1>13, <2>1, <1>x, <1>b DEF BusyHasRequest, OwnSession
<1>14. ASSUME NEW s \in Sessions, WriterLoops(s)
       PROVE  BusyHasRequest' /\ OwnSession'
  <2>1. PICK a \in WriterStates : writer' = [writer EXCEPT ![s].at = a] /\ a \in {"wait", "done"}
    BY <1>14 DEF WriterLoops, WriterStates
  <2>2. writer' = [writer EXCEPT ![s] = [at |-> a, q |-> writer[s].q]]
    BY <2>1, WriterGoes
  <2>3. writer[s].q = End /\ a \notin Stages /\ conn[s] # "open"
    BY <1>14, <1>c, <2>1 DEF WriterLoops, Stages
  <2>4. UNCHANGED <<conn, worker, responseChannel>>
    BY <1>14 DEF WriterLoops
  <2>5. a # "none" /\ (a \in Stages <=> writer[s].q # End) /\ writer[s].q \in Requests \cup {End}
    BY <2>1, <2>3
  <2>6. \A x \in Sessions : \A i \in DOMAIN responseChannel'[x] :
           responseChannel'[x][i] # End => responseChannel'[x][i][1] = x
    BY <2>4, <1>d
  <2> QED
    BY <2>2, <2>3, <2>4, <2>5, <2>6, <1>13
<1>15. ASSUME NEW s \in Sessions, WriterTakes(s)
       PROVE  BusyHasRequest' /\ OwnSession'
  <2>1. /\ responseChannel[s] # <<>> /\ UNCHANGED <<conn, worker>>
        /\ responseChannel' = [responseChannel EXCEPT ![s] = Tail(responseChannel[s])]
        /\ writer[s].at = "wait"
    BY <1>15 DEF WriterTakes
  <2>2. conn[s] # "open" /\ writer[s].q = End
    BY <2>1, <1>c DEF Stages
  <2>3. CASE Head(responseChannel[s]) = End
    <3>1. PICK a \in WriterStates : a = "done"
      BY DEF WriterStates
    <3>2. writer' = [writer EXCEPT ![s].at = a]
      BY <1>15, <2>3, <3>1 DEF WriterTakes
    <3>3. writer' = [writer EXCEPT ![s] = [at |-> a, q |-> End]]
      BY <3>2, <2>2, WriterGoes
    <3>4. a \notin Stages /\ a # "none"
      BY <3>1 DEF Stages
    <3> QED
      BY <2>1, <2>2, <3>3, <3>4, <1>13, <1>z
  <2>4. CASE Head(responseChannel[s]) # End
    <3>1. PICK a \in WriterStates : a = "headers"
      BY DEF WriterStates, Stages
    <3>2. writer' = [writer EXCEPT ![s] = [at |-> a, q |-> Head(responseChannel[s])]]
      BY <1>15, <2>4, <3>1 DEF WriterTakes
    <3>3. a \in Stages /\ a # "none"
      BY <3>1 DEF Stages
    <3> QED
      BY <2>1, <2>2, <2>4, <3>2, <3>3, <1>13, <1>z
  <2> QED
    BY <2>3, <2>4
<1>16. ASSUME NEW s \in Sessions, WriterEncodes(s)
       PROVE  BusyHasRequest' /\ OwnSession'
  <2> DEFINE part == writer[s].at
  <2>1. /\ part \in Stages /\ UNCHANGED <<conn, worker, responseChannel>>
        /\ \/ \E a \in {"failed", "loop"} : writer' = [writer EXCEPT ![s] = [at |-> a, q |-> End]]
           \/ ~IsLast(part, writer[s].q) /\ writer' = [writer EXCEPT ![s].at = After(part)]
    BY <1>16 DEF WriterEncodes, Stages
  <2>2. conn[s] # "open" /\ writer[s].q \in Requests /\ writer[s].q # End /\ writer[s].q[1] = s
    BY <2>1, <1>c, <1>e DEF Stages
  <2>3. ASSUME NEW a \in {"failed", "loop"}, writer' = [writer EXCEPT ![s] = [at |-> a, q |-> End]]
        PROVE  BusyHasRequest' /\ OwnSession'
    <3>1. a \in WriterStates /\ a \notin Stages /\ a # "none"
      BY <2>3 DEF WriterStates, Stages
    <3> QED
      BY <2>1, <2>2, <2>3, <3>1, <1>13, <1>d
  <2>4. CASE ~IsLast(part, writer[s].q) /\ writer' = [writer EXCEPT ![s].at = After(part)]
    <3>1. PICK a \in WriterStates : a = After(part) /\ a \in Stages /\ a # "none"
      BY <2>1, <2>4, NextCall DEF WriterStates, Stages
    <3>2. writer' = [writer EXCEPT ![s] = [at |-> a, q |-> writer[s].q]]
      BY <2>4, <3>1, WriterGoes
    <3>3. \A x \in Sessions : \A i \in DOMAIN responseChannel'[x] :
             responseChannel'[x][i] # End => responseChannel'[x][i][1] = x
      BY <2>1, <1>d
    <3> QED
      BY <2>1, <2>2, <3>1, <3>2, <3>3, <1>13
  <2> QED
    BY <2>1, <2>3, <2>4
<1>17. CASE UNCHANGED vars
  BY <1>17, <1>1 DEF vars
<1> QED
  BY <1>2, <1>3, <1>4, <1>5, <1>6, <1>7, <1>9, <1>10, <1>11, <1>12, <1>14,
     <1>15, <1>16, <1>17 DEF Next, Client, Connection, WriteFiber, Work
-----------------------------------------------------------------------------
(* What the steps do to the number of copies of a request *)

One(b) == IF b THEN 1 ELSE 0

\* The places of the pipeline, one by one.
AtPut(q) == One(conn[q[1]] = "put" /\ putting[q[1]] = q[2])
InRequests(q) == Occurrences(requestChannel, q)
AtWorkers(q) == Cardinality({w \in Workers : worker[w].q = q})
InResponses(q) == Occurrences(responseChannel[q[1]], q)
AtWriter(q) == One(writer[q[1]].q = q)

LEMMA CopiesParts ==
    ASSUME TypeOK, NEW q \in Requests
    PROVE  /\ AtPut(q) \in Nat /\ InRequests(q) \in Nat /\ AtWorkers(q) \in Nat
           /\ InResponses(q) \in Nat /\ AtWriter(q) \in Nat
           /\ IsFiniteSet({w \in Workers : worker[w].q = q})
<1>1. AtPut(q) \in Nat /\ AtWriter(q) \in Nat
  BY DEF AtPut, AtWriter, One
<1>2. InRequests(q) \in Nat
  BY Parts, OccurrencesType DEF InRequests
<1>3. InResponses(q) \in Nat
  BY Parts, OccurrencesType DEF InResponses
<1>4. IsFiniteSet({w \in Workers : worker[w].q = q})
  BY PipelineAssumption, FS_Subset, {w \in Workers : worker[w].q = q} \in SUBSET Workers
<1>5. AtWorkers(q) \in Nat
  BY <1>4, FS_CardinalityType DEF AtWorkers
<1> QED
  BY <1>1, <1>2, <1>3, <1>4, <1>5

LEMMA CopiesSum ==
    ASSUME NEW q
    PROVE  /\ Copies(q) = AtPut(q) + InRequests(q) + AtWorkers(q) + InResponses(q) + AtWriter(q)
           /\ Copies(q)' = AtPut(q)' + InRequests(q)' + AtWorkers(q)' + InResponses(q)' + AtWriter(q)'
BY DEF Copies, AtPut, InRequests, AtWorkers, InResponses, AtWriter, One

\* A worker lays down what it has and takes r.
LEMMA WorkerMoves ==
    ASSUME TypeOK, NEW w \in Workers, NEW r \in Requests \cup {End}, NEW q \in Requests,
           worker'[w].q = r, \A x \in Workers \ {w} : worker'[x].q = worker[x].q
    PROVE  AtWorkers(q)' = AtWorkers(q) - One(worker[w].q = q) + One(r = q)
<1> DEFINE P == {x \in Workers : worker[x].q = q}
           Q == {x \in Workers : worker'[x].q = q}
<1>1. IsFiniteSet(P) /\ Cardinality(P) \in Nat /\ AtWorkers(q) = Cardinality(P) /\ AtWorkers(q)' = Cardinality(Q)
  BY CopiesParts DEF AtWorkers
<1>2. \A x \in Workers : worker'[x].q = IF x = w THEN r ELSE worker[x].q
  OBVIOUS
<1>3. \A x : x \in Q <=> x \in P \ {w} \/ (x = w /\ r = q)
  BY <1>2
<1>4. (w \in P <=> worker[w].q = q) /\ w \notin P \ {w}
  OBVIOUS
<1> HIDE DEF P, Q
<1>5. IsFiniteSet(P \ {w}) /\ Cardinality(P \ {w}) = Cardinality(P) - One(worker[w].q = q)
  <2>1. /\ IsFiniteSet(P \ {w})
        /\ Cardinality(P \ {w}) = IF w \in P THEN Cardinality(P) - 1 ELSE Cardinality(P)
    BY <1>1, FS_RemoveElement
  <2> QED
    BY <1>1, <1>4, <2>1 DEF One
<1>6. CASE r = q
  <2>1. Q = (P \ {w}) \cup {w}
    BY <1>3, <1>6
  <2>2. Cardinality((P \ {w}) \cup {w}) = Cardinality(P \ {w}) + 1
    BY <1>4, <1>5, FS_AddElement
  <2> QED
    BY <1>1, <1>5, <1>6, <2>1, <2>2 DEF One
<1>7. CASE r # q
  <2>1. Q = P \ {w}
    BY <1>3, <1>7
  <2> QED
    BY <1>1, <1>5, <1>7, <2>1 DEF One
<1> QED
  BY <1>6, <1>7

\* A write fiber of session s lays down what it has and takes r, both of session s.
LEMMA WriterMoves ==
    ASSUME TypeOK, NEW s \in Sessions, NEW r \in Requests \cup {End}, NEW q \in Requests,
           r # End => r[1] = s, writer[s].q # End => writer[s].q[1] = s,
           writer'[s].q = r, \A x \in Sessions \ {s} : writer'[x].q = writer[x].q
    PROVE  AtWriter(q)' = AtWriter(q) - One(writer[s].q = q) + One(r = q)
<1>1. q[1] \in Sessions /\ q # End
  BY Parts
<1>2. \A x \in Sessions : writer'[x].q = IF x = s THEN r ELSE writer[x].q
  OBVIOUS
<1>3. CASE q[1] = s
  <2>1. AtWriter(q) = One(writer[s].q = q) /\ AtWriter(q)' = One(r = q)
    BY <1>1, <1>2, <1>3 DEF AtWriter
  <2> QED
    BY <2>1 DEF One
<1>4. CASE q[1] # s
  <2>1. AtWriter(q)' = AtWriter(q) /\ writer[s].q # q /\ r # q
    BY <1>1, <1>2, <1>4 DEF AtWriter
  <2> QED
    BY <2>1 DEF AtWriter, One
<1> QED
  BY <1>3, <1>4

\* Something of session s is put into its response channel.
LEMMA ResponsesGrow ==
    ASSUME TypeOK, NEW s \in Sessions, NEW e \in Requests \cup {End}, NEW q \in Requests,
           e # End => e[1] = s,
           responseChannel' = [responseChannel EXCEPT ![s] = Append(responseChannel[s], e)]
    PROVE  InResponses(q)' = InResponses(q) + One(e = q)
<1>1. q[1] \in Sessions /\ q # End
  BY Parts
<1>2. responseChannel'[q[1]] = IF q[1] = s THEN Append(responseChannel[s], e) ELSE responseChannel[q[1]]
  BY <1>1 DEF TypeOK
<1>3. Occurrences(Append(responseChannel[s], e), q) = Occurrences(responseChannel[s], q) + One(e = q)
  <2>1. responseChannel[s] \in Seq(Requests \cup {End})
    BY Parts
  <2> QED
    BY <2>1, OccurrencesAppend DEF One
<1>4. CASE q[1] = s
  BY <1>2, <1>3, <1>4 DEF InResponses
<1>5. CASE q[1] # s
  <2>1. e # q /\ InResponses(q)' = InResponses(q) /\ InResponses(q) \in Nat
    BY <1>1, <1>2, <1>5, CopiesParts DEF InResponses
  <2> QED
    BY <2>1 DEF One
<1> QED
  BY <1>4, <1>5

\* The first response is taken out of the channel of session s.
LEMMA ResponsesShrink ==
    ASSUME TypeOK, OwnSession, NEW s \in Sessions, NEW q \in Requests, responseChannel[s] # <<>>,
           responseChannel' = [responseChannel EXCEPT ![s] = Tail(responseChannel[s])]
    PROVE  InResponses(q)' = InResponses(q) - One(Head(responseChannel[s]) = q)
<1>1. q[1] \in Sessions /\ q # End
  BY Parts
<1>2. responseChannel'[q[1]] = IF q[1] = s THEN Tail(responseChannel[s]) ELSE responseChannel[q[1]]
  BY <1>1 DEF TypeOK
<1>3. responseChannel[s] \in Seq(Requests \cup {End})
  BY Parts
<1>4. Occurrences(Tail(responseChannel[s]), q)
        = Occurrences(responseChannel[s], q) - One(Head(responseChannel[s]) = q)
  BY <1>3, OccurrencesTail DEF One
<1>5. CASE q[1] = s
  BY <1>2, <1>4, <1>5 DEF InResponses
<1>6. CASE q[1] # s
  <2>1. 1 \in DOMAIN responseChannel[s] /\ Head(responseChannel[s]) = responseChannel[s][1]
    BY <1>3, LenProperties, EmptySeq
  <2>2. Head(responseChannel[s]) # q
    BY <1>1, <1>6, <2>1 DEF OwnSession
  <2>3. InResponses(q)' = InResponses(q) /\ InResponses(q) \in Nat
    BY <1>2, <1>6, CopiesParts DEF InResponses
  <2> QED
    BY <2>2, <2>3 DEF One
<1> QED
  BY <1>5, <1>6

\* A connection fiber that has nothing to put goes on with request <<s, n>>, or with none.
LEMMA PutsOne ==
    ASSUME TypeOK, NEW s \in Sessions, NEW q \in Requests, conn[s] # "put",
           \A x \in Sessions \ {s} : conn'[x] = conn[x] /\ putting'[x] = putting[x]
    PROVE  AtPut(q)' = AtPut(q) + One(q[1] = s /\ conn'[s] = "put" /\ putting'[s] = q[2])
<1>1. q[1] \in Sessions
  BY Parts
<1>2. CASE q[1] = s
  BY <1>2 DEF AtPut, One
<1>3. CASE q[1] # s
  <2>1. AtPut(q)' = AtPut(q)
    BY <1>1, <1>3 DEF AtPut
  <2> QED
    BY <1>3, <2>1 DEF One, AtPut
<1> QED
  BY <1>2, <1>3
-----------------------------------------------------------------------------
(* Streams *)

\* The request a connection reads next is a new one.
LEMMA NextRequest ==
    ASSUME TypeOK, OpenedInOrder, NEW s \in Sessions, NEW n,
           n = Cardinality(Opened(s)) + 1, n <= MaxStreams
    PROVE  /\ n \in 1..MaxStreams /\ <<s, n>> \in Requests /\ stream[<<s, n>>] = "none"
           /\ Opened(s) = 1..n - 1
<1>1. PICK k \in 0..MaxStreams : Opened(s) = 1..k
  BY DEF OpenedInOrder
<1>2. Cardinality(1..k) = k
  BY FS_Interval, PipelineAssumption
<1>3. n = k + 1 /\ k \in Nat /\ n \in 1..MaxStreams
  BY <1>1, <1>2, PipelineAssumption
<1>4. n \notin Opened(s)
  BY <1>1, <1>3
<1>5. stream[<<s, n>>] = "none"
  BY <1>3, <1>4 DEF Opened
<1> QED
  BY <1>1, <1>3, <1>5 DEF Requests

\* Streams stay open once they are.
LEMMA OpenedStay ==
    ASSUME OpenedInOrder, \A q \in Requests : stream'[q] = "none" <=> stream[q] = "none"
    PROVE  OpenedInOrder'
<1>1. \A t \in Sessions : Opened(t)' = Opened(t)
  <2>1. \A t \in Sessions : \A m \in 1..MaxStreams : <<t, m>> \in Requests
    BY DEF Requests
  <2> QED
    BY <2>1 DEF Opened
<1> QED
  BY <1>1 DEF OpenedInOrder

LEMMA OpenedNext ==
    ASSUME TypeOK, OpenedInOrder, NEW s \in Sessions, NEW n \in 1..MaxStreams, NEW v,
           Opened(s) = 1..n - 1, v # "none", stream' = [stream EXCEPT ![<<s, n>>] = v]
    PROVE  OpenedInOrder'
<1>1. \A q \in Requests : stream'[q] = IF q = <<s, n>> THEN v ELSE stream[q]
  BY DEF TypeOK
<1>2. \A t \in Sessions : \A m \in 1..MaxStreams : <<t, m>> \in Requests
  BY DEF Requests
<1>3. Opened(s)' = 1..n
  <2>1. \A m : m \in Opened(s)' <=> m \in 1..MaxStreams /\ (m = n \/ m \in Opened(s))
    BY <1>1, <1>2 DEF Opened
  <2>2. \A m : m \in 1..n <=> m \in 1..MaxStreams /\ (m = n \/ m \in 1..n - 1)
    BY PipelineAssumption
  <2> QED
    BY <2>1, <2>2
<1>4. ASSUME NEW t \in Sessions, t # s
      PROVE  Opened(t)' = Opened(t)
  BY <1>1, <1>2, <1>4 DEF Opened
<1>5. n \in 0..MaxStreams
  BY PipelineAssumption
<1> QED
  BY <1>3, <1>4, <1>5 DEF OpenedInOrder

-----------------------------------------------------------------------------
(* What is left of NothingForgotten, and of the encoders *)

Kept(q) ==
    /\ Copies(q) <= 1
    /\ Copies(q) = 1 => stream[q] = "complete" /\ (sent[q] # "all")
    /\ stream[q] = "complete" /\ Copies(q) = 0 =>
          sent[q] = "all" \/ down[q[1]] \/ q \in misused

LEMMA CopiesNat == ASSUME TypeOK, NEW q \in Requests PROVE Copies(q) \in Nat
<1>1. /\ AtPut(q) \in Nat /\ InRequests(q) \in Nat /\ AtWorkers(q) \in Nat
      /\ InResponses(q) \in Nat /\ AtWriter(q) \in Nat
  BY CopiesParts
<1>2. Copies(q) = AtPut(q) + InRequests(q) + AtWorkers(q) + InResponses(q) + AtWriter(q)
  BY CopiesSum
<1> QED
  BY <1>1, <1>2

\* A request that is neither taken up nor laid down.
LEMMA StaysKept ==
    ASSUME TypeOK, NEW q \in Requests, Kept(q),
           Copies(q)' = Copies(q), stream'[q] = stream[q],
           sent'[q] = sent[q] \/ (Copies(q) = 1 /\ sent'[q] # "all"),
           down[q[1]] => down'[q[1]], misused \subseteq misused'
    PROVE  Kept(q)'
BY CopiesNat DEF Kept

\* Request q is complete, and enters the pipeline.
LEMMA EntersKept ==
    ASSUME TypeOK, NEW q \in Requests, Kept(q), stream[q] # "complete",
           Copies(q)' = Copies(q) + 1, stream'[q] = "complete", sent'[q] # "all"
    PROVE  Kept(q)'
<1>1. Copies(q) = 0
  BY CopiesNat DEF Kept
<1> QED
  BY <1>1 DEF Kept

\* Request q leaves the pipeline.
LEMMA LeavesKept ==
    ASSUME TypeOK, NEW q \in Requests, Kept(q), Copies(q) # 0,
           Copies(q)' = Copies(q) - 1,
           sent'[q] = "all" \/ down'[q[1]] \/ q \in misused'
    PROVE  Kept(q)'
<1>1. Copies(q)' = 0
  BY CopiesNat DEF Kept
<1> QED
  BY <1>1 DEF Kept

\* One call of the encoder of a request that is in the pipeline.
LEMMA EncodeEffect ==
    ASSUME TypeOK, Unanswered, EncoderOutlivesResponse,
           NEW q \in Requests, NEW part \in Stages, Encode(part, q),
           stream[q] = "complete", sent[q] # "all", UNCHANGED <<stream, disturbed>>
    PROVE  /\ Unanswered' /\ EncoderOutlivesResponse'
           /\ misused \subseteq misused'
           /\ \A r \in Requests : r # q => sent'[r] = sent[r]
           /\ IsLast(part, q) => sent'[q] = "all" \/ q \in misused'
           /\ ~IsLast(part, q) => sent'[q] # "all"
<1>1. CASE encoder[q] = "live"
  <2>1. \A r \in Requests : /\ sent'[r] = IF r = q THEN (IF IsLast(part, q) THEN "all" ELSE part) ELSE sent[r]
                            /\ encoder'[r] = IF r = q THEN (IF IsLast(part, q) THEN "dead" ELSE "live")
                                                      ELSE encoder[r]
    BY <1>1 DEF Encode, TypeOK
  <2>2. misused' = misused
    BY <1>1 DEF Encode
  <2>3. Unanswered'
    BY <1>1, <2>1 DEF Unanswered
  <2>4. EncoderOutlivesResponse'
    BY <2>2 DEF EncoderOutlivesResponse
  <2>5. part # "all"
    BY DEF Stages
  <2> QED
    BY <2>1, <2>2, <2>3, <2>4, <2>5
<1>2. CASE encoder[q] # "live"
  <2>1. misused' = misused \cup {q} /\ UNCHANGED <<sent, encoder>>
    BY <1>2 DEF Encode
  <2>2. encoder[q] \in {"none", "live", "dead"}
    BY DEF TypeOK
  <2>3. q \in disturbed
    BY <1>2, <2>2 DEF Unanswered
  <2>4. Unanswered'
    BY <2>1 DEF Unanswered
  <2>5. EncoderOutlivesResponse'
    BY <2>1, <2>3 DEF EncoderOutlivesResponse
  <2> QED
    BY <2>1, <2>4, <2>5
<1> QED
  BY <1>1, <1>2

\* Steps that encode nothing and open nothing.
LEMMA QuietSide ==
    ASSUME TypeOK, OpenedInOrder, Unanswered, EncoderOutlivesResponse,
           UNCHANGED <<stream, encoder, sent, disturbed, misused>>
    PROVE  OpenedInOrder' /\ Unanswered' /\ EncoderOutlivesResponse'
BY OpenedStay DEF Unanswered, EncoderOutlivesResponse

\* Requests that move from one place to the next, or not at all.
LEMMA MovesKept ==
    ASSUME TypeOK, NothingForgotten, \A q \in Requests : Copies(q)' = Copies(q),
           UNCHANGED <<stream, sent>>, misused \subseteq misused',
           \A t \in Sessions : down[t] => down'[t]
    PROVE  NothingForgotten'
<1>1. ASSUME NEW q \in Requests
      PROVE  Kept(q)'
  <2>1. q[1] \in Sessions /\ Kept(q)
    BY Parts DEF NothingForgotten, Kept
  <2> QED
    BY <2>1, StaysKept
<1> QED
  BY <1>1 DEF NothingForgotten, Kept

\* Steps that change the places in no way that counts.
LEMMA QuietPlaces ==
    ASSUME TypeOK, NothingForgotten, PuttingOne,
           UNCHANGED <<requestChannel, stream, sent>>,
           \A w \in Workers : worker'[w].q = worker[w].q,
           \A t \in Sessions : writer'[t].q = writer[t].q,
           \A q \in Requests : InResponses(q)' = InResponses(q),
           misused \subseteq misused', \A t \in Sessions : down[t] => down'[t],
           \A t \in Sessions : \/ conn'[t] = conn[t] /\ putting'[t] = putting[t]
                               \/ conn[t] # "put" /\ conn'[t] # "put"
    PROVE  NothingForgotten' /\ PuttingOne'
<1>1. ASSUME NEW q \in Requests
      PROVE  Copies(q)' = Copies(q)
  <2>1. q[1] \in Sessions
    BY Parts
  <2>2. AtPut(q)' = AtPut(q)
    BY <2>1 DEF AtPut, One
  <2>3. InRequests(q)' = InRequests(q) /\ InResponses(q)' = InResponses(q)
    BY DEF InRequests
  <2>4. AtWorkers(q)' = AtWorkers(q)
    <3>1. {w \in Workers : worker'[w].q = q} = {w \in Workers : worker[w].q = q}
      OBVIOUS
    <3> QED
      BY <3>1 DEF AtWorkers
  <2>5. AtWriter(q)' = AtWriter(q)
    BY <2>1 DEF AtWriter
  <2> QED
    BY <2>2, <2>3, <2>4, <2>5, CopiesSum
<1>2. PuttingOne'
  BY DEF PuttingOne
<1>3. NothingForgotten'
  BY <1>1, MovesKept
<1> QED
  BY <1>2, <1>3
-----------------------------------------------------------------------------
(* The steps *)

\* What the steps preserve besides the types and the places of the fibers.
FlowInv ==
    PuttingOne /\ OpenedInOrder /\ Unanswered /\ NothingForgotten /\ EncoderOutlivesResponse

\* Steps of the connection fibers, and of the peers, that no request notices.
LEMMA ConnectionQuiet ==
    ASSUME PipelineInv, NEW s \in Sessions,
           OpenSession(s) \/ Leave(s) \/ CloseSocket(s) \/ PeerGone(s)
    PROVE  FlowInv'
<1> USE DEF connVars, streamVars
<1>1. /\ UNCHANGED <<stream, encoder, sent, disturbed, misused>>
      /\ UNCHANGED <<requestChannel, responseChannel, worker, putting>>
  BY DEF OpenSession, Leave, CloseSocket, PeerGone
<1>2. \A t \in Sessions : writer'[t].q = writer[t].q
  <2>1. CASE OpenSession(s) /\ detached
    <3>1. PICK a \in WriterStates : a = "loop"
      BY DEF WriterStates
    <3>2. writer' = [writer EXCEPT ![s] = [at |-> a, q |-> writer[s].q]]
      <4>1. writer' = [writer EXCEPT ![s].at = a]
        BY <2>1, <3>1 DEF OpenSession
      <4> QED
        BY <4>1, WriterGoes DEF PipelineInv
    <3> QED
      BY <3>2 DEF PipelineInv, TypeOK
  <2>2. CASE ~(OpenSession(s) /\ detached)
    BY <2>2 DEF OpenSession, Leave, CloseSocket, PeerGone
  <2> QED
    BY <2>1, <2>2
<1>3. \A t \in Sessions : down[t] => down'[t]
  <2>1. down \in [Sessions -> BOOLEAN]
    BY DEF PipelineInv, TypeOK
  <2>2. down' = down \/ down' = [down EXCEPT ![s] = TRUE]
    BY DEF OpenSession, Leave, CloseSocket, PeerGone
  <2> QED
    BY <2>1, <2>2
<1>4. \A t \in Sessions : conn'[t] = conn[t] \/ (conn[t] # "put" /\ conn'[t] # "put")
  <2>1. conn = [t \in Sessions |-> conn[t]]
    BY DEF PipelineInv, TypeOK
  <2>2. conn' = conn \/ (conn[s] # "put" /\ \E c \in {"read", "left", "gone"} : conn' = [conn EXCEPT ![s] = c])
    BY DEF OpenSession, Leave, CloseSocket, PeerGone
  <2> QED
    BY <2>1, <2>2
<1>5. \A q \in Requests : InResponses(q)' = InResponses(q)
  BY <1>1 DEF InResponses
<1>6. NothingForgotten' /\ PuttingOne'
  BY <1>1, <1>2, <1>3, <1>4, <1>5, QuietPlaces DEF PipelineInv
<1>7. OpenedInOrder' /\ Unanswered' /\ EncoderOutlivesResponse'
  BY <1>1, QuietSide DEF PipelineInv
<1> QED
  BY <1>6, <1>7 DEF FlowInv

\* The End that close() queues is no request.
LEMMA EndQuiet ==
    ASSUME PipelineInv, NEW s \in Sessions, PutEnd(s)
    PROVE  FlowInv'
<1> USE DEF connVars, streamVars
<1>1. /\ UNCHANGED <<stream, encoder, sent, disturbed, misused>>
      /\ UNCHANGED <<requestChannel, worker, writer, putting, down>>
  BY DEF PutEnd
<1>2. \A t \in Sessions : conn'[t] = conn[t] \/ (conn[t] # "put" /\ conn'[t] # "put")
  BY DEF PipelineInv, TypeOK, PutEnd
<1>3. \A q \in Requests : InResponses(q)' = InResponses(q)
  <2> TAKE q \in Requests
  <2>1. responseChannel' = [responseChannel EXCEPT ![s] = Append(responseChannel[s], End)]
    BY DEF PutEnd
  <2>2. InResponses(q)' = InResponses(q) + One(End = q)
    <3>1. TypeOK
      BY DEF PipelineInv
    <3> QED
      BY <2>1, <3>1, ResponsesGrow DEF One
  <2>3. End # q /\ InResponses(q) \in Nat
    BY Parts, CopiesParts DEF PipelineInv
  <2> QED
    BY <2>2, <2>3 DEF One
<1>4. NothingForgotten' /\ PuttingOne'
  BY <1>1, <1>2, <1>3, QuietPlaces DEF PipelineInv
<1>5. OpenedInOrder' /\ Unanswered' /\ EncoderOutlivesResponse'
  BY <1>1, QuietSide DEF PipelineInv
<1> QED
  BY <1>4, <1>5 DEF FlowInv

\* The client deletes a stream, and its encoder.
LEMMA ResetFlow ==
    ASSUME PipelineInv, NEW s \in Sessions, NEW n \in 1..MaxStreams, ResetByClient(s, n)
    PROVE  FlowInv'
<1> USE DEF connVars
<1>1. UNCHANGED <<conn, putting, down, stream, sent, misused, requestChannel, responseChannel, worker, writer>>
  BY DEF ResetByClient
<1>2. \A q \in Requests : InResponses(q)' = InResponses(q)
  BY <1>1 DEF InResponses
<1>3. NothingForgotten' /\ PuttingOne'
  BY <1>1, <1>2, QuietPlaces DEF PipelineInv
<1>4. OpenedInOrder'
  BY <1>1, OpenedStay DEF PipelineInv
<1>5. PICK q : /\ q = <<s, n>> /\ encoder[q] = "live"
               /\ encoder' = [encoder EXCEPT ![q] = "dead"] /\ disturbed' = disturbed \cup {q}
  BY DEF ResetByClient
<1>6. \A r \in Requests : encoder'[r] = IF r = q THEN "dead" ELSE encoder[r]
  BY <1>5 DEF PipelineInv, TypeOK
<1>7. Unanswered'
  <2>1. Unanswered
    BY DEF PipelineInv
  <2>2. /\ UNCHANGED <<stream, sent>> /\ disturbed \subseteq disturbed'
        /\ q \in disturbed' /\ encoder[q] = "live"
    BY <1>1, <1>5
  <2> QED
    BY <1>6, <2>1, <2>2 DEF Unanswered
<1>8. EncoderOutlivesResponse'
  BY <1>1, <1>5 DEF PipelineInv, EncoderOutlivesResponse
<1> QED
  BY <1>3, <1>4, <1>7, <1>8 DEF FlowInv

\* The handler decides on the body; the write fiber looks at closed_.
LEMMA FibersQuiet ==
    ASSUME PipelineInv, \/ \E w \in Workers, b \in BOOLEAN : RunHandler(w, b)
                        \/ \E s \in Sessions : WriterLoops(s)
    PROVE  FlowInv'
<1> USE DEF connVars, streamVars
<1>1. /\ UNCHANGED <<stream, encoder, sent, disturbed, misused>>
      /\ UNCHANGED <<requestChannel, responseChannel, conn, putting, down>>
  BY DEF RunHandler, WriterLoops
<1>2. /\ \A w \in Workers : worker'[w].q = worker[w].q
      /\ \A t \in Sessions : writer'[t].q = writer[t].q
  <2>1. ASSUME NEW w \in Workers, NEW b \in BOOLEAN, RunHandler(w, b)
        PROVE  <1>2!1 /\ <1>2!2
    <3>1. PICK a \in WorkerStates : a = IF detached THEN "reply" ELSE "headers"
      BY DEF WorkerStates, Stages
    <3>2. worker' = [worker EXCEPT ![w].at = a]
      BY <2>1, <3>1 DEF RunHandler
    <3>3. worker' = [worker EXCEPT ![w] = [at |-> a, q |-> worker[w].q]]
      BY <3>2, WorkerGoes DEF PipelineInv
    <3>4. worker'[w].q = worker[w].q /\ \A x \in Workers \ {w} : worker'[x] = worker[x]
      BY <3>3 DEF PipelineInv, TypeOK
    <3> QED
      BY <2>1, <3>4 DEF RunHandler
  <2>2. ASSUME NEW s \in Sessions, WriterLoops(s)
        PROVE  <1>2!1 /\ <1>2!2
    <3>1. PICK a \in WriterStates : a = IF closed[s] THEN "done" ELSE "wait"
      BY DEF WriterStates
    <3>2. writer' = [writer EXCEPT ![s].at = a]
      BY <2>2, <3>1 DEF WriterLoops
    <3>3. writer' = [writer EXCEPT ![s] = [at |-> a, q |-> writer[s].q]]
      BY <3>2, WriterGoes DEF PipelineInv
    <3>4. writer'[s].q = writer[s].q /\ \A t \in Sessions \ {s} : writer'[t] = writer[t]
      BY <3>3 DEF PipelineInv, TypeOK
    <3> QED
      BY <2>2, <3>4 DEF WriterLoops
  <2> QED
    BY <2>1, <2>2
<1>3. \A q \in Requests : InResponses(q)' = InResponses(q)
  BY <1>1 DEF InResponses
<1>4. NothingForgotten' /\ PuttingOne'
  BY <1>1, <1>2, <1>3, QuietPlaces DEF PipelineInv
<1>5. OpenedInOrder' /\ Unanswered' /\ EncoderOutlivesResponse'
  BY <1>1, QuietSide DEF PipelineInv
<1> QED
  BY <1>4, <1>5 DEF FlowInv

\* From the connection fiber into the request channel.
LEMMA PutRequestFlow ==
    ASSUME PipelineInv, NEW s \in Sessions, PutRequest(s)
    PROVE  FlowInv'
<1> USE DEF connVars, streamVars
<1> DEFINE r == <<s, putting[s]>>
<1>1. /\ UNCHANGED <<stream, encoder, sent, disturbed, misused>>
      /\ UNCHANGED <<responseChannel, worker, writer, down>>
      /\ conn[s] = "put" /\ requestChannel' = Append(requestChannel, r)
      /\ conn' = [conn EXCEPT ![s] = "read"] /\ putting' = [putting EXCEPT ![s] = 0]
  BY DEF PutRequest
<1>2. r \in Requests /\ r[1] = s /\ r[2] = putting[s]
  BY <1>1 DEF PipelineInv, PuttingOne, Requests
<1>3. \A t \in Sessions : /\ conn'[t] = IF t = s THEN "read" ELSE conn[t]
                          /\ putting'[t] = IF t = s THEN 0 ELSE putting[t]
  BY <1>1 DEF PipelineInv, TypeOK
<1> HIDE DEF r
<1>4. ASSUME NEW q \in Requests
      PROVE  Copies(q)' = Copies(q)
  <2>1. q[1] \in Sessions /\ (q = r <=> q[1] = s /\ q[2] = putting[s])
    BY Parts, <1>2 DEF r, PipelineInv
  <2>2. AtPut(q) = AtPut(q)' + One(q = r) /\ AtPut(q)' \in Nat
    BY <1>1, <1>3, <2>1 DEF AtPut, One
  <2>3. InRequests(q)' = InRequests(q) + One(q = r)
    <3>1. requestChannel \in Seq(Requests)
      BY Parts DEF PipelineInv
    <3> QED
      BY <1>1, <1>2, <3>1, OccurrencesAppend DEF InRequests, One
  <2>4. AtWorkers(q)' = AtWorkers(q) /\ InResponses(q)' = InResponses(q) /\ AtWriter(q)' = AtWriter(q)
    BY <1>1 DEF AtWorkers, InResponses, AtWriter
  <2>5. /\ InRequests(q) \in Nat /\ AtWorkers(q) \in Nat /\ InResponses(q) \in Nat /\ AtWriter(q) \in Nat
        /\ One(q = r) \in Nat
    BY CopiesParts DEF PipelineInv, One
  <2> QED
    BY <2>2, <2>3, <2>4, <2>5, CopiesSum
<1>5. NothingForgotten'
  BY <1>1, <1>4, MovesKept DEF PipelineInv
<1>6. PuttingOne'
  BY <1>3 DEF PipelineInv, PuttingOne
<1>7. OpenedInOrder' /\ Unanswered' /\ EncoderOutlivesResponse'
  BY <1>1, QuietSide DEF PipelineInv
<1> QED
  BY <1>5, <1>6, <1>7 DEF FlowInv

\* From the request channel to a worker.
LEMMA TakeRequestFlow ==
    ASSUME PipelineInv, NEW w \in Workers, TakeRequest(w)
    PROVE  FlowInv'
<1> USE DEF connVars, streamVars
<1> DEFINE r == Head(requestChannel)
<1>1. /\ UNCHANGED <<stream, encoder, sent, disturbed, misused>>
      /\ UNCHANGED <<responseChannel, writer, conn, putting, down>>
      /\ worker[w].at = "idle" /\ requestChannel # <<>>
      /\ worker' = [worker EXCEPT ![w] = [at |-> "handler", q |-> r]]
      /\ requestChannel' = Tail(requestChannel)
  BY DEF TakeRequest
<1>2. worker[w].q = End
  BY <1>1 DEF PipelineInv, BusyHasRequest
<1>6a. r \in Requests
  <2>1. requestChannel \in Seq(Requests)
    BY Parts DEF PipelineInv
  <2> QED
    BY <1>1, <2>1, HeadTailProperties
<1> HIDE DEF r
<1>3. ASSUME NEW q \in Requests
      PROVE  Copies(q)' = Copies(q)
  <2>1. q # End
    BY Parts DEF PipelineInv
  <2>2. AtPut(q)' = AtPut(q) /\ InResponses(q)' = InResponses(q) /\ AtWriter(q)' = AtWriter(q)
    BY <1>1 DEF AtPut, InResponses, AtWriter
  <2>3. InRequests(q)' = InRequests(q) - One(r = q)
    <3>1. requestChannel \in Seq(Requests)
      BY Parts DEF PipelineInv
    <3> QED
      BY <1>1, <3>1, OccurrencesTail DEF InRequests, One, r
  <2>4. AtWorkers(q)' = AtWorkers(q) - One(End = q) + One(r = q)
    <3>1. worker'[w].q = r /\ \A x \in Workers \ {w} : worker'[x].q = worker[x].q
      BY <1>1 DEF PipelineInv, TypeOK
    <3>2. TypeOK
      BY DEF PipelineInv
    <3> QED
      BY <1>2, <1>6a, <3>1, <3>2, WorkerMoves
  <2>5. /\ AtPut(q) \in Nat /\ InRequests(q) \in Nat /\ AtWorkers(q) \in Nat
        /\ InResponses(q) \in Nat /\ AtWriter(q) \in Nat
        /\ One(r = q) \in Nat /\ One(End = q) = 0
    BY <2>1, CopiesParts DEF PipelineInv, One
  <2> QED
    BY <2>2, <2>3, <2>4, <2>5, CopiesSum
<1>4. NothingForgotten'
  BY <1>1, <1>3, MovesKept DEF PipelineInv
<1>5. PuttingOne'
  BY <1>1 DEF PipelineInv, PuttingOne
<1>6. OpenedInOrder' /\ Unanswered' /\ EncoderOutlivesResponse'
  BY <1>1, QuietSide DEF PipelineInv
<1> QED
  BY <1>4, <1>5, <1>6 DEF FlowInv

\* From a worker into the response channel of the session.
LEMMA PutResponseFlow ==
    ASSUME PipelineInv, NEW w \in Workers, PutResponse(w)
    PROVE  FlowInv'
<1> USE DEF connVars, streamVars
<1> DEFINE r == worker[w].q
           s == r[1]
<1>1. /\ UNCHANGED <<stream, encoder, sent, disturbed, misused>>
      /\ UNCHANGED <<requestChannel, writer, conn, putting, down>>
      /\ worker[w].at # "idle" /\ worker' = [worker EXCEPT ![w] = Idle]
      /\ responseChannel' = [responseChannel EXCEPT ![s] = Append(responseChannel[s], r)]
  BY DEF PutResponse
<1>2. r \in Requests /\ s \in Sessions
  <2>1. r \in Requests
    BY <1>1 DEF PipelineInv, BusyHasRequest
  <2> QED
    BY <2>1, Parts DEF PipelineInv
<1> HIDE DEF r
<1>3. ASSUME NEW q \in Requests
      PROVE  Copies(q)' = Copies(q)
  <2>1. q # End
    BY Parts DEF PipelineInv
  <2>2. AtPut(q)' = AtPut(q) /\ InRequests(q)' = InRequests(q) /\ AtWriter(q)' = AtWriter(q)
    BY <1>1 DEF AtPut, InRequests, AtWriter
  <2>3. InResponses(q)' = InResponses(q) + One(r = q)
    <3>1. TypeOK
      BY DEF PipelineInv
    <3> QED
      BY <1>1, <1>2, <3>1, ResponsesGrow DEF One
  <2>4. AtWorkers(q)' = AtWorkers(q) - One(r = q) + One(End = q)
    <3>1. worker'[w].q = End /\ \A x \in Workers \ {w} : worker'[x].q = worker[x].q
      BY <1>1 DEF PipelineInv, TypeOK, Idle
    <3>2. TypeOK /\ worker[w].q = r
      BY DEF PipelineInv, r
    <3> QED
      BY <3>1, <3>2, WorkerMoves
  <2>5. /\ AtPut(q) \in Nat /\ InRequests(q) \in Nat /\ AtWorkers(q) \in Nat
        /\ InResponses(q) \in Nat /\ AtWriter(q) \in Nat
        /\ One(r = q) \in Nat /\ One(End = q) = 0
    BY <2>1, CopiesParts DEF PipelineInv, One
  <2> QED
    BY <2>2, <2>3, <2>4, <2>5, CopiesSum
<1>4. NothingForgotten'
  BY <1>1, <1>3, MovesKept DEF PipelineInv
<1>5. PuttingOne'
  BY <1>1 DEF PipelineInv, PuttingOne
<1>6. OpenedInOrder' /\ Unanswered' /\ EncoderOutlivesResponse'
  BY <1>1, QuietSide DEF PipelineInv
<1> QED
  BY <1>4, <1>5, <1>6 DEF FlowInv

\* From the response channel to the write fiber; or the End, which is no response.
LEMMA WriterTakesFlow ==
    ASSUME PipelineInv, NEW s \in Sessions, WriterTakes(s)
    PROVE  FlowInv'
<1> USE DEF connVars, streamVars
<1> DEFINE r == Head(responseChannel[s])
<1>1. /\ UNCHANGED <<stream, encoder, sent, disturbed, misused>>
      /\ UNCHANGED <<requestChannel, worker, conn, putting, down>>
      /\ writer[s].at = "wait" /\ responseChannel[s] # <<>>
      /\ writer' = [writer EXCEPT ![s] = IF r = End THEN [@ EXCEPT !.at = "done"]
                                                    ELSE [at |-> "headers", q |-> r]]
      /\ responseChannel' = [responseChannel EXCEPT ![s] = Tail(responseChannel[s])]
  BY DEF WriterTakes
<1>2. writer[s].q = End
  BY <1>1 DEF PipelineInv, BusyHasRequest, Stages
<1>3. r \in Requests \cup {End} /\ (r # End => r[1] = s)
  <2>1. responseChannel[s] \in Seq(Requests \cup {End})
    BY Parts DEF PipelineInv
  <2>2. 1 \in DOMAIN responseChannel[s] /\ r = responseChannel[s][1]
    BY <1>1, <2>1, LenProperties, EmptySeq
  <2> QED
    BY <1>1, <2>1, <2>2, HeadTailProperties DEF PipelineInv, OwnSession
<1> HIDE DEF r
<1>4. \E a \in WriterStates : writer' = [writer EXCEPT ![s] = [at |-> a, q |-> r]]
  <2>1. CASE r = End
    <3>1. PICK a \in WriterStates : a = "done"
      BY DEF WriterStates
    <3>2. writer' = [writer EXCEPT ![s].at = a]
      BY <1>1, <2>1, <3>1
    <3>3. writer' = [writer EXCEPT ![s] = [at |-> a, q |-> End]]
      BY <1>2, <3>2, WriterGoes DEF PipelineInv
    <3> QED
      BY <2>1, <3>3
  <2>2. CASE r # End
    <3>1. writer' = [writer EXCEPT ![s] = [at |-> "headers", q |-> r]]
      BY <1>1, <2>2
    <3> QED
      BY <3>1 DEF WriterStates, Stages
  <2> QED
    BY <2>1, <2>2
<1>5. ASSUME NEW q \in Requests
      PROVE  Copies(q)' = Copies(q)
  <2>1. q # End
    BY Parts DEF PipelineInv
  <2>2. AtPut(q)' = AtPut(q) /\ InRequests(q)' = InRequests(q) /\ AtWorkers(q)' = AtWorkers(q)
    BY <1>1 DEF AtPut, InRequests, AtWorkers
  <2>3. InResponses(q)' = InResponses(q) - One(r = q)
    BY <1>1, ResponsesShrink DEF PipelineInv, r
  <2>4. AtWriter(q)' = AtWriter(q) - One(End = q) + One(r = q)
    <3>1. writer'[s].q = r /\ \A x \in Sessions \ {s} : writer'[x].q = writer[x].q
      <4>1. PICK a \in WriterStates : writer' = [writer EXCEPT ![s] = [at |-> a, q |-> r]]
        BY <1>4
      <4>2. writer'[s] = [at |-> a, q |-> r] /\ \A x \in Sessions \ {s} : writer'[x] = writer[x]
        BY <4>1 DEF PipelineInv, TypeOK
      <4> QED
        BY <4>2
    <3>2. TypeOK
      BY DEF PipelineInv
    <3> QED
      BY <1>2, <1>3, <3>1, <3>2, WriterMoves
  <2>5. /\ AtPut(q) \in Nat /\ InRequests(q) \in Nat /\ AtWorkers(q) \in Nat
        /\ InResponses(q) \in Nat /\ AtWriter(q) \in Nat
        /\ One(r = q) \in Nat /\ One(End = q) = 0
    BY <2>1, CopiesParts DEF PipelineInv, One
  <2> QED
    BY <2>2, <2>3, <2>4, <2>5, CopiesSum
<1>6. NothingForgotten'
  BY <1>1, <1>5, MovesKept DEF PipelineInv
<1>7. PuttingOne'
  BY <1>1 DEF PipelineInv, PuttingOne
<1>8. OpenedInOrder' /\ Unanswered' /\ EncoderOutlivesResponse'
  BY <1>1, QuietSide DEF PipelineInv
<1> QED
  BY <1>6, <1>7, <1>8 DEF FlowInv
\* The connection fiber reads: what is new may be put next.
LEMMA ReadFlow ==
    ASSUME PipelineInv, NEW s \in Sessions, NEW q \in Requests, q[1] = s, conn[s] # "put",
           stream[q] # "complete",
           UNCHANGED <<requestChannel, responseChannel, worker, writer, down>>,
           misused \subseteq misused',
           \A x \in Sessions \ {s} : conn'[x] = conn[x] /\ putting'[x] = putting[x],
           conn'[s] = "put" => putting'[s] = q[2] /\ sent'[q] # "all",
           conn'[s] = "put" <=> stream'[q] = "complete",
           \A r \in Requests \ {q} : stream'[r] = stream[r] /\ sent'[r] = sent[r]
    PROVE  NothingForgotten' /\ PuttingOne'
<1>1. TypeOK /\ NothingForgotten /\ PuttingOne /\ q[2] \in 1..MaxStreams
  BY Parts DEF PipelineInv
<1>2. PuttingOne'
  BY <1>1 DEF PuttingOne
<1>3. ASSUME NEW r \in Requests
      PROVE  Copies(r)' = Copies(r) + One(r = q /\ conn'[s] = "put")
  <2>1. r[1] \in Sessions /\ (r = q <=> r[1] = s /\ r[2] = q[2])
    <3>1. r = <<r[1], r[2]>> /\ q = <<q[1], q[2]>> /\ r[1] \in Sessions
      BY <1>1, Parts
    <3> QED
      BY <3>1
  <2>2. AtPut(r)' = AtPut(r) + One(r = q /\ conn'[s] = "put")
    <3>1. AtPut(r)' = AtPut(r) + One(r[1] = s /\ conn'[s] = "put" /\ putting'[s] = r[2])
      BY <1>1, PutsOne
    <3> QED
      BY <2>1, <3>1 DEF One
  <2>3. /\ InRequests(r)' = InRequests(r) /\ AtWorkers(r)' = AtWorkers(r)
        /\ InResponses(r)' = InResponses(r) /\ AtWriter(r)' = AtWriter(r)
    BY DEF InRequests, AtWorkers, InResponses, AtWriter
  <2>4. /\ AtPut(r) \in Nat /\ InRequests(r) \in Nat /\ AtWorkers(r) \in Nat
        /\ InResponses(r) \in Nat /\ AtWriter(r) \in Nat
    BY <1>1, CopiesParts
  <2>5. One(r = q /\ conn'[s] = "put") \in Nat
    BY DEF One
  <2> QED
    BY <2>2, <2>3, <2>4, <2>5, CopiesSum
<1>4. \A r \in Requests : Copies(r) \in Nat /\ Kept(r)
  BY <1>1, CopiesNat DEF NothingForgotten, Kept
<1>5. Kept(q)'
  <2>1. CASE conn'[s] = "put"
    <3>1. Copies(q)' = Copies(q) + 1
      BY <1>3, <2>1 DEF One
    <3> QED
      BY <1>1, <1>4, <2>1, <3>1, EntersKept
  <2>2. CASE conn'[s] # "put"
    <3>1. Copies(q)' = Copies(q)
      BY <1>3, <1>4, <2>2 DEF One
    <3>2. Copies(q) = 0
      BY <1>4 DEF Kept
    <3> QED
      BY <2>2, <3>1, <3>2 DEF Kept
  <2> QED
    BY <2>1, <2>2
<1>6. ASSUME NEW r \in Requests \ {q}
      PROVE  Kept(r)'
  <2>1. Copies(r)' = Copies(r)
    BY <1>3, <1>4 DEF One
  <2> QED
    BY <1>1, <1>4, <2>1, StaysKept
<1>7. NothingForgotten'
  BY <1>5, <1>6 DEF NothingForgotten, Kept
<1> QED
  BY <1>2, <1>7

LEMMA DecodeHeadersFlow ==
    ASSUME PipelineInv, NEW s \in Sessions, NEW p \in {"Http1", "Http2"},
           NEW refused \in BOOLEAN, NEW endStream \in BOOLEAN,
           DecodeHeaders(s, p, refused, endStream)
    PROVE  FlowInv'
<1>1. PICK n : n = Cardinality(Opened(s)) + 1
  OBVIOUS
<1>2. PICK q : q = <<s, n>>
  OBVIOUS
<1>3. PICK overtaken : overtaken = {r \in Requests : r[1] = s /\ p = "Http1" /\ encoder[r] = "live"}
  OBVIOUS
<1>4. /\ conn[s] = "read" /\ n <= MaxStreams
      /\ stream' = [stream EXCEPT ![q] = CASE refused /\ endStream  -> "refused and complete"
                                           [] refused /\ ~endStream -> "refused"
                                           [] OTHER -> IF endStream THEN "complete" ELSE "body"]
      /\ sent' = IF refused /\ ~down[s] THEN [sent EXCEPT ![q] = "all"] ELSE sent
      /\ encoder' = [r \in Requests |->
                        IF r = q THEN IF refused /\ endStream THEN "dead" ELSE "live"
                        ELSE IF r \in overtaken THEN "dead" ELSE encoder[r]]
      /\ disturbed' = disturbed \cup overtaken
      /\ conn' = [conn EXCEPT ![s] = IF refused THEN (IF down[s] THEN "left" ELSE @)
                                      ELSE IF endStream THEN "put" ELSE @]
      /\ putting' = [putting EXCEPT ![s] = IF endStream /\ ~refused THEN n ELSE @]
      /\ UNCHANGED <<down, misused, requestChannel, responseChannel, worker, writer>>
  BY <1>1, <1>2, <1>3 DEF DecodeHeaders
<1>5. /\ n \in 1..MaxStreams /\ q \in Requests /\ stream[q] = "none" /\ Opened(s) = 1..n - 1
      /\ q[1] = s /\ q[2] = n
  <2>1. /\ n \in 1..MaxStreams /\ <<s, n>> \in Requests /\ stream[<<s, n>>] = "none"
        /\ Opened(s) = 1..n - 1
    BY <1>1, <1>4, NextRequest DEF PipelineInv
  <2> QED
    BY <1>2, <2>1
<1>6. PICK v : v = CASE refused /\ endStream  -> "refused and complete"
                     [] refused /\ ~endStream -> "refused"
                     [] OTHER -> IF endStream THEN "complete" ELSE "body"
  OBVIOUS
<1>7. \A r \in Requests : stream'[r] = IF r = q THEN v ELSE stream[r]
  BY <1>4, <1>6 DEF PipelineInv, TypeOK
<1>8. \A r \in Requests : sent'[r] = IF r = q /\ refused /\ ~down[s] THEN "all" ELSE sent[r]
  BY <1>4 DEF PipelineInv, TypeOK
<1>9. \A x \in Sessions :
         /\ conn'[x] = IF x # s THEN conn[x]
                       ELSE IF refused THEN (IF down[s] THEN "left" ELSE "read")
                       ELSE IF endStream THEN "put" ELSE "read"
         /\ putting'[x] = IF x = s /\ endStream /\ ~refused THEN n ELSE putting[x]
  BY <1>4 DEF PipelineInv, TypeOK
<1>10. /\ v \in {"refused and complete", "refused", "complete", "body"}
       /\ v = "refused and complete" <=> refused /\ endStream
       /\ v = "complete" <=> ~refused /\ endStream
       /\ v = "body" <=> ~refused /\ ~endStream
  BY <1>6
<1>11. sent[q] = "nothing" /\ encoder[q] = "none"
  BY <1>5 DEF PipelineInv, Unanswered
<1>12. NothingForgotten' /\ PuttingOne'
  <2>1. UNCHANGED <<requestChannel, responseChannel, worker, writer, down>> /\ misused \subseteq misused'
    BY <1>4
  <2>2. \A x \in Sessions \ {s} : conn'[x] = conn[x] /\ putting'[x] = putting[x]
    BY <1>9
  <2>3. conn'[s] = "put" <=> ~refused /\ endStream
    BY <1>9
  <2>4. conn'[s] = "put" => putting'[s] = q[2] /\ sent'[q] # "all"
    BY <1>5, <1>8, <1>9, <1>11, <2>3
  <2>5. conn'[s] = "put" <=> stream'[q] = "complete"
    BY <1>5, <1>7, <1>10, <2>3
  <2>6. \A r \in Requests \ {q} : stream'[r] = stream[r] /\ sent'[r] = sent[r]
    BY <1>7, <1>8
  <2>7. conn[s] # "put" /\ stream[q] # "complete"
    BY <1>4, <1>5
  <2> QED
    BY <1>5, <2>1, <2>2, <2>4, <2>5, <2>6, <2>7, ReadFlow
<1>13. OpenedInOrder'
  <2>1. stream' = [stream EXCEPT ![<<s, n>>] = v]
    BY <1>2, <1>4, <1>6
  <2>2. v # "none"
    BY <1>10
  <2> QED
    BY <1>5, <2>1, <2>2, OpenedNext DEF PipelineInv
<1>14. Unanswered'
  <2>1. \A r \in Requests : /\ encoder'[r] = IF r = q THEN (IF refused /\ endStream THEN "dead" ELSE "live")
                                             ELSE IF r \in overtaken THEN "dead" ELSE encoder[r]
                            /\ r \in overtaken => encoder[r] = "live" /\ r \in disturbed'
                            /\ r \in disturbed => r \in disturbed'
    BY <1>3, <1>4
  <2>2. Unanswered
    BY DEF PipelineInv
  <2>3. ASSUME NEW r \in Requests, r # q
        PROVE  Unanswered!(r)'
    BY <1>7, <1>8, <2>1, <2>2, <2>3 DEF Unanswered
  <2>4. Unanswered!(q)'
    BY <1>5, <1>7, <1>8, <1>10, <1>11, <2>1 DEF Unanswered
  <2> QED
    BY <2>3, <2>4 DEF Unanswered
<1>15. EncoderOutlivesResponse'
  <2>1. misused \subseteq Requests /\ EncoderOutlivesResponse
    BY DEF PipelineInv, TypeOK
  <2>2. misused' = misused /\ disturbed \subseteq disturbed'
    BY <1>4
  <2> QED
    BY <1>5, <1>7, <2>1, <2>2 DEF EncoderOutlivesResponse
<1> QED
  BY <1>12, <1>13, <1>14, <1>15 DEF FlowInv

LEMMA DecodeDataEndFlow ==
    ASSUME PipelineInv, NEW s \in Sessions, NEW n \in 1..MaxStreams, DecodeDataEnd(s, n)
    PROVE  FlowInv'
<1>1. PICK q : q = <<s, n>>
  OBVIOUS
<1>2. q \in Requests /\ q[1] = s /\ q[2] = n
  BY <1>1 DEF Requests
<1>3. /\ conn[s] = "read" /\ encoder[q] = "live"
      /\ \/ /\ stream[q] = "body" /\ stream' = [stream EXCEPT ![q] = "complete"]
            /\ conn' = [conn EXCEPT ![s] = "put"] /\ putting' = [putting EXCEPT ![s] = n]
            /\ UNCHANGED misused
         \/ /\ stream[q] = "refused" /\ stream' = [stream EXCEPT ![q] = "refused and complete"]
            /\ conn' = [conn EXCEPT ![s] = "left"] /\ UNCHANGED putting
            /\ misused' = misused \cup {q}
      /\ UNCHANGED <<down, encoder, sent, disturbed, requestChannel, responseChannel, worker, writer>>
  BY <1>1 DEF DecodeDataEnd
<1>4. /\ TypeOK /\ Unanswered /\ EncoderOutlivesResponse /\ OpenedInOrder
  BY DEF PipelineInv
<1>5. /\ \A r \in Requests : stream'[r] = IF r = q THEN stream'[q] ELSE stream[r]
      /\ \A x \in Sessions \ {s} : conn'[x] = conn[x] /\ putting'[x] = putting[x]
      /\ \/ /\ stream[q] = "body" /\ stream'[q] = "complete" /\ conn'[s] = "put" /\ putting'[s] = n
            /\ misused' = misused
         \/ /\ stream[q] = "refused" /\ stream'[q] = "refused and complete" /\ conn'[s] = "left"
            /\ misused' = misused \cup {q}
  <2>1. /\ stream \in [Requests -> {"none", "body", "complete", "refused", "refused and complete"}]
        /\ conn \in [Sessions -> {"open", "read", "put", "left", "closing", "gone"}]
        /\ putting \in [Sessions -> 0..MaxStreams]
    BY <1>4 DEF TypeOK
  <2>2. CASE stream[q] = "body"
    <3>1. /\ stream' = [stream EXCEPT ![q] = "complete"]
          /\ conn' = [conn EXCEPT ![s] = "put"] /\ putting' = [putting EXCEPT ![s] = n]
          /\ misused' = misused
      BY <1>3, <2>2
    <3> QED
      BY <1>2, <2>1, <2>2, <3>1
  <2>3. CASE stream[q] = "refused"
    <3>1. /\ stream' = [stream EXCEPT ![q] = "refused and complete"]
          /\ conn' = [conn EXCEPT ![s] = "left"] /\ putting' = putting
          /\ misused' = misused \cup {q}
      BY <1>3, <2>3
    <3> QED
      BY <1>2, <2>1, <2>3, <3>1
  <2> QED
    BY <1>3, <2>2, <2>3
<1>6. NothingForgotten' /\ PuttingOne'
  <2>1. /\ UNCHANGED <<requestChannel, responseChannel, worker, writer, down, sent>>
        /\ misused \subseteq misused' /\ conn[s] # "put" /\ stream[q] # "complete"
    BY <1>3
  <2>2. conn'[s] = "put" <=> stream'[q] = "complete"
    BY <1>5
  <2>3. conn'[s] = "put" => putting'[s] = q[2] /\ sent'[q] # "all"
    BY <1>2, <1>4, <1>5, <2>1 DEF Unanswered
  <2>4. \A r \in Requests \ {q} : stream'[r] = stream[r] /\ sent'[r] = sent[r]
    BY <1>5, <2>1
  <2> QED
    BY <1>2, <1>5, <2>1, <2>2, <2>3, <2>4, ReadFlow
<1>7. OpenedInOrder'
  <2>1. \A r \in Requests : stream'[r] = "none" <=> stream[r] = "none"
    BY <1>5
  <2> QED
    BY <1>4, <2>1, OpenedStay
<1>8. Unanswered'
  <2>1. UNCHANGED <<sent, encoder, disturbed>>
    BY <1>3
  <2>2. ASSUME NEW r \in Requests, r # q
        PROVE  Unanswered!(r)'
    BY <1>4, <1>5, <2>1, <2>2 DEF Unanswered
  <2>3. encoder[q] = "live" /\ stream'[q] \in {"complete", "refused and complete"}
    BY <1>3, <1>5
  <2>4. Unanswered!(q)'
    BY <2>1, <2>3
  <2> QED
    BY <2>2, <2>4 DEF Unanswered
<1>9. EncoderOutlivesResponse'
  <2>1. disturbed' = disturbed /\ misused \subseteq Requests
    BY <1>3, <1>4 DEF TypeOK
  <2> QED
    BY <1>4, <1>5, <2>1 DEF EncoderOutlivesResponse
<1> QED
  BY <1>6, <1>7, <1>8, <1>9 DEF FlowInv
\* A request that is being answered: one copy of it is counted, and it may be laid down.
LEMMA AnsweredFlow ==
    ASSUME PipelineInv, NEW q \in Requests, NEW part \in Stages, Copies(q) # 0,
           UNCHANGED <<stream, disturbed, down, conn, putting>>,
           ~Throws(q) => Encode(part, q), Throws(q) => UNCHANGED <<sent, encoder, misused>>,
           \A r \in Requests \ {q} : Copies(r)' = Copies(r),
           Copies(q)' = IF Throws(q) \/ IsLast(part, q) THEN Copies(q) - 1 ELSE Copies(q)
    PROVE  FlowInv'
<1>1. TypeOK /\ NothingForgotten /\ Unanswered /\ EncoderOutlivesResponse /\ OpenedInOrder /\ PuttingOne
  BY DEF PipelineInv
<1>2. Kept(q) /\ Copies(q) \in Nat /\ Copies(q) = 1 /\ q[1] \in Sessions
  BY <1>1, CopiesNat, Parts DEF NothingForgotten, Kept
<1>3. stream[q] = "complete" /\ sent[q] # "all"
  BY <1>2 DEF Kept
<1>4. ASSUME misused \subseteq misused', \A r \in Requests \ {q} : sent'[r] = sent[r],
             Throws(q) \/ IsLast(part, q) => sent'[q] = "all" \/ down[q[1]] \/ q \in misused',
             ~(Throws(q) \/ IsLast(part, q)) => sent'[q] # "all"
      PROVE  NothingForgotten'
  <2>1. Kept(q)'
    <3>1. CASE Throws(q) \/ IsLast(part, q)
      <4>1. Copies(q)' = Copies(q) - 1 /\ (sent'[q] = "all" \/ down'[q[1]] \/ q \in misused')
        BY <1>4, <3>1
      <4> QED
        BY <1>1, <1>2, <4>1, LeavesKept
    <3>2. CASE ~(Throws(q) \/ IsLast(part, q))
      <4>1. Copies(q)' = Copies(q) /\ sent'[q] # "all"
        BY <1>4, <3>2
      <4> QED
        BY <1>1, <1>2, <1>4, <4>1, StaysKept
    <3> QED
      BY <3>1, <3>2
  <2>2. ASSUME NEW r \in Requests \ {q}
        PROVE  Kept(r)'
    <3>1. Kept(r)
      BY <1>1 DEF NothingForgotten, Kept
    <3>2. Copies(r)' = Copies(r) /\ sent'[r] = sent[r]
      BY <1>4
    <3> QED
      BY <1>1, <1>4, <3>1, <3>2, StaysKept
  <2> QED
    BY <2>1, <2>2 DEF NothingForgotten, Kept
<1>5. PuttingOne' /\ OpenedInOrder'
  <2>1. PuttingOne'
    BY <1>1 DEF PuttingOne
  <2> QED
    BY <1>1, <2>1, OpenedStay
<1>6. CASE Throws(q)
  <2>1. UNCHANGED <<sent, encoder, misused>>
    BY <1>6
  <2>2. down[q[1]]
    BY <1>6 DEF Throws
  <2>3. NothingForgotten'
    BY <1>4, <1>6, <2>1, <2>2
  <2>4. Unanswered' /\ EncoderOutlivesResponse'
    BY <1>1, <2>1, QuietSide
  <2> QED
    BY <1>5, <2>3, <2>4 DEF FlowInv
<1>7. CASE ~Throws(q)
  <2>1. Encode(part, q)
    BY <1>7
  <2>2. /\ Unanswered' /\ EncoderOutlivesResponse'
        /\ misused \subseteq misused'
        /\ \A r \in Requests : r # q => sent'[r] = sent[r]
        /\ IsLast(part, q) => sent'[q] = "all" \/ q \in misused'
        /\ ~IsLast(part, q) => sent'[q] # "all"
    BY <1>1, <1>3, <2>1, EncodeEffect
  <2>3. NothingForgotten'
    BY <1>4, <1>7, <2>2
  <2> QED
    BY <1>5, <2>2, <2>3 DEF FlowInv
<1> QED
  BY <1>6, <1>7

LEMMA WorkerEncodesFlow ==
    ASSUME PipelineInv, NEW w \in Workers, WorkerEncodes(w)
    PROVE  FlowInv'
<1>1. PICK part : part = worker[w].at
  OBVIOUS
<1>2. PICK q : q = worker[w].q
  OBVIOUS
<1>3. /\ part \in Stages /\ part # "idle"
      /\ ~Throws(q) => Encode(part, q)
      /\ Throws(q) => UNCHANGED <<sent, encoder, misused>>
      /\ Throws(q) \/ IsLast(part, q) => worker' = [worker EXCEPT ![w] = Idle]
      /\ ~(Throws(q) \/ IsLast(part, q)) => worker' = [worker EXCEPT ![w] = [@ EXCEPT !.at = After(part)]]
      /\ UNCHANGED <<stream, disturbed, down, conn, putting, requestChannel, responseChannel, writer>>
  BY <1>1, <1>2 DEF WorkerEncodes, Stages, connVars
<1>4. q \in Requests /\ q # End /\ TypeOK
  BY <1>1, <1>2, <1>3, Parts DEF PipelineInv, BusyHasRequest
<1>5. \A r \in Requests : /\ AtPut(r)' = AtPut(r) /\ InRequests(r)' = InRequests(r)
                          /\ InResponses(r)' = InResponses(r) /\ AtWriter(r)' = AtWriter(r)
  BY <1>3 DEF AtPut, InRequests, InResponses, AtWriter
<1>6. \A r \in Requests : /\ AtPut(r) \in Nat /\ InRequests(r) \in Nat /\ AtWorkers(r) \in Nat
                          /\ InResponses(r) \in Nat /\ AtWriter(r) \in Nat
  BY <1>4, CopiesParts
<1>7. Copies(q) # 0
  <2>1. AtWorkers(q) # 0
    <3>1. IsFiniteSet({x \in Workers : worker[x].q = q}) /\ w \in {x \in Workers : worker[x].q = q}
      BY <1>2, <1>4, CopiesParts
    <3> QED
      BY <3>1, FS_EmptySet DEF AtWorkers
  <2>2. /\ AtPut(q) \in Nat /\ InRequests(q) \in Nat /\ AtWorkers(q) \in Nat
        /\ InResponses(q) \in Nat /\ AtWriter(q) \in Nat
    BY <1>4, <1>6
  <2> QED
    BY <2>1, <2>2, CopiesSum
<1>8. CASE Throws(q) \/ IsLast(part, q)
  <2>1. worker'[w].q = End /\ \A x \in Workers \ {w} : worker'[x].q = worker[x].q
    <3>1. worker' = [worker EXCEPT ![w] = [at |-> "idle", q |-> End]]
      BY <1>3, <1>8 DEF Idle
    <3>2. worker'[w] = [at |-> "idle", q |-> End] /\ \A x \in Workers \ {w} : worker'[x] = worker[x]
      BY <1>4, <3>1 DEF TypeOK
    <3> QED
      BY <3>2
  <2>2. \A r \in Requests : AtWorkers(r)' = AtWorkers(r) - One(worker[w].q = r) + One(End = r)
    BY <1>4, <2>1, WorkerMoves
  <2>3. \A r \in Requests : AtWorkers(r)' = IF r = q THEN AtWorkers(r) - 1 ELSE AtWorkers(r)
    <3> TAKE r \in Requests
    <3>1. End # r
      BY <1>4, Parts
    <3> QED
      BY <1>2, <1>6, <2>2, <3>1 DEF One
  <2>4. \A r \in Requests \ {q} : Copies(r)' = Copies(r)
    BY <1>5, <2>3, CopiesSum
  <2>5. Copies(q)' = Copies(q) - 1
    <3>1. AtWorkers(q)' = AtWorkers(q) - 1
      BY <1>4, <2>3
    <3> QED
      BY <1>4, <1>5, <1>6, <3>1, CopiesSum
  <2> QED
    BY <1>3, <1>4, <1>7, <1>8, <2>4, <2>5, AnsweredFlow
<1>9. CASE ~(Throws(q) \/ IsLast(part, q))
  <2>1. PICK a \in WorkerStates : a = After(part)
    BY <1>3, <1>9, NextCall DEF WorkerStates
  <2>2. worker' = [worker EXCEPT ![w].at = a]
    BY <1>3, <1>9, <2>1
  <2>3. worker' = [worker EXCEPT ![w] = [at |-> a, q |-> worker[w].q]]
    BY <1>4, <2>2, WorkerGoes
  <2>4. \A x \in Workers : worker'[x].q = worker[x].q
    <3>1. worker'[w].q = worker[w].q /\ \A x \in Workers \ {w} : worker'[x] = worker[x]
      BY <1>4, <2>3 DEF TypeOK
    <3> QED
      BY <3>1
  <2>5. ASSUME NEW r \in Requests
        PROVE  Copies(r)' = Copies(r)
    <3>1. {x \in Workers : worker'[x].q = r} = {x \in Workers : worker[x].q = r}
      BY <2>4
    <3>2. AtWorkers(r)' = AtWorkers(r)
      BY <3>1 DEF AtWorkers
    <3> QED
      BY <1>5, <3>2, CopiesSum
  <2> QED
    BY <1>3, <1>4, <1>7, <1>9, <2>5, AnsweredFlow
<1> QED
  BY <1>8, <1>9

LEMMA WriterEncodesFlow ==
    ASSUME PipelineInv, NEW s \in Sessions, WriterEncodes(s)
    PROVE  FlowInv'
<1>1. PICK part : part = writer[s].at
  OBVIOUS
<1>2. PICK q : q = writer[s].q
  OBVIOUS
<1>3. /\ part \in Stages
      /\ ~Throws(q) => Encode(part, q)
      /\ Throws(q) => UNCHANGED <<sent, encoder, misused>>
      /\ Throws(q) \/ IsLast(part, q) =>
            \E a \in {"failed", "loop"} : writer' = [writer EXCEPT ![s] = [at |-> a, q |-> End]]
      /\ ~(Throws(q) \/ IsLast(part, q)) => writer' = [writer EXCEPT ![s] = [@ EXCEPT !.at = After(part)]]
      /\ UNCHANGED <<stream, disturbed, down, conn, putting, requestChannel, responseChannel, worker>>
  BY <1>1, <1>2 DEF WriterEncodes, Stages, connVars
<1>4. q \in Requests /\ q # End /\ TypeOK /\ q[1] = s
  <2>1. q \in Requests /\ q # End /\ TypeOK
    BY <1>1, <1>2, <1>3, Parts DEF PipelineInv, BusyHasRequest
  <2> QED
    BY <1>2, <2>1 DEF PipelineInv, OwnSession
<1>5. \A r \in Requests : /\ AtPut(r)' = AtPut(r) /\ InRequests(r)' = InRequests(r)
                          /\ InResponses(r)' = InResponses(r) /\ AtWorkers(r)' = AtWorkers(r)
  BY <1>3 DEF AtPut, InRequests, InResponses, AtWorkers
<1>6. \A r \in Requests : /\ AtPut(r) \in Nat /\ InRequests(r) \in Nat /\ AtWorkers(r) \in Nat
                          /\ InResponses(r) \in Nat /\ AtWriter(r) \in Nat
  BY <1>4, CopiesParts
<1>7. Copies(q) # 0
  <2>1. AtWriter(q) # 0
    BY <1>2, <1>4 DEF AtWriter, One
  <2>2. /\ AtPut(q) \in Nat /\ InRequests(q) \in Nat /\ AtWorkers(q) \in Nat
        /\ InResponses(q) \in Nat /\ AtWriter(q) \in Nat
    BY <1>4, <1>6
  <2> QED
    BY <2>1, <2>2, CopiesSum
<1>8. CASE Throws(q) \/ IsLast(part, q)
  <2>1. writer'[s].q = End /\ \A x \in Sessions \ {s} : writer'[x].q = writer[x].q
    <3>1. PICK a \in {"failed", "loop"} : writer' = [writer EXCEPT ![s] = [at |-> a, q |-> End]]
      BY <1>3, <1>8
    <3>2. writer'[s] = [at |-> a, q |-> End] /\ \A x \in Sessions \ {s} : writer'[x] = writer[x]
      BY <1>4, <3>1 DEF TypeOK
    <3> QED
      BY <3>2
  <2>2. \A r \in Requests : AtWriter(r)' = AtWriter(r) - One(writer[s].q = r) + One(End = r)
    BY <1>2, <1>4, <2>1, WriterMoves
  <2>3. \A r \in Requests : AtWriter(r)' = IF r = q THEN AtWriter(r) - 1 ELSE AtWriter(r)
    <3> TAKE r \in Requests
    <3>1. End # r
      BY <1>4, Parts
    <3> QED
      BY <1>2, <1>6, <2>2, <3>1 DEF One
  <2>4. \A r \in Requests \ {q} : Copies(r)' = Copies(r)
    BY <1>5, <2>3, CopiesSum
  <2>5. Copies(q)' = Copies(q) - 1
    <3>1. AtWriter(q)' = AtWriter(q) - 1
      BY <1>4, <2>3
    <3> QED
      BY <1>4, <1>5, <1>6, <3>1, CopiesSum
  <2> QED
    BY <1>3, <1>4, <1>7, <1>8, <2>4, <2>5, AnsweredFlow
<1>9. CASE ~(Throws(q) \/ IsLast(part, q))
  <2>1. PICK a \in WriterStates : a = After(part)
    BY <1>3, <1>9, NextCall DEF WriterStates
  <2>2. writer' = [writer EXCEPT ![s].at = a]
    BY <1>3, <1>9, <2>1
  <2>3. writer' = [writer EXCEPT ![s] = [at |-> a, q |-> writer[s].q]]
    BY <1>4, <2>2, WriterGoes
  <2>4. \A x \in Sessions : writer'[x].q = writer[x].q
    <3>1. writer'[s].q = writer[s].q /\ \A x \in Sessions \ {s} : writer'[x] = writer[x]
      BY <1>4, <2>3 DEF TypeOK
    <3> QED
      BY <3>1
  <2>5. ASSUME NEW r \in Requests
        PROVE  Copies(r)' = Copies(r)
    <3>1. r[1] \in Sessions
      BY <1>4, Parts
    <3>2. AtWriter(r)' = AtWriter(r)
      BY <2>4, <3>1 DEF AtWriter
    <3> QED
      BY <1>5, <3>2, CopiesSum
  <2> QED
    BY <1>3, <1>4, <1>7, <1>9, <2>5, AnsweredFlow
<1> QED
  BY <1>8, <1>9
-----------------------------------------------------------------------------
(* The theorems *)

LEMMA FlowStep == ASSUME PipelineInv, [Next]_vars PROVE FlowInv'
<1>1. CASE UNCHANGED vars
  <2>1. UNCHANGED <<conn, putting, down, stream, encoder, sent, disturbed, misused,
                    requestChannel, responseChannel, worker, writer>>
    BY <1>1 DEF vars, connVars, streamVars
  <2>2. \A q \in Requests : InResponses(q)' = InResponses(q)
    BY <2>1 DEF InResponses
  <2>3. NothingForgotten' /\ PuttingOne'
    BY <2>1, <2>2, QuietPlaces DEF PipelineInv
  <2>4. OpenedInOrder' /\ Unanswered' /\ EncoderOutlivesResponse'
    BY <2>1, QuietSide DEF PipelineInv
  <2> QED
    BY <2>3, <2>4 DEF FlowInv
<1>2. ASSUME NEW s \in Sessions, Client(s) \/ Connection(s) \/ WriteFiber(s)
      PROVE  FlowInv'
  <2>1. CASE Client(s)
    BY <2>1, ConnectionQuiet, DecodeHeadersFlow, DecodeDataEndFlow, ResetFlow DEF Client
  <2>2. CASE Connection(s)
    BY <2>2, ConnectionQuiet, PutRequestFlow, EndQuiet DEF Connection
  <2>3. CASE WriteFiber(s)
    BY <2>3, FibersQuiet, WriterTakesFlow, WriterEncodesFlow DEF WriteFiber
  <2> QED
    BY <1>2, <2>1, <2>2, <2>3
<1>3. ASSUME NEW w \in Workers, Work(w)
      PROVE  FlowInv'
  BY <1>3, TakeRequestFlow, PutResponseFlow, WorkerEncodesFlow, FibersQuiet DEF Work
<1> QED
  BY <1>1, <1>2, <1>3 DEF Next

LEMMA InitInv == Init => PipelineInv
<1> SUFFICES ASSUME Init PROVE PipelineInv
  OBVIOUS
<1>1. TypeOK
  BY TypeInit
<1>2. /\ \A s \in Sessions : conn[s] = "open" /\ writer[s] = [at |-> "none", q |-> End]
                             /\ responseChannel[s] = <<>>
      /\ \A w \in Workers : worker[w] = [at |-> "idle", q |-> End]
      /\ \A q \in Requests : stream[q] = "none" /\ encoder[q] = "none" /\ sent[q] = "nothing"
      /\ requestChannel = <<>> /\ misused = {}
  BY DEF Init, Idle
<1>3. PuttingOne /\ BusyHasRequest /\ OwnSession /\ Unanswered /\ EncoderOutlivesResponse
  <2>1. PuttingOne /\ EncoderOutlivesResponse
    BY <1>2 DEF PuttingOne, EncoderOutlivesResponse
  <2>2. BusyHasRequest
    BY <1>2 DEF BusyHasRequest, Stages
  <2>3. OwnSession
    BY <1>2 DEF OwnSession
  <2>4. Unanswered
    BY <1>2 DEF Unanswered
  <2> QED
    BY <2>1, <2>2, <2>3, <2>4
<1>4. OpenedInOrder
  <2>1. \A s \in Sessions : \A n \in 1..MaxStreams : <<s, n>> \in Requests
    BY DEF Requests
  <2>2. \A s \in Sessions : Opened(s) = {}
    BY <1>2, <2>1 DEF Opened
  <2>3. 0 \in 0..MaxStreams /\ 1..0 = {}
    BY PipelineAssumption
  <2> QED
    BY <2>2, <2>3 DEF OpenedInOrder
<1>5. ASSUME NEW q \in Requests
      PROVE  Copies(q) = 0
  <2>1. q[1] \in Sessions /\ q # End
    BY <1>1, Parts
  <2>2. AtPut(q) = 0 /\ AtWriter(q) = 0
    BY <1>2, <2>1 DEF AtPut, AtWriter, One
  <2>3. {i \in DOMAIN << >> : << >>[i] = q} = {}
    OBVIOUS
  <2>4. InRequests(q) = 0 /\ InResponses(q) = 0
    BY <1>2, <2>1, <2>3, FS_EmptySet DEF InRequests, InResponses, Occurrences
  <2>5. AtWorkers(q) = 0
    <3>1. {w \in Workers : worker[w].q = q} = {}
      BY <1>2, <2>1
    <3> QED
      BY <3>1, FS_EmptySet DEF AtWorkers
  <2> QED
    BY <2>2, <2>4, <2>5, CopiesSum
<1>6. NothingForgotten
  BY <1>2, <1>5 DEF NothingForgotten
<1> QED
  BY <1>1, <1>3, <1>4, <1>6 DEF PipelineInv

LEMMA PipelineInvHolds == Spec => []PipelineInv
<1>1. Init => PipelineInv
  BY InitInv
<1>2. PipelineInv /\ [Next]_vars => PipelineInv'
  <2> SUFFICES ASSUME PipelineInv, [Next]_vars PROVE PipelineInv'
    OBVIOUS
  <2>1. TypeOK'
    BY TypeStep DEF PipelineInv
  <2>2. BusyHasRequest' /\ OwnSession'
    BY BusyStep DEF PipelineInv
  <2>3. FlowInv'
    BY FlowStep
  <2> QED
    BY <2>1, <2>2, <2>3 DEF PipelineInv, FlowInv
<1> QED
  BY <1>1, <1>2, PTL DEF Spec

\* The fibers, channels and streams of the server keep their types.
THEOREM PipelineTyped == Spec => []TypeOK
<1>1. PipelineInv => TypeOK
  BY DEF PipelineInv
<1> QED
  BY <1>1, PipelineInvHolds, PTL

\* However many connections, workers and streams there are and however small the
\* channels: a request that is complete is in one place of the server until its response
\* is encoded, and is dropped only for a peer that is gone or an encoder that is.
THEOREM NothingLost == Spec => []NothingForgotten
<1>1. PipelineInv => NothingForgotten
  BY DEF PipelineInv
<1> QED
  BY <1>1, PipelineInvHolds, PTL

\* An encoder is used after its destruction only when the client reset the stream, or
\* overtook it with the next HTTP/1 request, or its request had been refused.
THEOREM EncodersOutlive == Spec => []EncoderOutlivesResponse
<1>1. PipelineInv => EncoderOutlivesResponse
  BY DEF PipelineInv
<1> QED
  BY <1>1, PipelineInvHolds, PTL
=============================================================================
